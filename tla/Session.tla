------------------------------ MODULE Session ------------------------------
(***************************************************************************)
(* Signing in and out: the tabs of one browser, the two stores that keep   *)
(* the JWT (localStorage, shared by the tabs, and each tab's               *)
(* sessionStorage), the token that the React tree of a tab shows, the      *)
(* calls in flight, and the portal's table of revoked sessions.  Answers   *)
(* come late, in any order, or not at all.                                 *)
(***************************************************************************)
EXTENDS Naturals, Sequences, FiniteSets

CONSTANTS User,        \* local accounts
          TwoFactor,   \* those with a second factor
          Tab,
          MaxTokens,   \* bound: sessions opened
          MaxCalls,    \* bound: calls in flight per tab
          MaxLost      \* bound: answers lost (network error, timeout, 5xx)

ASSUME SessionAssumption ==
  /\ TwoFactor \subseteq User
  /\ MaxTokens \in Nat /\ MaxCalls \in Nat /\ MaxLost \in Nat

VARIABLES owner,       \* owner[k]: the account of the k-th token issued
          dead,        \* tokens whose user_sessions row is revoked, or expired
          persistent,  \* localStorage
          temporary,   \* temporary[t]: sessionStorage of a tab
          shown,       \* shown[t]: token state of AuthProvider
          page,        \* page[t]: where the tab is
          challenged,  \* challenged[t]: account of LoginPage's twoFactor state
          calls,       \* calls in flight; equal ones count once
          lost         \* answers lost so far

vars == <<owner, dead, persistent, temporary, shown, page, challenged, calls, lost>>
browser == <<persistent, temporary, shown, page, challenged>>
server  == <<owner, dead>>

NoToken == 0
Token   == 1..MaxTokens
Maybe(S) == {{}} \union {{x} : x \in S}

Kind == {"login", "challenge", "fetch", "logout", "password", "verify2fa",
         "disable2fa", "others"}
Call == [tab : Tab, kind : Kind, user : Maybe(User), bearer : Token \union {NoToken},
         remember : BOOLEAN,
         reply : {"sent", "ok", "challenge", "refused", "error"},
         fresh : Token \union {NoToken}]

TypeOK ==
  /\ owner \in Seq(User) /\ Len(owner) <= MaxTokens
  /\ dead \subseteq DOMAIN owner
  /\ persistent \in DOMAIN owner \union {NoToken}
  /\ temporary \in [Tab -> DOMAIN owner \union {NoToken}]
  /\ shown \in [Tab -> DOMAIN owner \union {NoToken}]
  /\ page \in [Tab -> {"login", "app", "leaving", "closed"}]
  /\ challenged \in [Tab -> Maybe(User)]
  /\ calls \subseteq Call
  /\ lost \in 0..MaxLost

Init ==
  /\ owner = <<>> /\ dead = {} /\ persistent = NoToken
  /\ temporary = [t \in Tab |-> NoToken]
  /\ shown = [t \in Tab |-> NoToken]
  /\ page = [t \in Tab |-> "closed"]
  /\ challenged = [t \in Tab |-> {}]
  /\ calls = {} /\ lost = 0

(***************************************************************************)
(* tokenStorage.js                                                         *)
(***************************************************************************)
\* getToken: localStorage first.
Stored(t) == IF persistent # NoToken THEN persistent ELSE temporary[t]

\* Mutant: the other store keeps what it had.
persistTokenBoth(t, k, remember) ==
  /\ persistent' = IF remember THEN k ELSE persistent
  /\ temporary' = [temporary EXCEPT ![t] = IF remember THEN @ ELSE k]

persistToken(t, k, remember) ==
  /\ persistent' = IF remember THEN k ELSE NoToken
  /\ temporary' = [temporary EXCEPT ![t] = IF remember THEN NoToken ELSE k]

refreshToken(t, k) == persistToken(t, k, persistent # NoToken)

clearToken(t) ==
  /\ persistent' = NoToken
  /\ temporary' = [temporary EXCEPT ![t] = NoToken]

(***************************************************************************)
(* The tab: opening, loading, closing, moving                              *)
(***************************************************************************)
CallsOf(t) == {c \in calls : c.tab = t}

\* A page load runs AuthProvider anew: its state is what the stores hold, and
\* ProtectedRoute sends a tab without a token to /login.  The callbacks of
\* calls sent before are gone.
Load(t, to) ==
  /\ shown' = [shown EXCEPT ![t] = Stored(t)]
  /\ page' = [page EXCEPT ![t] = IF Stored(t) = NoToken THEN "login" ELSE to]
  /\ challenged' = [challenged EXCEPT ![t] = {}]
  /\ calls' = calls \ CallsOf(t)
  /\ UNCHANGED <<server, persistent, temporary, lost>>

Visit(t) == page[t] # "leaving" /\ \E to \in {"login", "app"} : Load(t, to)

\* window.location.href = '/login' has taken effect.
Leave(t) == page[t] = "leaving" /\ Load(t, "login")

\* sessionStorage lives as long as the tab.
Close(t) ==
  /\ page[t] # "closed"
  /\ page' = [page EXCEPT ![t] = "closed"]
  /\ temporary' = [temporary EXCEPT ![t] = NoToken]
  /\ shown' = [shown EXCEPT ![t] = NoToken]
  /\ challenged' = [challenged EXCEPT ![t] = {}]
  /\ calls' = calls \ CallsOf(t)
  /\ UNCHANGED <<server, persistent, lost>>

\* The Back button reaches /login, a public route, without a page load.
Back(t) ==
  /\ page[t] = "app"
  /\ page' = [page EXCEPT ![t] = "login"]
  /\ UNCHANGED <<server, persistent, temporary, shown, challenged, calls, lost>>

(***************************************************************************)
(* Requests                                                                *)
(***************************************************************************)
\* The request interceptor attaches whatever token the stores hold now.
Send(t, kind, user, remember) ==
  /\ Cardinality(CallsOf(t)) < MaxCalls
  /\ calls' = calls \union
       {[tab |-> t, kind |-> kind, user |-> user, remember |-> remember,
         bearer |-> Stored(t), reply |-> "sent", fresh |-> NoToken]}

\* LoginPage's loading flag: one sign-in at a time.
SigningIn(t) == \E c \in CallsOf(t) : c.kind \in {"login", "challenge"}

SubmitLogin(t) ==
  /\ page[t] = "login" /\ ~SigningIn(t) /\ challenged[t] = {}
  /\ \E u \in User, r \in BOOLEAN : Send(t, "login", {u}, r)
  /\ UNCHANGED <<server, browser, lost>>

SubmitChallenge(t) ==
  /\ page[t] = "login" /\ ~SigningIn(t) /\ challenged[t] # {}
  /\ \E r \in BOOLEAN : Send(t, "challenge", challenged[t], r)
  /\ UNCHANGED <<server, browser, lost>>

\* Neither "cancel" nor the mode switch waits for the answer in flight.
CancelChallenge(t) ==
  /\ page[t] = "login"
  /\ challenged' = [challenged EXCEPT ![t] = {}]
  /\ UNCHANGED <<server, persistent, temporary, shown, page, calls, lost>>

\* Any other call of a page: a poll, or the account page's own operations.
\* Their busy flags live in components that the user may leave and reopen.
Ask(t, kind) ==
  /\ page[t] = "app"
  /\ Send(t, kind, {}, FALSE)
  /\ UNCHANGED <<server, browser, lost>>

Fetch(t) == Ask(t, "fetch")

SignOut(t)             == Ask(t, "logout")
ChangePassword(t)      == Ask(t, "password")
SubmitVerify(t)        == Ask(t, "verify2fa")
SubmitDisable(t)       == Ask(t, "disable2fa")
RevokeOtherSessions(t) == Ask(t, "others")

(***************************************************************************)
(* The portal                                                              *)
(***************************************************************************)
\* get_current_user
Accepts(k) == k # NoToken /\ k \notin dead

Reply(c, reply, fresh) ==
  calls' = (calls \ {c}) \union {[c EXCEPT !.reply = reply, !.fresh = fresh]}

\* Mutant: the token handed out is not the one whose session was recorded.
IssueOther(c, u) ==
  /\ Len(owner) < MaxTokens
  /\ owner' = Append(owner, u)
  /\ Reply(c, "ok", Len(owner) + 2)

\* create_session and create_access_token for an account.
Issue(c, u) ==
  /\ Len(owner) < MaxTokens
  /\ owner' = Append(owner, u)
  /\ Reply(c, "ok", Len(owner) + 1)

TokensOf(u) == {k \in DOMAIN owner : owner[k] = u}

\* A 401: from get_current_user, from a wrong password or code at the login,
\* and from a wrong current password or confirmation on the account page.
Refuse(c) ==
  /\ \/ c.kind \in {"login", "challenge", "password", "disable2fa"}
     \/ ~Accepts(c.bearer)
  /\ Reply(c, "refused", NoToken)
  /\ UNCHANGED server

login_local(c) ==
  /\ c.kind = "login"
  /\ \E u \in c.user :
       IF u \in TwoFactor THEN Reply(c, "challenge", NoToken) /\ UNCHANGED owner
                          ELSE Issue(c, u)
  /\ UNCHANGED dead

login_2fa(c) ==
  /\ c.kind = "challenge"
  /\ \E u \in c.user : Issue(c, u)
  /\ UNCHANGED dead

\* change_password: every session of the account ends, the caller's included.
change_password(c) ==
  /\ c.kind = "password" /\ Accepts(c.bearer)
  /\ Issue(c, owner[c.bearer])
  /\ dead' = dead \union TokensOf(owner[c.bearer])

verify_2fa(c) ==
  /\ c.kind = "verify2fa" /\ Accepts(c.bearer)
  /\ \/ Issue(c, owner[c.bearer]) /\ dead' = dead \union {c.bearer}
     \/ Reply(c, "error", NoToken) /\ UNCHANGED server      \* 400: wrong code

revoke_other_sessions(c) ==
  /\ c.kind = "others" /\ Accepts(c.bearer)
  /\ dead' = dead \union (TokensOf(owner[c.bearer]) \ {c.bearer})
  /\ Reply(c, "ok", NoToken) /\ UNCHANGED owner

logout(c) ==
  /\ c.kind = "logout" /\ Accepts(c.bearer)
  /\ dead' = dead \union {c.bearer}
  /\ Reply(c, "ok", NoToken) /\ UNCHANGED owner

Answer(c) ==
  /\ c.kind \in {"fetch", "disable2fa"} /\ Accepts(c.bearer)
  /\ Reply(c, "ok", NoToken) /\ UNCHANGED server

Serve(c) ==
  /\ c.reply = "sent"
  /\ \/ Refuse(c) \/ login_local(c) \/ login_2fa(c) \/ change_password(c)
     \/ verify_2fa(c) \/ revoke_other_sessions(c) \/ logout(c) \/ Answer(c)
  /\ UNCHANGED <<browser, lost>>

\* The session expires, or an administrator or another device ends it.
EndSession ==
  /\ \E k \in DOMAIN owner \ dead : dead' = dead \union {k}
  /\ UNCHANGED <<owner, browser, calls, lost>>

\* The answer, or the call itself, is lost on the way.
Lose ==
  /\ lost < MaxLost
  /\ lost' = lost + 1
  /\ \E c \in calls : c.reply # "error" /\ Reply(c, "error", NoToken)
  /\ UNCHANGED <<server, browser>>

(***************************************************************************)
(* Answers                                                                 *)
(***************************************************************************)
Done(c) == calls' = calls \ {c}

\* Mutant: only localStorage is asked whether there is a token to give up.
ThrowsPersistent(c) ==
  /\ c.reply = "refused" /\ c.kind \notin {"login", "challenge"}
  /\ page[c.tab] # "login" /\ persistent # NoToken

\* client.js: a 401 clears both stores and leaves for /login, unless it
\* answers a sign-in, comes when the tab is at /login or finds no token.
Throws(c) ==
  /\ c.reply = "refused" /\ c.kind \notin {"login", "challenge"}
  /\ page[c.tab] # "login" /\ Stored(c.tab) # NoToken

Thrown(c) ==
  /\ Throws(c) /\ c.kind # "logout"
  /\ clearToken(c.tab)
  /\ page' = [page EXCEPT ![c.tab] = "leaving"]
  /\ UNCHANGED <<shown, challenged>>

\* An error shown, or nothing.
Ignored(c) ==
  /\ c.kind # "logout" /\ ~Throws(c)
  /\ c.reply \in {"refused", "error"} \/ (c.reply = "ok" /\ c.fresh = NoToken)
  /\ UNCHANGED browser

Arrive(c, at) == page' = [page EXCEPT ![c.tab] = IF @ = "leaving" THEN @ ELSE at]

AskSecondFactor(c) ==
  /\ c.reply = "challenge"
  /\ challenged' = [challenged EXCEPT ![c.tab] = c.user]
  /\ UNCHANGED <<persistent, temporary, shown, page>>

\* login, loginLocal, completeTwoFactor
SignedIn(c) ==
  /\ c.kind \in {"login", "challenge"} /\ c.fresh # NoToken
  /\ persistToken(c.tab, c.fresh, c.remember)
  /\ shown' = [shown EXCEPT ![c.tab] = c.fresh]
  /\ Arrive(c, "app")
  /\ challenged' = [challenged EXCEPT ![c.tab] = {}]

\* Mutant: the renewed token is stored, the React state keeps the old one.
RenewedUnshown(c) ==
  /\ c.kind \in {"password", "verify2fa"} /\ c.fresh # NoToken
  /\ refreshToken(c.tab, c.fresh)
  /\ UNCHANGED <<shown, page, challenged>>

\* updateToken; ChangePasswordPage then goes to the dashboard, the account
\* page stays where it is.
Renewed(c) ==
  /\ c.kind \in {"password", "verify2fa"} /\ c.fresh # NoToken
  /\ refreshToken(c.tab, c.fresh)
  /\ shown' = [shown EXCEPT ![c.tab] = c.fresh]
  /\ \/ UNCHANGED page
     \/ c.kind = "password" /\ Arrive(c, "app")
  /\ UNCHANGED challenged

\* useAuth.logout: whatever the answer, the stores are cleared; the pages
\* then navigate to /login.
SignedOut(c) ==
  /\ c.kind = "logout" /\ c.reply # "sent"
  /\ clearToken(c.tab)
  /\ shown' = [shown EXCEPT ![c.tab] = NoToken]
  /\ page' = [page EXCEPT ![c.tab] = IF Throws(c) THEN "leaving"
                                     ELSE IF @ = "leaving" THEN @ ELSE "login"]
  /\ UNCHANGED challenged

Receive(c) ==
  /\ Thrown(c) \/ Ignored(c) \/ AskSecondFactor(c) \/ SignedIn(c) \/ Renewed(c) \/ SignedOut(c)
  /\ Done(c)
  /\ UNCHANGED <<server, lost>>

(***************************************************************************)
Next ==
  \/ \E t \in Tab : \/ Visit(t) \/ Leave(t) \/ Close(t) \/ Back(t)
                    \/ SubmitLogin(t) \/ SubmitChallenge(t) \/ CancelChallenge(t)
                    \/ Fetch(t) \/ SignOut(t) \/ ChangePassword(t) \/ SubmitVerify(t)
                    \/ SubmitDisable(t) \/ RevokeOtherSessions(t)
  \/ \E c \in calls : Serve(c) \/ Receive(c)
  \/ EndSession \/ Lose

Spec == Init /\ [][Next]_vars

\* The pages poll, the portal answers or the client times out, a browser that
\* was told to load a page does so, and nobody reloads a tab for ever.
FairSpec ==
  /\ Spec
  /\ <>[][\A t \in Tab : ~Visit(t)]_vars
  /\ \A t \in Tab : /\ WF_vars(Leave(t)) /\ WF_vars(Fetch(t))
                    /\ WF_vars(\E c \in CallsOf(t) : Serve(c))
                    /\ WF_vars(\E c \in CallsOf(t) : Receive(c))

(***************************************************************************)
(* Properties                                                              *)
(***************************************************************************)
\* tokenStorage.js: the token lies in exactly one of the two stores, never in
\* both, so that the choice made at the sign-in stays unambiguous.
OneStore == \A t \in Tab : persistent = NoToken \/ temporary[t] = NoToken

\* On a page of the portal, the account shown is the account that the next
\* call is made as, whatever answers arrived late.
ShownIsStored ==
  \A t \in Tab : page[t] = "app" => shown[t] = Stored(t) /\ shown[t] # NoToken

\* A tab does not stay on a page of the portal with a session that has ended:
\* the next poll is refused and the tab is led to the login.
DeadTokenLeavesScreen ==
  \A t \in Tab, k \in Token :
    page[t] = "app" /\ shown[t] = k /\ k \in dead
      ~> page[t] # "app" \/ shown[t] # k
=============================================================================
