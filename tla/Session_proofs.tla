--------------------------- MODULE Session_proofs ---------------------------
(***************************************************************************)
(* Proofs about signing in and out.                                        *)
(*                                                                         *)
(* For any number of tabs, accounts and calls: every token that is stored, *)
(* shown, sent or on its way in an answer has been issued (Issued), which  *)
(* is what TypeOK needs to be inductive.                                   *)
(*                                                                         *)
(* For a browser with one tab: the two stores exclude each other, and what *)
(* AuthProvider shows is what the interceptor sends.  A second tab shares  *)
(* localStorage and breaks both: it may write there what the first has in  *)
(* its sessionStorage.                                                     *)
(***************************************************************************)
EXTENDS Session, TLAPS

(* No call carries or brings a token that create_session did not record. *)
Issued ==
  \A c \in calls : c.bearer \in DOMAIN owner \union {NoToken}
                   /\ c.fresh \in DOMAIN owner \union {NoToken}

Inv == TypeOK /\ Issued

-----------------------------------------------------------------------------
(* The accounts of the tokens issued. *)
LEMMA Owners ==
  ASSUME TypeOK
  PROVE  /\ DOMAIN owner = 1..Len(owner) /\ Len(owner) \in Nat
         /\ DOMAIN owner \subseteq Token /\ NoToken \notin DOMAIN owner
         /\ \A k \in DOMAIN owner : owner[k] \in User
  BY SessionAssumption DEF TypeOK, Token, NoToken

(* create_session adds a token and takes none away. *)
LEMMA Grows ==
  ASSUME TypeOK, NEW u \in User, Len(owner) < MaxTokens, owner' = Append(owner, u)
  PROVE  /\ owner' \in Seq(User) /\ Len(owner') <= MaxTokens
         /\ DOMAIN owner \subseteq DOMAIN owner'
         /\ Len(owner) + 1 \in DOMAIN owner' /\ Len(owner) + 1 \in Token
  <1>1. owner \in Seq(User) /\ Len(owner) \in Nat /\ MaxTokens \in Nat
    BY SessionAssumption DEF TypeOK
  <1>2. /\ owner' \in Seq(User) /\ Len(owner') = Len(owner) + 1
        /\ DOMAIN owner' = 1..Len(owner') /\ DOMAIN owner = 1..Len(owner)
    BY <1>1
  <1>3. QED  BY <1>1, <1>2 DEF Token

(* The token that the stores of a tab hold has been issued. *)
LEMMA StoredIssued ==
  ASSUME TypeOK, NEW t \in Tab
  PROVE  Stored(t) \in DOMAIN owner \union {NoToken}
  BY DEF TypeOK, Stored

(* At the start nobody is signed in. *)
LEMMA InitInv == Init => Inv
  <1> SUFFICES ASSUME Init PROVE Inv
    OBVIOUS
  <1>1. owner \in Seq(User) /\ Len(owner) <= MaxTokens
    BY SessionAssumption DEF Init
  <1>2. /\ dead \subseteq DOMAIN owner /\ persistent \in DOMAIN owner \union {NoToken}
        /\ temporary \in [Tab -> DOMAIN owner \union {NoToken}]
        /\ shown \in [Tab -> DOMAIN owner \union {NoToken}]
    BY DEF Init
  <1>3. /\ page \in [Tab -> {"login", "app", "leaving", "closed"}]
        /\ challenged \in [Tab -> Maybe(User)]
    BY DEF Init, Maybe
  <1>4. calls \subseteq Call /\ lost \in 0..MaxLost /\ Issued
    BY SessionAssumption DEF Init, Issued
  <1>5. QED  BY <1>1, <1>2, <1>3, <1>4 DEF Inv, TypeOK

(* Nothing but the pages, the calls and their loss changes. *)
LEMMA PagesKeep ==
  ASSUME Inv, UNCHANGED <<server, persistent>>,
         temporary' \in [Tab -> DOMAIN owner \union {NoToken}],
         shown' \in [Tab -> DOMAIN owner \union {NoToken}],
         page' \in [Tab -> {"login", "app", "leaving", "closed"}],
         challenged' \in [Tab -> Maybe(User)],
         calls' \subseteq calls, lost' = lost
  PROVE  Inv'
  <1>1. UNCHANGED <<owner, dead, persistent>>
    BY DEF server
  <1>2. TypeOK'
    BY <1>1 DEF Inv, TypeOK
  <1>3. Issued'
    BY <1>1 DEF Inv, Issued
  <1>4. QED  BY <1>2, <1>3 DEF Inv

(* Loading, leaving, closing and going back. *)
LEMMA TabKeeps ==
  ASSUME Inv, NEW t \in Tab, Visit(t) \/ Leave(t) \/ Close(t) \/ Back(t) \/ CancelChallenge(t)
  PROVE  Inv'
  <1>1. /\ temporary \in [Tab -> DOMAIN owner \union {NoToken}]
        /\ shown \in [Tab -> DOMAIN owner \union {NoToken}]
        /\ page \in [Tab -> {"login", "app", "leaving", "closed"}]
        /\ challenged \in [Tab -> Maybe(User)]
    BY DEF Inv, TypeOK
  <1>2. {} \in Maybe(User)
    BY DEF Maybe
  <1>3. ASSUME NEW to \in {"login", "app"}, Load(t, to)
        PROVE  Inv'
    <2>1. Stored(t) \in DOMAIN owner \union {NoToken}
      BY StoredIssued DEF Inv
    <2>2. /\ UNCHANGED <<server, persistent>> /\ temporary' = temporary /\ lost' = lost
          /\ calls' \subseteq calls
          /\ shown' \in [Tab -> DOMAIN owner \union {NoToken}]
          /\ page' \in [Tab -> {"login", "app", "leaving", "closed"}]
          /\ challenged' \in [Tab -> Maybe(User)]
      BY <1>1, <1>2, <1>3, <2>1 DEF Load
    <2>3. QED  BY <1>1, <2>2, PagesKeep
  <1>4. CASE Visit(t) \/ Leave(t)
    BY <1>3, <1>4 DEF Visit, Leave
  <1>5. CASE Close(t)
    <2>1. /\ UNCHANGED <<server, persistent>> /\ lost' = lost /\ calls' \subseteq calls
          /\ temporary' \in [Tab -> DOMAIN owner \union {NoToken}]
          /\ shown' \in [Tab -> DOMAIN owner \union {NoToken}]
          /\ page' \in [Tab -> {"login", "app", "leaving", "closed"}]
          /\ challenged' \in [Tab -> Maybe(User)]
      BY <1>1, <1>2, <1>5 DEF Close
    <2>2. QED  BY <2>1, PagesKeep
  <1>6. CASE Back(t) \/ CancelChallenge(t)
    <2>1. /\ UNCHANGED <<server, persistent>> /\ lost' = lost /\ calls' \subseteq calls
          /\ temporary' = temporary /\ shown' = shown
          /\ page' \in [Tab -> {"login", "app", "leaving", "closed"}]
          /\ challenged' \in [Tab -> Maybe(User)]
      BY <1>1, <1>2, <1>6 DEF Back, CancelChallenge
    <2>2. QED  BY <1>1, <2>1, PagesKeep
  <1>7. QED  BY <1>4, <1>5, <1>6

(* The interceptor sends a token that the stores hold. *)
LEMMA SendKeeps ==
  ASSUME Inv, NEW t \in Tab, NEW kind \in Kind, NEW u \in Maybe(User), NEW r \in BOOLEAN,
         Send(t, kind, u, r), UNCHANGED <<server, browser, lost>>
  PROVE  Inv'
  <1> DEFINE c == [tab |-> t, kind |-> kind, user |-> u, remember |-> r,
                   bearer |-> Stored(t), reply |-> "sent", fresh |-> NoToken]
  <1>1. Stored(t) \in DOMAIN owner \union {NoToken} /\ DOMAIN owner \subseteq Token
    BY StoredIssued, Owners DEF Inv
  <1>2. c \in Call /\ c.bearer = Stored(t) /\ c.fresh = NoToken
    BY <1>1 DEF Call
  <1>3. calls' = calls \union {c}
    BY DEF Send
  <1> HIDE DEF c
  <1>4. UNCHANGED <<owner, dead, persistent, temporary, shown, page, challenged, lost>>
    BY DEF server, browser
  <1>5. TypeOK'
    BY <1>2, <1>3, <1>4 DEF Inv, TypeOK
  <1>6. Issued'
    BY <1>1, <1>2, <1>3, <1>4 DEF Inv, Issued
  <1>7. QED  BY <1>5, <1>6 DEF Inv

(* Every request that a page makes. *)
LEMMA RequestKeeps ==
  ASSUME Inv, NEW t \in Tab,
         \/ SubmitLogin(t) \/ SubmitChallenge(t) \/ Fetch(t) \/ SignOut(t)
         \/ ChangePassword(t) \/ SubmitVerify(t) \/ SubmitDisable(t) \/ RevokeOtherSessions(t)
  PROVE  Inv'
  <1>1. CASE SubmitLogin(t)
    <2>1. PICK u \in User, r \in BOOLEAN : Send(t, "login", {u}, r)
      BY <1>1 DEF SubmitLogin
    <2>2. {u} \in Maybe(User) /\ "login" \in Kind /\ UNCHANGED <<server, browser, lost>>
      BY <1>1 DEF Maybe, Kind, SubmitLogin
    <2>3. QED  BY <2>1, <2>2, SendKeeps
  <1>2. CASE SubmitChallenge(t)
    <2>1. PICK r \in BOOLEAN : Send(t, "challenge", challenged[t], r)
      BY <1>2 DEF SubmitChallenge
    <2>2. challenged[t] \in Maybe(User) /\ "challenge" \in Kind
      BY DEF Inv, TypeOK, Kind
    <2>3. UNCHANGED <<server, browser, lost>>
      BY <1>2 DEF SubmitChallenge
    <2>4. QED  BY <2>1, <2>2, <2>3, SendKeeps
  <1>3. ASSUME NEW kind \in Kind, Ask(t, kind)
        PROVE  Inv'
    <2>1. Send(t, kind, {}, FALSE) /\ UNCHANGED <<server, browser, lost>>
      BY <1>3 DEF Ask
    <2>2. {} \in Maybe(User) /\ FALSE \in BOOLEAN
      BY DEF Maybe
    <2>3. QED  BY <2>1, <2>2, SendKeeps
  <1>4. CASE Fetch(t) \/ SignOut(t) \/ ChangePassword(t) \/ SubmitVerify(t)
               \/ SubmitDisable(t) \/ RevokeOtherSessions(t)
    <2>1. {"fetch", "logout", "password", "verify2fa", "disable2fa", "others"} \subseteq Kind
      BY DEF Kind
    <2>2. \/ Ask(t, "fetch") \/ Ask(t, "logout") \/ Ask(t, "password")
          \/ Ask(t, "verify2fa") \/ Ask(t, "disable2fa") \/ Ask(t, "others")
      BY <1>4 DEF Fetch, SignOut, ChangePassword, SubmitVerify, SubmitDisable,
                  RevokeOtherSessions
    <2>3. PICK kind \in Kind : Ask(t, kind)
      BY <2>1, <2>2
    <2>4. QED  BY <1>3, <2>3
  <1>5. QED  BY <1>1, <1>2, <1>4

(* The portal answers a call; at most it has issued the token it sends. *)
LEMMA ReplyKeeps ==
  ASSUME Inv, NEW c \in calls, NEW r \in {"sent", "ok", "challenge", "refused", "error"},
         NEW k \in Token \union {NoToken}, Reply(c, r, k),
         UNCHANGED <<persistent, temporary, shown, page, challenged>>, lost' \in 0..MaxLost,
         owner' \in Seq(User), Len(owner') <= MaxTokens, DOMAIN owner \subseteq DOMAIN owner',
         k \in DOMAIN owner' \union {NoToken}, dead' \subseteq DOMAIN owner
  PROVE  Inv'
  <1> DEFINE d == [c EXCEPT !.reply = r, !.fresh = k]
  <1>1. c \in Call
    BY DEF Inv, TypeOK
  <1>2. d \in Call /\ d.bearer = c.bearer /\ d.fresh = k
    BY <1>1 DEF Call
  <1>3. calls' = (calls \ {c}) \union {d}
    BY DEF Reply
  <1> HIDE DEF d
  <1>4. TypeOK'
    BY <1>2, <1>3 DEF Inv, TypeOK
  <1>5. Issued'
    BY <1>2, <1>3 DEF Inv, Issued
  <1>6. QED  BY <1>4, <1>5 DEF Inv

(* A call that is answered with a new session of an account. *)
LEMMA IssueKeeps ==
  ASSUME Inv, NEW c \in calls, NEW u \in User, Issue(c, u),
         UNCHANGED <<browser, lost>>, dead' \subseteq DOMAIN owner
  PROVE  Inv'
  <1>1. Len(owner) < MaxTokens /\ owner' = Append(owner, u) /\ Reply(c, "ok", Len(owner) + 1)
    BY DEF Issue
  <1>2. /\ owner' \in Seq(User) /\ Len(owner') <= MaxTokens
        /\ DOMAIN owner \subseteq DOMAIN owner'
        /\ Len(owner) + 1 \in DOMAIN owner' /\ Len(owner) + 1 \in Token
    BY <1>1, Grows DEF Inv
  <1>3. lost' \in 0..MaxLost /\ UNCHANGED <<persistent, temporary, shown, page, challenged>>
    BY DEF browser, Inv, TypeOK
  <1>4. QED  BY <1>1, <1>2, <1>3, ReplyKeeps

(* A call that is answered without one. *)
LEMMA PlainKeeps ==
  ASSUME Inv, NEW c \in calls, NEW r \in {"sent", "ok", "challenge", "refused", "error"},
         Reply(c, r, NoToken), UNCHANGED <<owner, browser>>, lost' \in 0..MaxLost,
         dead' \subseteq DOMAIN owner
  PROVE  Inv'
  <1>1. /\ owner' \in Seq(User) /\ Len(owner') <= MaxTokens /\ owner' = owner
        /\ UNCHANGED <<persistent, temporary, shown, page, challenged>>
    BY DEF Inv, TypeOK, browser
  <1>2. QED  BY <1>1, ReplyKeeps

(* The handlers of auth.py, account and sessions. *)
LEMMA ServeKeeps ==
  ASSUME Inv, NEW c \in calls, Serve(c)
  PROVE  Inv'
  <1>1. /\ UNCHANGED browser /\ lost' = lost /\ lost' \in 0..MaxLost
        /\ dead \subseteq DOMAIN owner /\ c \in Call
    BY DEF Serve, Inv, TypeOK
  <1>2. ASSUME Accepts(c.bearer)
        PROVE  c.bearer \in DOMAIN owner /\ owner[c.bearer] \in User
    BY <1>2, Owners DEF Accepts, Inv, Issued
  <1>3. \A u \in c.user : u \in User
    BY <1>1 DEF Call, Maybe
  <1>4. \A u : TokensOf(u) \subseteq DOMAIN owner
    BY DEF TokensOf
  <1>5. CASE Refuse(c)
    BY <1>1, <1>5, PlainKeeps DEF Refuse, server
  <1>6. CASE login_local(c)
    <2>1. PICK u \in c.user :
            IF u \in TwoFactor THEN Reply(c, "challenge", NoToken) /\ UNCHANGED owner
                               ELSE Issue(c, u)
      BY <1>6 DEF login_local
    <2>2. dead' \subseteq DOMAIN owner
      BY <1>1, <1>6 DEF login_local
    <2>3. QED  BY <1>1, <1>3, <2>1, <2>2, PlainKeeps, IssueKeeps
  <1>7. CASE login_2fa(c)
    BY <1>1, <1>3, <1>7, IssueKeeps DEF login_2fa
  <1>8. CASE change_password(c)
    <2>1. dead' \subseteq DOMAIN owner
      BY <1>1, <1>4, <1>8 DEF change_password
    <2>2. QED  BY <1>1, <1>2, <1>8, <2>1, IssueKeeps DEF change_password
  <1>9. CASE verify_2fa(c)
    <2>1. CASE Issue(c, owner[c.bearer]) /\ dead' = dead \union {c.bearer}
      <3>1. dead' \subseteq DOMAIN owner
        BY <1>1, <1>2, <1>9, <2>1 DEF verify_2fa
      <3>2. QED  BY <1>1, <1>2, <1>9, <2>1, <3>1, IssueKeeps DEF verify_2fa
    <2>2. CASE Reply(c, "error", NoToken) /\ UNCHANGED server
      BY <1>1, <2>2, PlainKeeps DEF server
    <2>3. QED  BY <1>9, <2>1, <2>2 DEF verify_2fa
  <1>10. CASE revoke_other_sessions(c)
    <2>1. dead' \subseteq DOMAIN owner
      BY <1>1, <1>4, <1>10 DEF revoke_other_sessions
    <2>2. QED  BY <1>1, <1>10, <2>1, PlainKeeps DEF revoke_other_sessions
  <1>11. CASE logout(c)
    <2>1. dead' \subseteq DOMAIN owner
      BY <1>1, <1>2, <1>11 DEF logout
    <2>2. QED  BY <1>1, <1>11, <2>1, PlainKeeps DEF logout
  <1>12. CASE Answer(c)
    BY <1>1, <1>12, PlainKeeps DEF Answer, server
  <1>13. QED
    BY <1>5, <1>6, <1>7, <1>8, <1>9, <1>10, <1>11, <1>12 DEF Serve

(* Answers that arrive, whatever was done since they were sent for. *)
LEMMA ReceiveKeeps ==
  ASSUME Inv, NEW c \in calls, Receive(c)
  PROVE  Inv'
  <1>1. /\ calls' \subseteq calls /\ UNCHANGED <<owner, dead, lost>>
        /\ c \in Call /\ c.tab \in Tab /\ c.user \in Maybe(User) /\ {} \in Maybe(User)
        /\ c.fresh \in DOMAIN owner \union {NoToken}
    BY DEF Receive, Done, server, Inv, TypeOK, Issued, Call, Maybe
  <1>2. /\ persistent \in DOMAIN owner \union {NoToken}
        /\ temporary \in [Tab -> DOMAIN owner \union {NoToken}]
        /\ shown \in [Tab -> DOMAIN owner \union {NoToken}]
        /\ page \in [Tab -> {"login", "app", "leaving", "closed"}]
        /\ challenged \in [Tab -> Maybe(User)]
    BY DEF Inv, TypeOK
  <1>3. /\ persistent' \in DOMAIN owner \union {NoToken}
        /\ temporary' \in [Tab -> DOMAIN owner \union {NoToken}]
    BY <1>1, <1>2 DEF Receive, Thrown, Ignored, AskSecondFactor, SignedIn, Renewed, SignedOut,
                      browser, clearToken, refreshToken, persistToken
  <1>4. shown' \in [Tab -> DOMAIN owner \union {NoToken}]
    BY <1>1, <1>2 DEF Receive, Thrown, Ignored, AskSecondFactor, SignedIn, Renewed, SignedOut,
                      browser
  <1>5. challenged' \in [Tab -> Maybe(User)]
    BY <1>1, <1>2 DEF Receive, Thrown, Ignored, AskSecondFactor, SignedIn, Renewed, SignedOut,
                      browser
  <1>6. page' \in [Tab -> {"login", "app", "leaving", "closed"}]
    BY <1>1, <1>2 DEF Receive, Thrown, Ignored, AskSecondFactor, SignedIn, Renewed, SignedOut,
                      browser, Arrive
  <1>7. TypeOK'
    BY <1>1, <1>3, <1>4, <1>5, <1>6 DEF Inv, TypeOK
  <1>8. Issued'
    BY <1>1 DEF Inv, Issued
  <1>9. QED  BY <1>7, <1>8 DEF Inv

(* Sessions that end elsewhere, and answers that are lost. *)
LEMMA OutsideKeeps ==
  ASSUME Inv, EndSession \/ Lose
  PROVE  Inv'
  <1>1. CASE EndSession
    <2>1. UNCHANGED <<owner, persistent, temporary, shown, page, challenged, calls, lost>>
      BY <1>1 DEF EndSession, browser
    <2>2. dead' \subseteq DOMAIN owner
      BY <1>1 DEF EndSession, Inv, TypeOK
    <2>3. QED  BY <2>1, <2>2 DEF Inv, TypeOK, Issued
  <1>2. CASE Lose
    <2>1. PICK c \in calls : Reply(c, "error", NoToken)
      BY <1>2 DEF Lose
    <2>2. lost' \in 0..MaxLost
      BY <1>2, SessionAssumption DEF Lose, Inv, TypeOK
    <2>3. UNCHANGED <<owner, browser>> /\ dead' \subseteq DOMAIN owner
      BY <1>2 DEF Lose, server, Inv, TypeOK
    <2>4. QED  BY <2>1, <2>2, <2>3, PlainKeeps
  <1>3. QED  BY <1>1, <1>2

(* Every step keeps the invariant. *)
LEMMA NextKeeps == Inv /\ [Next]_vars => Inv'
  <1> SUFFICES ASSUME Inv, [Next]_vars PROVE Inv'
    OBVIOUS
  <1>1. ASSUME NEW t \in Tab,
               Visit(t) \/ Leave(t) \/ Close(t) \/ Back(t) \/ CancelChallenge(t)
        PROVE  Inv'
    BY <1>1, TabKeeps
  <1>2. ASSUME NEW t \in Tab,
               \/ SubmitLogin(t) \/ SubmitChallenge(t) \/ Fetch(t) \/ SignOut(t)
               \/ ChangePassword(t) \/ SubmitVerify(t) \/ SubmitDisable(t)
               \/ RevokeOtherSessions(t)
        PROVE  Inv'
    BY <1>2, RequestKeeps
  <1>3. ASSUME NEW c \in calls, Serve(c) \/ Receive(c)
        PROVE  Inv'
    BY <1>3, ServeKeeps, ReceiveKeeps
  <1>4. CASE EndSession \/ Lose
    BY <1>4, OutsideKeeps
  <1>5. CASE UNCHANGED vars
    BY <1>5 DEF vars, Inv, TypeOK, Issued
  <1>6. QED  BY <1>1, <1>2, <1>3, <1>4, <1>5 DEF Next

(* The invariant holds in every reachable state. *)
LEMMA AlwaysInv == Spec => []Inv
  BY InitInv, NextKeeps, PTL DEF Spec

(* Every token that a store or the React tree holds is one that the portal
   issued, however the tabs sign in, renew and sign out and however late their
   answers come. *)
THEOREM TypeCorrect == Spec => []TypeOK
  <1>1. Inv => TypeOK
    BY DEF Inv
  <1>2. QED  BY <1>1, AlwaysInv, PTL

-----------------------------------------------------------------------------
(* A browser with one tab                                                  *)
-----------------------------------------------------------------------------
(* persistToken leaves the token in one store, where getToken finds it. *)
LEMMA PersistStores ==
  ASSUME TypeOK, NEW t \in Tab, NEW k \in DOMAIN owner, NEW r \in BOOLEAN,
         persistToken(t, k, r)
  PROVE  /\ persistent' = NoToken \/ temporary'[t] = NoToken
         /\ Stored(t)' = k /\ k # NoToken
  <1>1. temporary \in [Tab -> DOMAIN owner \union {NoToken}] /\ k # NoToken
    BY Owners DEF TypeOK
  <1>2. CASE r
    BY <1>1, <1>2 DEF persistToken, Stored
  <1>3. CASE ~r
    BY <1>1, <1>3 DEF persistToken, Stored
  <1>4. QED  BY <1>2, <1>3

(* clearToken empties both stores. *)
LEMMA ClearStores ==
  ASSUME TypeOK, NEW t \in Tab, clearToken(t)
  PROVE  persistent' = NoToken
  BY DEF clearToken

(* What one tab does for itself keeps its stores apart and what it shows
   current: the only writers of the stores are a sign-in, a renewal, a
   refusal, a sign-out and the end of the tab. *)
LEMMA SoloStep ==
  ASSUME NEW t \in Tab, Tab = {t}, Inv, OneStore, ShownIsStored, [Next]_vars
  PROVE  OneStore' /\ ShownIsStored'
  <1>1. /\ temporary \in [Tab -> DOMAIN owner \union {NoToken}]
        /\ shown \in [Tab -> DOMAIN owner \union {NoToken}]
        /\ page \in [Tab -> {"login", "app", "leaving", "closed"}] /\ TypeOK
    BY DEF Inv, TypeOK
  <1>2. OneStore <=> persistent = NoToken \/ temporary[t] = NoToken
    BY DEF OneStore
  <1>3. OneStore' <=> persistent' = NoToken \/ temporary'[t] = NoToken
    BY DEF OneStore
  <1>4. ShownIsStored <=> (page[t] = "app" => shown[t] = Stored(t) /\ shown[t] # NoToken)
    BY DEF ShownIsStored
  <1>5. ShownIsStored' <=>
          (page'[t] = "app" => shown'[t] = Stored(t)' /\ shown'[t] # NoToken)
    BY DEF ShownIsStored
  <1>6. ASSUME UNCHANGED browser
        PROVE  OneStore' /\ ShownIsStored'
    BY <1>6 DEF browser, OneStore, ShownIsStored, Stored
  <1>7. ASSUME NEW to, Load(t, to)
        PROVE  OneStore' /\ ShownIsStored'
    <2>1. /\ UNCHANGED <<persistent, temporary>> /\ shown'[t] = Stored(t)
          /\ page'[t] = IF Stored(t) = NoToken THEN "login" ELSE to
      BY <1>1, <1>7 DEF Load
    <2>2. Stored(t)' = Stored(t)
      BY <2>1 DEF Stored
    <2>3. QED  BY <1>2, <1>3, <1>5, <2>1, <2>2
  <1>8. CASE Visit(t) \/ Leave(t)
    BY <1>7, <1>8 DEF Visit, Leave
  <1>9. CASE Close(t)
    BY <1>1, <1>3, <1>5, <1>9 DEF Close
  <1>10. CASE Back(t)
    BY <1>1, <1>2, <1>3, <1>5, <1>10 DEF Back
  <1>11. CASE CancelChallenge(t)
    BY <1>2, <1>3, <1>4, <1>5, <1>11 DEF CancelChallenge, Stored
  <1>12. CASE \/ SubmitLogin(t) \/ SubmitChallenge(t) \/ Fetch(t) \/ SignOut(t)
              \/ ChangePassword(t) \/ SubmitVerify(t) \/ SubmitDisable(t)
              \/ RevokeOtherSessions(t)
    <2>1. UNCHANGED browser
      BY <1>12 DEF SubmitLogin, SubmitChallenge, Fetch, SignOut, ChangePassword, SubmitVerify,
                   SubmitDisable, RevokeOtherSessions, Ask
    <2>2. QED  BY <1>6, <2>1
  <1>13. ASSUME NEW c \in calls, Serve(c) \/ EndSession \/ Lose
         PROVE  OneStore' /\ ShownIsStored'
    <2>1. UNCHANGED browser
      BY <1>13 DEF Serve, EndSession, Lose
    <2>2. QED  BY <1>6, <2>1
  <1>14. ASSUME NEW c \in calls, Receive(c)
         PROVE  OneStore' /\ ShownIsStored'
    <2>1. /\ c.tab = t /\ c.remember \in BOOLEAN
          /\ c.fresh \in DOMAIN owner \union {NoToken}
      BY DEF Inv, TypeOK, Issued, Call
    <2>2. CASE Thrown(c)
      <3>1. clearToken(t) /\ page'[t] = "leaving"
        BY <1>1, <2>1, <2>2 DEF Thrown
      <3>2. QED  BY <1>1, <1>3, <1>5, <3>1, ClearStores
    <2>3. CASE Ignored(c)
      BY <1>6, <2>3 DEF Ignored
    <2>4. CASE AskSecondFactor(c)
      BY <1>2, <1>3, <1>4, <1>5, <2>4 DEF AskSecondFactor, Stored
    <2>5. CASE SignedIn(c)
      <3>1. persistToken(t, c.fresh, c.remember) /\ c.fresh \in DOMAIN owner
        BY <2>1, <2>5 DEF SignedIn
      <3>2. shown'[t] = c.fresh
        BY <1>1, <2>1, <2>5 DEF SignedIn
      <3>3. QED  BY <1>1, <1>3, <1>5, <2>1, <3>1, <3>2, PersistStores
    <2>6. CASE Renewed(c)
      <3>1. persistToken(t, c.fresh, persistent # NoToken) /\ c.fresh \in DOMAIN owner
        BY <2>1, <2>6 DEF Renewed, refreshToken
      <3>2. shown'[t] = c.fresh /\ (persistent # NoToken) \in BOOLEAN
        BY <1>1, <2>1, <2>6 DEF Renewed
      <3>3. QED  BY <1>1, <1>3, <1>5, <3>1, <3>2, PersistStores
    <2>7. CASE SignedOut(c)
      <3>1. clearToken(t) /\ page'[t] \in {"leaving", "login"}
        BY <1>1, <2>1, <2>7 DEF SignedOut
      <3>2. QED  BY <1>1, <1>3, <1>5, <3>1, ClearStores
    <2>8. QED  BY <1>14, <2>2, <2>3, <2>4, <2>5, <2>6, <2>7 DEF Receive
  <1>15. CASE EndSession \/ Lose
    BY <1>6, <1>15 DEF EndSession, Lose
  <1>16. CASE UNCHANGED vars
    BY <1>6, <1>16 DEF vars, browser
  <1>17. QED
    BY <1>8, <1>9, <1>10, <1>11, <1>12, <1>13, <1>14, <1>15, <1>16 DEF Next

(* In a browser with one tab, the token never lies in both stores: where it
   is kept stays what was chosen at the sign-in, through every renewal. *)
THEOREM OneStoreCorrect ==
  ASSUME NEW t, Tab = {t}
  PROVE  Spec => []OneStore
  <1>1. Init => OneStore /\ ShownIsStored
    BY DEF Init, OneStore, ShownIsStored
  <1>2. Inv /\ OneStore /\ ShownIsStored /\ [Next]_vars => (OneStore /\ ShownIsStored)'
    BY SoloStep
  <1>3. QED  BY <1>1, <1>2, AlwaysInv, PTL DEF Spec

(* In a browser with one tab, a page of the portal shows the account that the
   next call will be made as, and never without a token: no order of late
   answers, refusals, renewals and sign-outs tells them apart. *)
THEOREM ShownCorrect ==
  ASSUME NEW t, Tab = {t}
  PROVE  Spec => []ShownIsStored
  <1>1. Init => OneStore /\ ShownIsStored
    BY DEF Init, OneStore, ShownIsStored
  <1>2. Inv /\ OneStore /\ ShownIsStored /\ [Next]_vars => (OneStore /\ ShownIsStored)'
    BY SoloStep
  <1>3. QED  BY <1>1, <1>2, AlwaysInv, PTL DEF Spec
=============================================================================
