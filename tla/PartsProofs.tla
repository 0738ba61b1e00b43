---------------------------- MODULE PartsProofs -----------------------------
(***************************************************************************)
(* The parts that share no state with the rest, each for every value of    *)
(* its constants: what MCParts checks of them side by side.                *)
(***************************************************************************)
EXTENDS MCParts, FiniteSetTheorems, SequenceTheorems, TLAPS

-----------------------------------------------------------------------------
(* Sessions                                                                *)

CallerState == [pc : {"idle", "issue", "store", "sign", "end", "write", "spend", "close"},
                link : ResetLinks \cup {"none"}, token : 0..MaxSeconds]

Storing(x) == x.pc = "store"

\* A sign-in about to store a token that is out already, or that another one
\* is about to store, has signed a twin.
TokensHeld ==
    /\ caller \in [Callers -> CallerState]
    /\ \A h \in Callers : Storing(caller[h]) =>
           caller[h].token \in signed /\ (caller[h].token \in out => caller[h].token \in twins)
    /\ \A g, h \in Callers :
           Storing(caller[g]) /\ Storing(caller[h]) /\ g # h /\ caller[g].token = caller[h].token
               => caller[g].token \in twins

SessionInv == SessionTypeOK /\ TokensHeld /\ EndedStaysEnded

NoCallerHere == NoCaller \in CallerState /\ ~Storing(NoCaller)

LEMMA CallerRests == NoCallerHere
  <1>1. 0 \in 0..MaxSeconds
    BY SessionAssumption
  <1> QED BY <1>1 DEF NoCallerHere, NoCaller, CallerState, Storing

\* A handler moves on, not to store a token.
LEMMA CallerMoves ==
    ASSUME SessionInv, UNCHANGED tokenVars, NEW h \in Callers, NEW x \in CallerState, ~Storing(x),
           caller' = [caller EXCEPT ![h] = x]
    PROVE  TokensHeld'
  <1>1. caller \in [Callers -> CallerState] /\ UNCHANGED <<signed, twins, out>>
    BY DEF SessionInv, TokensHeld, tokenVars
  <1>2. \A g \in Callers : caller'[g] = IF g = h THEN x ELSE caller[g]
    BY <1>1
  <1>3. caller' \in [Callers -> CallerState]
    BY <1>1
  <1> QED BY <1>1, <1>2, <1>3 DEF SessionInv, TokensHeld

\* The three ways a handler moves on without a token.
LEMMA CallerSteps ==
    ASSUME SessionInv, UNCHANGED tokenVars, NEW h \in Callers,
           \/ \E pc \in {"issue", "sign", "end", "write", "spend", "close"} : CallerGoto(h, pc)
           \/ Answered(h)
           \/ \E l \in ResetLinks : caller' = [caller EXCEPT ![h] = [NoCaller EXCEPT !.pc = "write", !.link = l]]
    PROVE  TokensHeld'
  <1>1. caller[h] \in CallerState /\ NoCaller \in CallerState /\ ~Storing(NoCaller)
    BY CallerRests DEF SessionInv, TokensHeld, NoCallerHere
  <1>2. ASSUME NEW pc \in {"issue", "sign", "end", "write", "spend", "close"}, CallerGoto(h, pc)
        PROVE  TokensHeld'
    <2>1. PICK x : x = [caller[h] EXCEPT !.pc = pc]
      OBVIOUS
    <2>2. x \in CallerState /\ ~Storing(x)
      BY <1>1, <2>1 DEF CallerState, Storing
    <2>3. caller' = [caller EXCEPT ![h] = x]
      BY <1>2, <2>1 DEF CallerGoto
    <2> QED BY <2>2, <2>3, CallerMoves
  <1>3. CASE Answered(h)
    <2>1. caller' = [caller EXCEPT ![h] = NoCaller]
      BY <1>3 DEF Answered
    <2> QED BY <1>1, <2>1, CallerMoves
  <1>4. ASSUME NEW l \in ResetLinks,
               caller' = [caller EXCEPT ![h] = [NoCaller EXCEPT !.pc = "write", !.link = l]]
        PROVE  TokensHeld'
    <2>1. PICK x : x = [NoCaller EXCEPT !.pc = "write", !.link = l]
      OBVIOUS
    <2>2. x \in CallerState /\ ~Storing(x)
      BY <1>1, <2>1 DEF CallerState, Storing
    <2>3. caller' = [caller EXCEPT ![h] = x]
      BY <1>4, <2>1
    <2> QED BY <2>2, <2>3, CallerMoves
  <1> QED BY <1>2, <1>3, <1>4

\* Nothing that has to do with tokens changes.
LEMMA TokensRest ==
    ASSUME SessionInv, UNCHANGED <<caller, tokenVars>>
    PROVE  TokensHeld'
  BY DEF SessionInv, TokensHeld, tokenVars

LEMMA IssueTokensStep ==
    ASSUME SessionInv, NEW h \in Callers, IssueTokens(h)
    PROVE  SessionInv'
  <1>1. PICK x : x = [caller[h] EXCEPT !.pc = "store", !.token = second]
    OBVIOUS
  <1>2. /\ caller \in [Callers -> CallerState] /\ caller[h] \in CallerState
        /\ second \in 1..MaxSeconds /\ out \subseteq signed
    BY DEF SessionInv, SessionTypeOK, TokensHeld
  <1>3. x \in CallerState /\ Storing(x) /\ x.token = second
    <2>1. second \in 0..MaxSeconds
      BY <1>2, SessionAssumption
    <2> QED BY <1>1, <1>2, <2>1 DEF CallerState, Storing
  <1>4. /\ caller' = [caller EXCEPT ![h] = x]
        /\ signed' = signed \cup {second} /\ twins' = twins \cup (signed \cap {second})
        /\ UNCHANGED <<standing, password, refreshKey, second, out, ended, access, resetLink, callersLost>>
    BY <1>1 DEF IssueTokens
  <1>5. \A g \in Callers : caller'[g] = IF g = h THEN x ELSE caller[g]
    BY <1>2, <1>4
  <1>6. TokensHeld'
    <2>1. caller' \in [Callers -> CallerState]
      BY <1>2, <1>3, <1>4
    <2>2. ASSUME NEW g \in Callers, Storing(caller'[g])
          PROVE  caller'[g].token \in signed' /\ (caller'[g].token \in out' => caller'[g].token \in twins')
      <3>1. CASE g = h
        BY <1>2, <1>3, <1>4, <1>5, <3>1
      <3>2. CASE g # h
        BY <1>4, <1>5, <2>2, <3>2 DEF SessionInv, TokensHeld
      <3> QED BY <3>1, <3>2
    <2>3. ASSUME NEW g \in Callers, NEW k \in Callers, Storing(caller'[g]), Storing(caller'[k]), g # k,
                 caller'[g].token = caller'[k].token
          PROVE  caller'[g].token \in twins'
      <3>1. CASE g = h
        <4>1. caller'[k] = caller[k] /\ Storing(caller[k]) /\ caller[k].token = second
          BY <1>3, <1>5, <2>3, <3>1
        <4>2. caller[k].token \in signed
          BY <4>1 DEF SessionInv, TokensHeld
        <4> QED BY <1>4, <2>3, <4>1, <4>2
      <3>2. CASE k = h
        <4>1. caller'[g] = caller[g] /\ Storing(caller[g]) /\ caller[g].token = second
          BY <1>3, <1>5, <2>3, <3>2
        <4>2. caller[g].token \in signed
          BY <4>1 DEF SessionInv, TokensHeld
        <4> QED BY <1>4, <4>1, <4>2
      <3>3. CASE g # h /\ k # h
        BY <1>4, <1>5, <2>3, <3>3 DEF SessionInv, TokensHeld
      <3> QED BY <3>1, <3>2, <3>3
    <2> QED BY <2>1, <2>2, <2>3 DEF TokensHeld
  <1>7. SessionTypeOK' /\ EndedStaysEnded'
    <2>1. second \in 1..second
      BY <1>2, SessionAssumption
    <2> QED BY <1>4, <2>1 DEF SessionInv, SessionTypeOK, EndedStaysEnded
  <1> QED BY <1>6, <1>7 DEF SessionInv

LEMMA StoreRefreshTokenStep ==
    ASSUME SessionInv, NEW h \in Callers, StoreRefreshToken(h)
    PROVE  SessionInv'
  <1>1. /\ caller \in [Callers -> CallerState] /\ Storing(caller[h])
        /\ caller[h].token \in signed /\ (caller[h].token \in out => caller[h].token \in twins)
    BY DEF SessionInv, TokensHeld, StoreRefreshToken, CallerAt, Storing
  <1>2. /\ caller' = [caller EXCEPT ![h] = NoCaller]
        /\ refreshKey' = caller[h].token /\ out' = out \cup {caller[h].token} /\ access' = TRUE
        /\ UNCHANGED <<standing, password, second, signed, twins, ended, resetLink, callersLost>>
    BY DEF StoreRefreshToken, Answered
  <1>3. NoCaller \in CallerState /\ ~Storing(NoCaller)
    BY CallerRests DEF NoCallerHere
  <1>4. \A g \in Callers : caller'[g] = IF g = h THEN NoCaller ELSE caller[g]
    BY <1>1, <1>2
  <1>5. TokensHeld'
    <2>1. caller' \in [Callers -> CallerState]
      BY <1>1, <1>2, <1>3
    <2>2. ASSUME NEW g \in Callers, Storing(caller'[g])
          PROVE  /\ g # h /\ caller'[g] = caller[g] /\ caller[g].token \in signed
                 /\ caller[g].token \in out' => caller[g].token \in twins
      <3>1. g # h /\ caller'[g] = caller[g] /\ Storing(caller[g])
        BY <1>3, <1>4, <2>2
      <3>2. caller[g].token \in signed /\ (caller[g].token \in out => caller[g].token \in twins)
        BY <3>1 DEF SessionInv, TokensHeld
      <3>3. caller[g].token = caller[h].token => caller[g].token \in twins
        BY <1>1, <3>1 DEF SessionInv, TokensHeld
      <3> QED BY <1>2, <3>1, <3>2, <3>3
    <2>3. ASSUME NEW g \in Callers, NEW k \in Callers, Storing(caller'[g]), Storing(caller'[k]), g # k,
                 caller'[g].token = caller'[k].token
          PROVE  caller'[g].token \in twins'
      <3>1. caller'[g] = caller[g] /\ caller'[k] = caller[k]
        BY <2>2, <2>3
      <3> QED BY <1>2, <2>3, <3>1 DEF SessionInv, TokensHeld
    <2> QED BY <1>2, <2>1, <2>2, <2>3 DEF TokensHeld
  <1>6. SessionTypeOK'
    BY <1>1, <1>2 DEF SessionInv, SessionTypeOK
  <1>7. EndedStaysEnded'
    <2>1. ended \subseteq out
      BY DEF SessionInv, SessionTypeOK
    <2> QED BY <1>1, <1>2, <2>1 DEF EndedStaysEnded
  <1> QED BY <1>5, <1>6, <1>7 DEF SessionInv

\* Types and ended tokens, when only other things change.
LEMMA OtherSessionParts ==
    ASSUME SessionInv, TokensHeld', UNCHANGED tokenVars, refreshKey' \in {refreshKey, 0}, access' \in BOOLEAN,
           standing' \in [status : {"active", "suspended", "banned"}, deleted : BOOLEAN],
           password' \in 1..MaxPasswords, resetLink' \in [ResetLinks -> {"unsent", "live", "spent"}],
           callersLost' \in 0..SessionDeaths
    PROVE  SessionInv'
  <1>1. UNCHANGED <<second, signed, twins, out, ended>>
    BY DEF tokenVars
  <1>2. 0 \notin ended
    <2>1. ended \subseteq 1..second /\ second \in 1..MaxSeconds
      BY DEF SessionInv, SessionTypeOK
    <2> QED BY <2>1, SessionAssumption
  <1>3. SessionTypeOK'
    BY <1>1 DEF SessionInv, SessionTypeOK
  <1>4. EndedStaysEnded'
    BY <1>1, <1>2 DEF SessionInv, EndedStaysEnded
  <1> QED BY <1>3, <1>4 DEF SessionInv

LEMMA DeleteRefreshTokenStep ==
    ASSUME SessionInv, NEW h \in Callers, DeleteRefreshToken(h)
    PROVE  SessionInv'
  <1>1. /\ Answered(h) /\ refreshKey' = 0 /\ ended' = ended \cup out
        /\ UNCHANGED <<standing, password, second, signed, twins, out, access, resetLink, callersLost>>
    BY DEF DeleteRefreshToken
  <1>2. NoCaller \in CallerState /\ ~Storing(NoCaller) /\ caller \in [Callers -> CallerState]
    BY CallerRests DEF NoCallerHere, SessionInv, TokensHeld
  <1>3. \A g \in Callers : caller'[g] = IF g = h THEN NoCaller ELSE caller[g]
    BY <1>1, <1>2 DEF Answered
  <1>4. caller' \in [Callers -> CallerState]
    BY <1>1, <1>2 DEF Answered
  <1>5. TokensHeld'
    BY <1>1, <1>2, <1>3, <1>4 DEF SessionInv, TokensHeld
  <1>6. SessionTypeOK'
    BY <1>1 DEF SessionInv, SessionTypeOK
  <1>7. EndedStaysEnded'
    <2>1. out \subseteq 1..second /\ ended \subseteq 1..second /\ second \in 1..MaxSeconds
      BY DEF SessionInv, SessionTypeOK
    <2>2. 0 \notin ended \cup out
      BY <2>1, SessionAssumption
    <2> QED BY <1>1, <2>2 DEF EndedStaysEnded
  <1> QED BY <1>5, <1>6, <1>7 DEF SessionInv

LEMMA SessionsInductive == SessionInv /\ [SessionNext]_sessionVars => SessionInv'
  <1> SUFFICES ASSUME SessionInv, [SessionNext]_sessionVars
               PROVE  SessionInv'
    OBVIOUS
  <1>1. /\ standing \in [status : {"active", "suspended", "banned"}, deleted : BOOLEAN] /\ access \in BOOLEAN
        /\ password \in 1..MaxPasswords /\ resetLink \in [ResetLinks -> {"unsent", "live", "spent"}]
        /\ callersLost \in 0..SessionDeaths
    BY DEF SessionInv, SessionTypeOK
  <1>2. ASSUME NEW h \in Callers,
               \/ Login(h) \/ LoginOAuthUser(h) \/ Refresh(h) \/ Logout(h) \/ ChangePassword(h)
               \/ DeleteOwnAccount(h)
        PROVE  SessionInv'
    <2>1. /\ \E pc \in {"issue", "sign", "end", "write", "spend", "close"} : CallerGoto(h, pc)
          /\ UNCHANGED <<standing, password, refreshKey, tokenVars, access, resetLink, callersLost>>
      BY <1>2 DEF Login, LoginOAuthUser, Refresh, Logout, ChangePassword, DeleteOwnAccount, Begin
    <2>2. TokensHeld'
      BY <2>1, CallerSteps
    <2> QED BY <1>1, <2>1, <2>2, OtherSessionParts
  <1>3. ASSUME NEW h \in Callers, NEW l \in ResetLinks, ResetPassword(h, l) PROVE SessionInv'
    <2>1. /\ caller' = [caller EXCEPT ![h] = [NoCaller EXCEPT !.pc = "write", !.link = l]]
          /\ UNCHANGED <<standing, password, refreshKey, tokenVars, access, resetLink, callersLost>>
      BY <1>3 DEF ResetPassword
    <2>2. TokensHeld'
      BY <2>1, CallerSteps
    <2> QED BY <1>1, <2>1, <2>2, OtherSessionParts
  <1>4. ASSUME NEW h \in Callers, SignAccessToken(h) PROVE SessionInv'
    <2>1. /\ Answered(h) /\ access' = TRUE
          /\ UNCHANGED <<standing, password, refreshKey, tokenVars, resetLink, callersLost>>
      BY <1>4 DEF SignAccessToken
    <2>2. TokensHeld'
      BY <2>1, CallerSteps
    <2> QED BY <1>1, <2>1, <2>2, OtherSessionParts
  <1>5. ASSUME NEW h \in Callers, UpdatePassword(h) PROVE SessionInv'
    <2>1. /\ CallerGoto(h, "spend") \/ Answered(h)
          /\ password' = password + 1 /\ password < MaxPasswords
          /\ UNCHANGED <<standing, refreshKey, tokenVars, access, resetLink, callersLost>>
      BY <1>5 DEF UpdatePassword
    <2>2. TokensHeld'
      BY <2>1, CallerSteps
    <2>3. password' \in 1..MaxPasswords
      BY <1>1, <2>1, SessionAssumption
    <2> QED BY <1>1, <2>1, <2>2, <2>3, OtherSessionParts
  <1>6. ASSUME NEW h \in Callers, SpendResetLink(h) PROVE SessionInv'
    <2>1. /\ CallerGoto(h, "end") /\ resetLink' = [resetLink EXCEPT ![caller[h].link] = "spent"]
          /\ UNCHANGED <<standing, password, refreshKey, tokenVars, access, callersLost>>
      BY <1>6 DEF SpendResetLink
    <2>2. TokensHeld'
      BY <2>1, CallerSteps
    <2>3. resetLink' \in [ResetLinks -> {"unsent", "live", "spent"}]
      BY <1>1, <2>1
    <2> QED BY <1>1, <2>1, <2>2, <2>3, OtherSessionParts
  <1>7. ASSUME NEW h \in Callers, CloseAccount(h) PROVE SessionInv'
    <2>1. /\ CallerGoto(h, "end") /\ standing' = [status |-> "banned", deleted |-> TRUE]
          /\ UNCHANGED <<password, refreshKey, tokenVars, access, resetLink, callersLost>>
      BY <1>7 DEF CloseAccount
    <2>2. TokensHeld'
      BY <2>1, CallerSteps
    <2> QED BY <1>1, <2>1, <2>2, OtherSessionParts
  <1>8. ASSUME NEW h \in Callers, CallerDies(h) PROVE SessionInv'
    <2>1. /\ Answered(h) /\ callersLost' = callersLost + 1 /\ callersLost < SessionDeaths
          /\ UNCHANGED <<standing, password, refreshKey, tokenVars, access, resetLink>>
      BY <1>8 DEF CallerDies
    <2>2. TokensHeld'
      BY <2>1, CallerSteps
    <2>3. callersLost' \in 0..SessionDeaths
      BY <1>1, <2>1, SessionAssumption
    <2> QED BY <1>1, <2>1, <2>2, <2>3, OtherSessionParts
  <1>9. CASE UNCHANGED <<caller, tokenVars>> /\ refreshKey' \in {refreshKey, 0} /\ access' \in BOOLEAN
             /\ standing' \in [status : {"active", "suspended", "banned"}, deleted : BOOLEAN]
             /\ password' \in 1..MaxPasswords /\ resetLink' \in [ResetLinks -> {"unsent", "live", "spent"}]
             /\ callersLost' = callersLost
    <2>1. TokensHeld'
      BY <1>9, TokensRest
    <2> QED BY <1>1, <1>9, <2>1, OtherSessionParts
  <1>10. ASSUME NEW l \in ResetLinks, ForgotPassword(l) \/ ResetLinkExpires(l) PROVE SessionInv'
    BY <1>1, <1>9, <1>10 DEF ForgotPassword, ResetLinkExpires
  <1>11. CASE ResetUserPassword
    <2>1. password' \in 1..MaxPasswords
      BY <1>1, <1>11, SessionAssumption DEF ResetUserPassword
    <2> QED BY <1>1, <1>9, <1>11, <2>1 DEF ResetUserPassword
  <1>12. CASE AccessExpires \/ RefreshExpires \/ UNCHANGED sessionVars
    BY <1>1, <1>9, <1>12 DEF AccessExpires, RefreshExpires, sessionVars
  <1>13. ASSUME NEW s \in {"active", "suspended", "banned"}, SetStanding(s) PROVE SessionInv'
    BY <1>1, <1>9, <1>13 DEF SetStanding
  <1>14. CASE SecondPasses
    <2>1. /\ second' = second + 1 /\ second < MaxSeconds /\ second \in 1..MaxSeconds
          /\ UNCHANGED <<standing, password, refreshKey, signed, twins, out, ended, access, resetLink, caller,
                         callersLost>>
      BY <1>14 DEF SecondPasses, SessionInv, SessionTypeOK
    <2>2. second' \in 1..MaxSeconds /\ 1..second \subseteq 1..second'
      BY <2>1, SessionAssumption
    <2>3. SessionTypeOK'
      BY <2>1, <2>2 DEF SessionInv, SessionTypeOK
    <2>4. TokensHeld' /\ EndedStaysEnded'
      BY <2>1 DEF SessionInv, TokensHeld, EndedStaysEnded
    <2> QED BY <2>3, <2>4 DEF SessionInv
  <1> QED BY <1>2, <1>3, <1>4, <1>5, <1>6, <1>7, <1>8, <1>10, <1>11, <1>12, <1>13, <1>14, IssueTokensStep,
             StoreRefreshTokenStep, DeleteRefreshTokenStep DEF SessionNext

\* A refresh token that was out when a logout, a reset or a deletion of the
\* account succeeded (deleteRefreshToken) is never honoured again, whichever
\* sign-ins were half-way and whoever died, unless two sign-ins signed it in
\* one second (issueTokens).
THEOREM EndedSessionsStayEnded == SessionSpec => [](SessionTypeOK /\ EndedStaysEnded)
  <1>1. SessionInit => SessionInv
    <2> SUFFICES ASSUME SessionInit PROVE SessionInv
      OBVIOUS
    <2>1. password \in 1..MaxPasswords /\ second \in 1..MaxSeconds /\ callersLost \in 0..SessionDeaths
      BY SessionAssumption DEF SessionInit
    <2>2. /\ standing \in [status : {"active", "suspended", "banned"}, deleted : BOOLEAN]
          /\ access \in BOOLEAN /\ resetLink \in [ResetLinks -> {"unsent", "live", "spent"}]
      BY DEF SessionInit
    <2>3. SessionTypeOK /\ EndedStaysEnded
      BY <2>1, <2>2 DEF SessionInit, SessionTypeOK, EndedStaysEnded
    <2>4. TokensHeld
      BY CallerRests DEF SessionInit, TokensHeld, NoCallerHere
    <2> QED BY <2>3, <2>4 DEF SessionInv
  <1>2. SessionInv => SessionTypeOK /\ EndedStaysEnded
    BY DEF SessionInv
  <1> QED BY <1>1, <1>2, SessionsInductive, PTL DEF SessionSpec

-----------------------------------------------------------------------------
(* Catalog                                                                 *)

Calls == {"none", "create", "update", "delete", "createGroup", "deleteGroup"}

EditState == [pc : {"idle", "write"}, call : Calls,
              id : Categories \cup Groups \cup {NoCategory}, row : Rows \cup {NoCategory}]
PickState == [pc : {"idle", "delete", "insert", "commit"}, want : SUBSET Categories,
              seen : SUBSET Categories, gone : SUBSET Categories, patch : BOOLEAN]

\* What an administrator's handler is about.
Aims(x) ==
    /\ x \in EditState
    /\ x.call \in {"create", "update"} => x.id \in Categories /\ x.row \in Rows
    /\ x.call = "delete" => x.id \in Categories
    /\ x.call \in {"createGroup", "deleteGroup"} => x.id \in Groups

EditorsAim == editor \in [Editors -> EditState] /\ \A e \in Editors : Aims(editor[e])

CatalogTypes ==
    /\ group \subseteq Groups
    /\ category \in [Categories -> Rows \cup {NoCategory}]
    /\ picks \subseteq Categories
    /\ EditorsAim
    /\ picker \in [Pickers -> PickState]

CatalogInv == CatalogTypes /\ PickerIsComplete

LEMMA EditorMoves ==
    ASSUME CatalogTypes, NEW e \in Editors, NEW x, Aims(x), editor' = [editor EXCEPT ![e] = x]
    PROVE  EditorsAim'
  <1>1. \A f \in Editors : editor'[f] = IF f = e THEN x ELSE editor[f]
    BY DEF CatalogTypes, EditorsAim
  <1>2. editor' \in [Editors -> EditState]
    BY DEF CatalogTypes, EditorsAim, Aims
  <1> QED BY <1>1, <1>2 DEF CatalogTypes, EditorsAim, Aims

\* A handler that only looks, or ends.
LEMMA EditorLooks ==
    ASSUME CatalogInv, UNCHANGED <<group, category, picks, picker>>, EditorsAim'
    PROVE  CatalogInv'
  BY DEF CatalogInv, CatalogTypes, PickerIsComplete, Listed, Clashes

LEMMA NoEditAims == Aims(NoEdit)
  BY DEF NoEdit, Aims, EditState, Calls

LEMMA LooksStep ==
    ASSUME CatalogInv, NEW e \in Editors,
           LookForCreate(e) \/ LookForUpdate(e) \/ LookForDelete(e) \/ LookForGroup(e)
    PROVE  CatalogInv'
  <1>1. \E x : editor' = [editor EXCEPT ![e] = x] /\ Aims(x)
    <2>1. ASSUME NEW call \in {"create", "update"}, NEW c \in Categories, NEW row \in Rows,
                 editor' = [editor EXCEPT ![e] = [pc |-> "write", call |-> call, id |-> c, row |-> row]]
          PROVE  \E x : editor' = [editor EXCEPT ![e] = x] /\ Aims(x)
      <3>1. Aims([pc |-> "write", call |-> call, id |-> c, row |-> row])
        BY DEF Aims, EditState, Calls
      <3> QED BY <2>1, <3>1
    <2>2. CASE LookForCreate(e)
      BY <2>1, <2>2 DEF LookForCreate
    <2>3. CASE LookForUpdate(e)
      BY <2>1, <2>3 DEF LookForUpdate, Listed
    <2>4. CASE LookForDelete(e)
      <3>1. PICK c \in Listed : editor' = [editor EXCEPT
                ![e] = [pc |-> "write", call |-> "delete", id |-> c, row |-> NoCategory]]
        BY <2>4 DEF LookForDelete
      <3>2. Aims([pc |-> "write", call |-> "delete", id |-> c, row |-> NoCategory])
        BY DEF Aims, EditState, Calls, Listed
      <3> QED BY <3>1, <3>2
    <2>5. CASE LookForGroup(e)
      <3>1. PICK g \in Groups, call \in {"createGroup", "deleteGroup"} : editor' = [editor EXCEPT
                ![e] = [pc |-> "write", call |-> call, id |-> g, row |-> NoCategory]]
        BY <2>5 DEF LookForGroup, CatalogInv, CatalogTypes
      <3>2. Aims([pc |-> "write", call |-> call, id |-> g, row |-> NoCategory])
        BY DEF Aims, EditState, Calls
      <3> QED BY <3>1, <3>2
    <2> QED BY <2>2, <2>3, <2>4, <2>5
  <1>2. UNCHANGED <<group, category, picks, picker>>
    BY DEF LookForCreate, LookForUpdate, LookForDelete, LookForGroup
  <1> QED BY <1>1, <1>2, EditorMoves, EditorLooks DEF CatalogInv

\* A row that clashes with none is written: it clashes with none afterwards,
\* and none clashes with it.
LEMMA WriteCategoryStep ==
    ASSUME CatalogInv, NEW e \in Editors, WriteCategory(e)
    PROVE  CatalogInv'
  <1>1. PICK id, row : id = editor[e].id /\ row = editor[e].row
    OBVIOUS
  <1>2. id \in Categories /\ row \in Rows
    BY <1>1 DEF WriteCategory, CatalogInv, CatalogTypes, EditorsAim, Aims
  <1>3. editor' = [editor EXCEPT ![e] = NoEdit] /\ UNCHANGED <<group, picks, picker>>
    BY DEF WriteCategory, EditorDone
  <1>4. EditorsAim'
    BY <1>3, NoEditAims, EditorMoves DEF CatalogInv
  <1>5. CASE category' = category
    BY <1>3, <1>4, <1>5, EditorLooks
  <1>6. CASE category' = [category EXCEPT ![id] = row] /\ ~Clashes(id, row) /\ row.group \in group
    <2>1. \A c \in Categories : category'[c] = IF c = id THEN row ELSE category[c]
      BY <1>2, <1>6 DEF CatalogInv, CatalogTypes
    <2>2. CatalogTypes'
      BY <1>2, <1>3, <1>4, <1>6 DEF CatalogInv, CatalogTypes
    <2>3. \A c \in Listed \ {id} : category[c].name # row.name /\ Slugify[category[c].name] # Slugify[row.name]
      BY <1>6 DEF Clashes
    <2>4. \A c, d \in Listed : c # d => /\ category[c].name # category[d].name
                                        /\ Slugify[category[c].name] # Slugify[category[d].name]
      BY DEF CatalogInv, PickerIsComplete, Clashes
    <2>5. \A c \in Categories : category'[c] # NoCategory =>
              /\ c = id \/ c \in Listed
              /\ category'[c].group \in group
      BY <1>6, <2>1 DEF Listed, CatalogInv, PickerIsComplete
    <2>6. ASSUME NEW c \in Categories, NEW d \in Categories, c # d,
                 category'[c] # NoCategory, category'[d] # NoCategory
          PROVE  category'[c].name # category'[d].name /\ Slugify[category'[c].name] # Slugify[category'[d].name]
      BY <2>1, <2>3, <2>4, <2>5, <2>6
    <2>7. PickerIsComplete'
      BY <1>3, <2>5, <2>6 DEF PickerIsComplete, Listed, Clashes
    <2> QED BY <2>2, <2>7 DEF CatalogInv
  <1> QED BY <1>1, <1>5, <1>6 DEF WriteCategory

LEMMA DeleteCategoryStep ==
    ASSUME CatalogInv, NEW e \in Editors, DeleteCategory(e)
    PROVE  CatalogInv'
  <1>1. PICK id : id = editor[e].id
    OBVIOUS
  <1>2. /\ category' = [category EXCEPT ![id] = NoCategory] /\ picks' = picks \ {id}
        /\ editor' = [editor EXCEPT ![e] = NoEdit] /\ UNCHANGED <<group, picker>>
    BY <1>1 DEF DeleteCategory, EditorDone
  <1>3. EditorsAim'
    BY <1>2, NoEditAims, EditorMoves DEF CatalogInv
  <1>4. CatalogTypes'
    BY <1>2, <1>3 DEF CatalogInv, CatalogTypes
  <1>5. \A c \in Categories : category'[c] # NoCategory => c \in Listed /\ category'[c] = category[c]
    BY <1>2 DEF CatalogInv, CatalogTypes, Listed
  <1>6. PickerIsComplete'
    BY <1>2, <1>5 DEF CatalogInv, PickerIsComplete, Listed, Clashes
  <1> QED BY <1>4, <1>6 DEF CatalogInv

LEMMA WriteGroupStep ==
    ASSUME CatalogInv, NEW e \in Editors, WriteGroup(e)
    PROVE  CatalogInv'
  <1>1. PICK g : g = editor[e].id
    OBVIOUS
  <1>2. editor' = [editor EXCEPT ![e] = NoEdit] /\ UNCHANGED <<category, picks, picker>>
    BY DEF WriteGroup, EditorDone
  <1>3. EditorsAim'
    BY <1>2, NoEditAims, EditorMoves DEF CatalogInv
  <1>4. g \in Groups
    BY <1>1 DEF WriteGroup, CatalogInv, CatalogTypes, EditorsAim, Aims
  <1>5. group' = group \cup {g} \/ group' = group \/ (group' = group \ {g} /\ MayDrop(g))
    BY <1>1 DEF WriteGroup
  <1>6. \A c \in Listed : category[c].group \in group'
    BY <1>5 DEF MayDrop, CatalogInv, PickerIsComplete
  <1>7. CatalogTypes'
    BY <1>2, <1>3, <1>4, <1>5 DEF CatalogInv, CatalogTypes
  <1>8. PickerIsComplete'
    BY <1>2, <1>6 DEF CatalogInv, PickerIsComplete, Listed, Clashes
  <1> QED BY <1>7, <1>8 DEF CatalogInv

\* Picks hold back a delete; the picker of categories does not look at them.
LEMMA PickerStep ==
    ASSUME CatalogInv, NEW p \in Pickers,
           BeginPick(p) \/ DeletePicks(p) \/ InsertPicks(p) \/ CommitPicks(p) \/ RollBackPicks(p)
    PROVE  CatalogInv'
  <1>1. UNCHANGED <<group, category, editor>>
    BY DEF BeginPick, DeletePicks, InsertPicks, CommitPicks, RollBackPicks
  <1>2. picker \in [Pickers -> PickState] /\ picks \subseteq Categories
    BY DEF CatalogInv, CatalogTypes
  <1>3. picker' \in [Pickers -> PickState] /\ picks' \subseteq Categories
    <2>1. CASE BeginPick(p)
      BY <1>2, <2>1 DEF BeginPick, Listed, PickState
    <2>2. CASE DeletePicks(p)
      <3>1. PICK x : x = [picker[p] EXCEPT !.pc = "insert", !.gone = picker[p].seen \cap picks]
        OBVIOUS
      <3>2. picker[p] \in PickState
        BY <1>2
      <3>3. x \in PickState
        BY <3>1, <3>2 DEF PickState
      <3>4. picker' = [picker EXCEPT ![p] = x] /\ picks' = picks
        BY <1>2, <2>2, <3>1 DEF DeletePicks
      <3> QED BY <1>2, <3>3, <3>4
    <2>3. CASE InsertPicks(p)
      BY <1>2, <2>3 DEF InsertPicks, PickState
    <2>4. CASE CommitPicks(p)
      BY <1>2, <2>4 DEF CommitPicks, Seen, NoPick, PickState
    <2>5. CASE RollBackPicks(p)
      BY <1>2, <2>5 DEF RollBackPicks, NoPick, PickState
    <2> QED BY <2>1, <2>2, <2>3, <2>4, <2>5
  <1>4. CatalogTypes'
    BY <1>1, <1>3 DEF CatalogInv, CatalogTypes, EditorsAim
  <1>5. PickerIsComplete'
    BY <1>1 DEF CatalogInv, PickerIsComplete, Listed, Clashes
  <1> QED BY <1>4, <1>5 DEF CatalogInv

LEMMA CatalogInductive == CatalogInv /\ [CatalogNext]_catalogVars => CatalogInv'
  <1> SUFFICES ASSUME CatalogInv, [CatalogNext]_catalogVars
               PROVE  CatalogInv'
    OBVIOUS
  <1>1. CASE UNCHANGED catalogVars
    BY <1>1, EditorLooks DEF catalogVars, CatalogInv, CatalogTypes, EditorsAim
  <1> QED BY <1>1, LooksStep, WriteCategoryStep, DeleteCategoryStep, WriteGroupStep, PickerStep DEF CatalogNext

\* getCategories leaves no category out of its groups, and no two have one
\* name or slug, however many administrators look, write and delete at once:
\* the indexes and the foreign key see to it, not the checks before them.
THEOREM NoCategoryIsLost == CatalogSpec => [](CatalogTypeOK /\ PickerIsComplete)
  <1>1. CatalogInit => CatalogInv
    <2> SUFFICES ASSUME CatalogInit PROVE CatalogInv
      OBVIOUS
    <2>1. CatalogTypes
      <3>1. EditorsAim
        BY NoEditAims DEF CatalogInit, EditorsAim, Aims
      <3>2. picker \in [Pickers -> PickState]
        BY DEF CatalogInit, PickState, NoPick
      <3> QED BY <3>1, <3>2 DEF CatalogInit, CatalogTypes
    <2>2. Listed = {}
      BY DEF CatalogInit, Listed
    <2> QED BY <2>1, <2>2 DEF CatalogInv, PickerIsComplete
  <1>2. CatalogInv => CatalogTypeOK /\ PickerIsComplete
    BY DEF CatalogInv, CatalogTypes, EditorsAim, Aims, EditState, PickState, CatalogTypeOK
  <1> QED BY <1>1, <1>2, CatalogInductive, PTL DEF CatalogSpec

-----------------------------------------------------------------------------
(* Directory                                                               *)

\* A finite set of numbers has a least and a largest element: what the snaps
\* to a band's boundary choose is there.
LEMMA Peak ==
    ASSUME NEW S \in SUBSET Nat, IsFiniteSet(S), S # {}
    PROVE  \E m \in S : \A n \in S : n <= m
  <1>1. PICK bad : bad = {T \in FiniteSubsetsOf(S) : T # {} /\ \A m \in T : \E n \in T : n > m}
    OBVIOUS
  <1>2. bad \subseteq FiniteSubsetsOf(S)
    BY <1>1
  <1>3. bad = {}
    <2> SUFFICES ASSUME bad # {} PROVE FALSE
      OBVIOUS
    <2>1. PICK T \in bad : \A U \in bad : <<U, T>> \notin StrictSubsetOrdering(S)
      BY <1>2, FS_StrictSubsetOrderingWellFounded, WFMin
    <2>2. T \subseteq S /\ IsFiniteSet(T) /\ T # {} /\ \A m \in T : \E n \in T : n > m
      BY <1>1 DEF FiniteSubsetsOf
    <2>3. PICK x \in T : TRUE
      BY <2>2
    <2>4. PICK U : U = T \ {x}
      OBVIOUS
    <2>5. U \in FiniteSubsetsOf(S) /\ <<U, T>> \in StrictSubsetOrdering(S)
      BY <2>2, <2>4, FS_RemoveElement DEF FiniteSubsetsOf, StrictSubsetOrdering
    <2>6. U # {}
      BY <2>2, <2>4
    <2>7. PICK m \in U : \A n \in U : ~(n > m)
      BY <1>1, <2>1, <2>5, <2>6
    <2>8. x \in Nat /\ m \in Nat /\ \A n \in T : n \in Nat
      BY <2>2, <2>4
    <2>9. CASE x > m
      BY <2>2, <2>4, <2>7, <2>8, <2>9
    <2>10. CASE ~(x > m)
      BY <2>2, <2>4, <2>7, <2>8, <2>10
    <2> QED BY <2>9, <2>10
  <1>4. S \in FiniteSubsetsOf(S)
    BY DEF FiniteSubsetsOf
  <1>5. PICK m \in S : \A n \in S : ~(n > m)
    BY <1>1, <1>3, <1>4
  <1> QED BY <1>5

LEMMA Trough ==
    ASSUME NEW S \in SUBSET Nat, IsFiniteSet(S), S # {}
    PROVE  \E m \in S : \A n \in S : m <= n
  <1>1. PICK top \in S : \A n \in S : n <= top
    BY Peak
  <1>2. PICK bad : bad = {T \in FiniteSubsetsOf(S) : T # {} /\ \A m \in T : \E n \in T : n < m}
    OBVIOUS
  <1>3. bad \subseteq FiniteSubsetsOf(S)
    BY <1>2
  <1>4. bad = {}
    <2> SUFFICES ASSUME bad # {} PROVE FALSE
      OBVIOUS
    <2>1. PICK T \in bad : \A U \in bad : <<U, T>> \notin StrictSubsetOrdering(S)
      BY <1>3, FS_StrictSubsetOrderingWellFounded, WFMin
    <2>2. T \subseteq S /\ IsFiniteSet(T) /\ T # {} /\ \A m \in T : \E n \in T : n < m
      BY <1>2 DEF FiniteSubsetsOf
    <2>3. PICK x \in T : TRUE
      BY <2>2
    <2>4. PICK U : U = T \ {x}
      OBVIOUS
    <2>5. U \in FiniteSubsetsOf(S) /\ <<U, T>> \in StrictSubsetOrdering(S)
      BY <2>2, <2>4, FS_RemoveElement DEF FiniteSubsetsOf, StrictSubsetOrdering
    <2>6. U # {}
      BY <2>2, <2>4
    <2>7. PICK m \in U : \A n \in U : ~(n < m)
      BY <1>2, <2>1, <2>5, <2>6
    <2>8. x \in Nat /\ m \in Nat /\ \A n \in T : n \in Nat
      BY <2>2, <2>4
    <2>9. CASE x < m
      BY <2>2, <2>4, <2>7, <2>8, <2>9
    <2>10. CASE ~(x < m)
      BY <2>2, <2>4, <2>7, <2>8, <2>10
    <2> QED BY <2>9, <2>10
  <1>5. S \in FiniteSubsetsOf(S)
    BY DEF FiniteSubsetsOf
  <1>6. PICK m \in S : \A n \in S : ~(n < m)
    BY <1>2, <1>4, <1>5
  <1> QED BY <1>6

\* A floor is 0 or a boundary, a ceiling a boundary or none.
LEMMA Snaps ==
    ASSUME NEW value \in Nat
    PROVE  /\ SnapFloor(value) \in BandEdges \cup {0}
           /\ SnapCeiling(value) \in BandEdges \cup {Unset}
  <1>1. PICK below : below = {e \in BandEdges : e <= value}
    OBVIOUS
  <1>2. PICK above : above = {e \in BandEdges : value <= e}
    OBVIOUS
  <1>3. IsFiniteSet(below) /\ IsFiniteSet(above) /\ below \in SUBSET Nat /\ above \in SUBSET Nat
    BY <1>1, <1>2, DirectoryAssumption, FS_Subset
  <1>4. ASSUME \E e \in BandEdges : e <= value
        PROVE  \E e \in BandEdges : e <= value /\ \A f \in BandEdges : f <= value => f <= e
    <2>1. below # {}
      BY <1>1, <1>4
    <2>2. PICK e \in below : \A f \in below : f <= e
      BY <1>3, <2>1, Peak
    <2> QED BY <1>1, <2>2
  <1>5. ASSUME \E e \in BandEdges : value <= e
        PROVE  \E e \in BandEdges : value <= e /\ \A f \in BandEdges : value <= f => e <= f
    <2>1. above # {}
      BY <1>2, <1>5
    <2>2. PICK e \in above : \A f \in above : e <= f
      BY <1>3, <2>1, Trough
    <2> QED BY <1>2, <2>2
  <1>6. SnapFloor(value) \in BandEdges \cup {0}
    BY <1>4 DEF SnapFloor
  <1>7. SnapCeiling(value) \in BandEdges \cup {Unset}
    BY <1>5 DEF SnapCeiling
  <1> QED BY <1>6, <1>7

\* Two prices of one band are on the same side of every floor, and of every
\* ceiling that the first of them is not equal to.
LEMMA SameBand ==
    ASSUME NEW p \in Amounts \cup {Unset}, NEW r \in Amounts \cup {Unset}, Band(p) = Band(r)
    PROVE  /\ p = Unset <=> r = Unset
           /\ p # Unset => \A e \in BandEdges : (p >= e <=> r >= e) /\ (p <= e /\ p # e => r <= e)
  <1>1. \A n : {e \in BandEdges : e <= n} # Unset
    BY DirectoryAssumption
  <1>2. p = Unset <=> r = Unset
    BY <1>1 DEF Band
  <1>3. ASSUME p # Unset, NEW e \in BandEdges
        PROVE  (p >= e <=> r >= e) /\ (p <= e /\ p # e => r <= e)
    <2>1. p \in Nat /\ r \in Nat /\ e \in Nat
      BY <1>2, <1>3, DirectoryAssumption
    <2>2. e <= p <=> e <= r
      BY <1>2, <1>3 DEF Band
    <2> QED BY <2>1, <2>2
  <1> QED BY <1>2, <1>3

DirectoryInv == DirectoryTypeOK

LEMMA DirectoryInductive == DirectoryInv /\ [DirectoryNext]_directoryVars => DirectoryInv'
  <1> SUFFICES ASSUME DirectoryInv, [DirectoryNext]_directoryVars
               PROVE  DirectoryInv'
    OBVIOUS
  <1> USE DEF DirectoryInv, DirectoryTypeOK
  <1>1. ASSUME NEW viewer \in Viewers, NEW page \in Artists \cup {Unset}, ResolveTier(viewer, page)
        PROVE  DirectoryInv'
    <2>1. ViewerTier(viewer, page) \in Tiers
      BY DEF ViewerTier, Tiers
    <2> QED BY <1>1, <2>1 DEF ResolveTier
  <1>2. CASE AnswerAsk
    BY <1>2 DEF AnswerAsk, NoAsk
  <1>3. ASSUME NEW a \in Artists, UpdateMe(a) \/ SetStatus(a)
        PROVE  DirectoryInv'
    <2>1. profile' \in [Artists -> [name : Texts \cup {Unset}, bio : Texts \cup {Unset},
                                    price : Amounts \cup {Unset}, active : BOOLEAN]]
      <3>1. CASE UpdateMe(a)
        <4>1. PICK n \in Texts \cup {profile[a].name}, t \in Texts \cup {profile[a].bio},
                   p \in Amounts \cup {profile[a].price} :
                  profile' = [profile EXCEPT ![a].name = n, ![a].bio = t, ![a].price = p]
          BY <3>1 DEF UpdateMe
        <4>2. n \in Texts \cup {Unset} /\ t \in Texts \cup {Unset} /\ p \in Amounts \cup {Unset}
          OBVIOUS
        <4>3. PICK x : x = [name |-> n, bio |-> t, price |-> p, active |-> profile[a].active]
          OBVIOUS
        <4>4. DOMAIN profile' = Artists /\ profile' = [c \in Artists |-> profile'[c]]
          BY <4>1
        <4>5. \A c \in Artists : c # a => profile'[c] = profile[c]
          BY <4>1
        <4>6. profile[a] = [name |-> profile[a].name, bio |-> profile[a].bio,
                            price |-> profile[a].price, active |-> profile[a].active]
          OBVIOUS
        <4>7. profile'[a] = [profile[a] EXCEPT !.name = n, !.bio = t, !.price = p]
          BY <4>1
        <4>8. profile'[a] = x
          BY <4>3, <4>6, <4>7
        <4> QED BY <4>2, <4>3, <4>4, <4>5, <4>8
      <3>2. CASE SetStatus(a)
        <4>1. PICK x : x = [profile[a] EXCEPT !.active = ~profile[a].active]
          OBVIOUS
        <4>2. x \in [name : Texts \cup {Unset}, bio : Texts \cup {Unset},
                     price : Amounts \cup {Unset}, active : BOOLEAN]
          BY <4>1
        <4>3. profile' = [profile EXCEPT ![a] = x]
          BY <3>2, <4>1 DEF SetStatus
        <4> QED BY <4>2, <4>3
      <3> QED BY <1>3, <3>1, <3>2
    <2> QED BY <1>3, <2>1 DEF UpdateMe, SetStatus
  <1>4. ASSUME NEW u \in Bookers, SubscriptionTurns(u)
        PROVE  DirectoryInv'
    BY <1>4 DEF SubscriptionTurns
  <1>5. CASE UNCHANGED directoryVars
    BY <1>5 DEF directoryVars
  <1> HIDE DEF DirectoryInv
  <1> QED BY <1>1, <1>2, <1>3, <1>4, <1>5 DEF DirectoryNext

\* A search of somebody who does not pay filters by what the cards show, but
\* for a ceiling on the price of the one it finds.
LEMMA CardsDecide ==
    ASSUME DirectoryInv, NEW query \in Queries, NEW tier, tier # "subscribed",
           NEW a \in Artists, NEW b \in Artists, profile[a].active, profile[b].active,
           Card(profile[a], tier) = Card(profile[b], tier),
           a \in Found(query, tier), b \notin Found(query, tier)
    PROVE  query.maxPrice # Unset /\ profile[a].price = SnapCeiling(query.maxPrice)
  <1>1. PICK x, y : x = profile[a] /\ y = profile[b]
    OBVIOUS
  <1>2. x.bio = y.bio /\ Band(x.price) = Band(y.price)
    BY <1>1 DEF Card
  <1>3. x.price \in Amounts \cup {Unset} /\ y.price \in Amounts \cup {Unset}
    BY <1>1 DEF DirectoryInv, DirectoryTypeOK
  <1>4. PICK low, high :
            /\ low = (IF query.minPrice = Unset THEN Unset ELSE SnapFloor(query.minPrice))
            /\ high = (IF query.maxPrice = Unset THEN Unset ELSE SnapCeiling(query.maxPrice))
    OBVIOUS
  <1>5. low \in BandEdges \cup {0, Unset} /\ high \in BandEdges \cup {Unset}
    <2>1. query.minPrice \in Nat \cup {Unset} /\ query.maxPrice \in Nat \cup {Unset}
      BY DirectoryAssumption DEF Queries
    <2> QED BY <1>4, <2>1, Snaps
  <1>6. /\ x.price = Unset <=> y.price = Unset
        /\ x.price # Unset => \A e \in BandEdges :
              (x.price >= e <=> y.price >= e) /\ (x.price <= e /\ x.price # e => y.price <= e)
    BY <1>2, <1>3, SameBand
  <1>7. y.price # Unset => y.price >= 0
    <2>1. y.price # Unset => y.price \in Nat
      BY <1>3, DirectoryAssumption
    <2> QED BY <2>1
  <1>8. high # Unset /\ x.price = high
    <2> SUFFICES ASSUME high = Unset \/ x.price # high
                 PROVE  PriceMatches(x, query, tier) => PriceMatches(y, query, tier)
      <3>1. TextMatches(x, query.q, tier) => TextMatches(y, query.q, tier)
        BY <1>2 DEF TextMatches
      <3> QED BY <1>1, <3>1 DEF Found
    <2> QED BY <1>4, <1>5, <1>6, <1>7 DEF PriceMatches
  <1>9. query.maxPrice # Unset /\ high = SnapCeiling(query.maxPrice)
    BY <1>4, <1>8
  <1> QED BY <1>1, <1>8, <1>9

\* To somebody who does not pay, no search of the directory tells two listed
\* artists with the same card apart, but for a ceiling on a boundary that is
\* the exact price of one of them: whatever the bands, the prices and the
\* bounds asked for (snapPriceFloor, snapPriceCeiling and the comparisons of
\* search).
THEOREM OnlyEdgesTellCardsApart == DirectorySpec => [](DirectoryTypeOK /\ OnlyTheEdgeSeparates)
  <1>1. DirectoryInit => DirectoryInv
    BY DEF DirectoryInit, DirectoryInv, DirectoryTypeOK, NoAsk
  <1>2. DirectoryInv => DirectoryTypeOK /\ OnlyTheEdgeSeparates
    <2> SUFFICES ASSUME DirectoryInv, ask.tier # "subscribed", ask.pc = "read", NEW query \in Queries,
                        NEW a \in Artists, NEW b \in Artists, profile[a].active, profile[b].active,
                        Card(profile[a], ask.tier) = Card(profile[b], ask.tier),
                        a \in Found(query, ask.tier), b \notin Found(query, ask.tier)
                 PROVE  query.maxPrice # Unset /\ profile[a].price = SnapCeiling(query.maxPrice)
      BY DEF DirectoryInv, OnlyTheEdgeSeparates
    <2> QED BY CardsDecide
  <1> QED BY <1>1, <1>2, DirectoryInductive, PTL DEF DirectorySpec

-----------------------------------------------------------------------------
(* Support                                                                 *)

TicketState == [status : Statuses \cup {"none"}, resolved : Nat]
ThreadState == [opened : BOOLEAN, replies : 0..MaxReplies]
DeskState == [pc : {"idle", "open", "tell", "write", "reply", "mail"}, on : SUBSET Tickets, seen : Nat,
              status : Statuses \cup {"same"}, reply : BOOLEAN]

SupportTypes ==
    /\ ticket \in [Tickets -> TicketState] /\ thread \in [Tickets -> ThreadState]
    /\ desk \in [Desks -> DeskState]
    /\ inbox \subseteq Tickets /\ answered \in [Tickets -> Nat]
    /\ clock \in 0..MaxClock /\ supportDeaths \in 0..SupportDeaths
    /\ \A t \in Tickets : ticket[t].resolved <= clock

\* What a desk is about, as the tables now are.
Attends(x, tickets, threads, at) ==
    /\ x \in DeskState /\ x.seen <= at
    /\ IF x.pc = "idle" THEN x = FreeDesk ELSE \E t \in Tickets : x.on = {t}
    /\ \A t \in x.on : /\ tickets[t].status # "none"
                       /\ x.pc = "tell" => threads[t].opened

DesksAttend == \A d \in Desks : Attends(desk[d], ticket, thread, clock)

\* A reply that is stored and still to be mailed is held by one desk.
ToMail(x, t) == x.pc = "mail" /\ x.on = {t}
Mailing(t) == {d \in Desks : ToMail(desk[d], t)}
MailedIsStored == \A t \in Tickets : answered[t] + Cardinality(Mailing(t)) <= thread[t].replies

Filing(x, t) == x.pc = "open" /\ x.on = {t}
OpenedOrFiling == \A t \in Tickets : ticket[t].status # "none" /\ ~thread[t].opened =>
    supportDeaths > 0 \/ \E d \in Desks : Filing(desk[d], t)

InboxOpened == \A t \in inbox : thread[t].opened

\* Status and time are written from two readings of the row, and agree.
StampedWhenOver == \A t \in Tickets : ticket[t].status \in Terminal <=> ticket[t].resolved # Never

SupportInv ==
    SupportTypes /\ DesksAttend /\ MailedIsStored /\ OpenedOrFiling /\ InboxOpened /\ StampedWhenOver

\* A desk that moves, and the desks that are to mail a reply.
LEMMA MailQueue ==
    ASSUME SupportTypes, NEW d \in Desks, NEW x, desk' = [desk EXCEPT ![d] = x], NEW t \in Tickets
    PROVE  /\ IsFiniteSet(Mailing(t)) /\ Cardinality(Mailing(t)) \in Nat /\ Cardinality(Mailing(t))' \in Nat
           /\ ~ToMail(desk[d], t) /\ ~ToMail(x, t) => Cardinality(Mailing(t))' = Cardinality(Mailing(t))
           /\ ~ToMail(desk[d], t) /\ ToMail(x, t) => Cardinality(Mailing(t))' = Cardinality(Mailing(t)) + 1
           /\ ToMail(desk[d], t) /\ ~ToMail(x, t) => Cardinality(Mailing(t))' = Cardinality(Mailing(t)) - 1
  <1>1. PICK old, new : old = Mailing(t) /\ new = Mailing(t)'
    OBVIOUS
  <1>2. \A e \in Desks : desk'[e] = IF e = d THEN x ELSE desk[e]
    BY DEF SupportTypes
  <1>3. old \in SUBSET Desks /\ new \in SUBSET Desks
    BY <1>1 DEF Mailing
  <1>4. IsFiniteSet(old) /\ IsFiniteSet(new) /\ Cardinality(old) \in Nat /\ Cardinality(new) \in Nat
    BY <1>3, SupportAssumption, FS_Subset, FS_CardinalityType
  <1>5. /\ d \in old <=> ToMail(desk[d], t)
        /\ d \in new <=> ToMail(x, t)
        /\ \A e \in Desks : e # d => (e \in old <=> e \in new)
    BY <1>1, <1>2 DEF Mailing, ToMail
  <1>6. CASE d \notin old /\ d \notin new
    <2>1. new = old
      BY <1>3, <1>5, <1>6
    <2> QED BY <1>1, <1>4, <1>5, <1>6, <2>1
  <1>7. CASE d \notin old /\ d \in new
    <2>1. new = old \cup {d}
      BY <1>3, <1>5, <1>7
    <2>2. Cardinality(new) = Cardinality(old) + 1
      BY <1>4, <1>7, <2>1, FS_AddElement
    <2> QED BY <1>1, <1>4, <1>5, <1>7, <2>2
  <1>8. CASE d \in old /\ d \notin new
    <2>1. new = old \ {d}
      BY <1>3, <1>5, <1>8
    <2>2. Cardinality(new) = Cardinality(old) - 1
      BY <1>4, <1>8, <2>1, FS_RemoveElement
    <2> QED BY <1>1, <1>4, <1>5, <1>8, <2>2
  <1>9. CASE d \in old /\ d \in new
    BY <1>1, <1>4, <1>5, <1>9
  <1> QED BY <1>6, <1>7, <1>8, <1>9

\* A desk moves on and may write: tickets stay filed, threads stay open, the
\* clock does not go back, and every reply mailed is a reply stored.
LEMMA OneDesk ==
    ASSUME SupportInv, NEW d \in Desks, NEW x, desk' = [desk EXCEPT ![d] = x],
           x \in DeskState, x.seen <= clock',
           IF x.pc = "idle" THEN x = FreeDesk ELSE \E t \in Tickets : x.on = {t},
           \A t \in x.on : ticket'[t].status # "none" /\ (x.pc = "tell" => thread'[t].opened),
           ticket' \in [Tickets -> TicketState], thread' \in [Tickets -> ThreadState],
           clock' \in 0..MaxClock, clock <= clock',
           \A t \in Tickets :
               /\ ticket[t].status # "none" => ticket'[t].status # "none"
               /\ thread[t].opened => thread'[t].opened
               /\ ticket'[t].resolved <= clock'
               /\ ticket'[t].status \in Terminal <=> ticket'[t].resolved # Never
               /\ ticket'[t].status # "none" /\ ~thread'[t].opened =>
                      supportDeaths' > 0 \/ Filing(x, t) \/ (ticket[t].status # "none" /\ ~Filing(desk[d], t)),
           answered' \in [Tickets -> Nat], MailedIsStored',
           inbox' \subseteq Tickets, InboxOpened',
           supportDeaths' \in 0..SupportDeaths, supportDeaths <= supportDeaths'
    PROVE  SupportInv'
  <1>1. \A e \in Desks : desk'[e] = IF e = d THEN x ELSE desk[e]
    BY DEF SupportInv, SupportTypes
  <1>2. SupportTypes'
    BY DEF SupportInv, SupportTypes
  <1>3. DesksAttend'
    <2> SUFFICES ASSUME NEW e \in Desks
                 PROVE  Attends(desk[e], ticket, thread, clock)'
      BY DEF DesksAttend
    <2>1. CASE e = d
      BY <1>1, <2>1 DEF Attends
    <2>2. CASE e # d
      <3>1. Attends(desk[e], ticket, thread, clock) /\ desk'[e] = desk[e]
        BY <1>1, <2>2 DEF SupportInv, DesksAttend
      <3>2. desk[e].on \subseteq Tickets /\ desk[e].seen \in Nat /\ clock \in Nat
        BY <3>1, SupportAssumption DEF Attends, DeskState, SupportInv, SupportTypes
      <3>3. desk[e].seen <= clock'
        BY <3>1, <3>2, SupportAssumption DEF Attends
      <3> QED BY <3>1, <3>2, <3>3 DEF Attends
    <2> QED BY <2>1, <2>2
  <1>4. OpenedOrFiling'
    <2> SUFFICES ASSUME NEW t \in Tickets, ticket'[t].status # "none", ~thread'[t].opened, ~(supportDeaths' > 0)
                 PROVE  \E e \in Desks : Filing(desk'[e], t)
      BY DEF OpenedOrFiling, Filing
    <2>1. CASE Filing(x, t)
      BY <1>1, <2>1
    <2>2. CASE ~Filing(x, t)
      <3>1. ticket[t].status # "none" /\ ~Filing(desk[d], t) /\ ~thread[t].opened
        BY <2>2
      <3>2. ~(supportDeaths > 0)
        BY SupportAssumption DEF SupportInv, SupportTypes
      <3>3. PICK e \in Desks : Filing(desk[e], t)
        BY <3>1, <3>2 DEF SupportInv, OpenedOrFiling
      <3> QED BY <1>1, <3>1, <3>3
    <2> QED BY <2>1, <2>2
  <1>5. StampedWhenOver'
    BY DEF StampedWhenOver, Never
  <1> QED BY <1>2, <1>3, <1>4, <1>5 DEF SupportInv

LEMMA MailKept ==
    ASSUME SupportInv, NEW d \in Desks, NEW x, desk' = [desk EXCEPT ![d] = x], x.pc # "mail",
           UNCHANGED answered, \A t \in Tickets : thread'[t].replies = thread[t].replies
    PROVE  MailedIsStored'
  <1> SUFFICES ASSUME NEW t \in Tickets
               PROVE  answered[t] + Cardinality(Mailing(t))' <= thread[t].replies
    BY DEF MailedIsStored
  <1>1. /\ Cardinality(Mailing(t)) \in Nat /\ Cardinality(Mailing(t))' \in Nat
        /\ Cardinality(Mailing(t))' <= Cardinality(Mailing(t))
    <2>1. SupportTypes
      BY DEF SupportInv
    <2>2. ~ToMail(x, t)
      BY DEF ToMail
    <2>3. /\ Cardinality(Mailing(t)) \in Nat /\ Cardinality(Mailing(t))' \in Nat
          /\ \/ Cardinality(Mailing(t))' = Cardinality(Mailing(t))
             \/ Cardinality(Mailing(t))' = Cardinality(Mailing(t)) - 1
      BY <2>1, <2>2, MailQueue
    <2> QED BY <2>3
  <1>2. answered[t] \in Nat /\ thread[t].replies \in Nat
    BY SupportAssumption DEF SupportInv, SupportTypes, ThreadState
  <1>3. answered[t] + Cardinality(Mailing(t)) <= thread[t].replies
    BY DEF SupportInv, MailedIsStored
  <1> QED BY <1>1, <1>2, <1>3

LEMMA AtDesk ==
    ASSUME SupportInv, NEW d \in Desks
    PROVE  /\ desk[d] \in DeskState /\ desk[d].seen <= clock /\ clock \in Nat /\ clock <= clock
           /\ supportDeaths \in Nat /\ supportDeaths <= supportDeaths
           /\ \A t \in desk[d].on : t \in Tickets /\ desk[d].on = {t} /\ desk[d].pc # "idle"
           /\ \A t \in desk[d].on : /\ ticket[t].status # "none"
                                    /\ desk[d].pc = "tell" => thread[t].opened
           /\ \A t \in Tickets : ticket[t] = NoTicket => ticket[t].status = "none"
  <1>1. Attends(desk[d], ticket, thread, clock) /\ clock \in Nat /\ supportDeaths \in Nat
    BY SupportAssumption DEF SupportInv, SupportTypes, DesksAttend
  <1>2. \A t \in desk[d].on : t \in Tickets /\ desk[d].on = {t} /\ desk[d].pc # "idle"
    BY <1>1 DEF Attends, FreeDesk
  <1> QED BY <1>1, <1>2 DEF Attends, NoTicket

LEMMA FreeDeskIsFree == FreeDesk \in DeskState /\ FreeDesk.pc = "idle" /\ FreeDesk.on = {} /\ FreeDesk.seen = 0
  BY DEF FreeDesk, DeskState, Never

\* The tables do not change: the desk looks, goes on or ends.
LEMMA DeskOnly ==
    ASSUME SupportInv, NEW d \in Desks, NEW x, desk' = [desk EXCEPT ![d] = x],
           x \in DeskState, x.seen <= clock, x.pc # "mail",
           IF x.pc = "idle" THEN x = FreeDesk ELSE \E t \in Tickets : x.on = {t},
           \A t \in x.on : ticket[t].status # "none" /\ (x.pc = "tell" => thread[t].opened),
           desk[d].pc # "open" \/ supportDeaths' > 0,
           UNCHANGED <<ticket, thread, answered, clock>>,
           inbox' \subseteq Tickets, \A t \in inbox' : thread[t].opened,
           supportDeaths' \in 0..SupportDeaths, supportDeaths <= supportDeaths'
    PROVE  SupportInv'
  <1>1. MailedIsStored'
    BY MailKept
  <1>2. /\ ticket' \in [Tickets -> TicketState] /\ thread' \in [Tickets -> ThreadState]
        /\ clock' \in 0..MaxClock /\ clock <= clock' /\ answered' \in [Tickets -> Nat]
    BY AtDesk DEF SupportInv, SupportTypes
  <1>3. \A t \in Tickets :
            /\ ticket'[t].resolved <= clock'
            /\ ticket'[t].status \in Terminal <=> ticket'[t].resolved # Never
            /\ ticket'[t].status # "none" /\ ~thread'[t].opened =>
                   supportDeaths' > 0 \/ Filing(x, t) \/ (ticket[t].status # "none" /\ ~Filing(desk[d], t))
    BY DEF SupportInv, SupportTypes, StampedWhenOver, Filing
  <1>4. InboxOpened'
    BY DEF InboxOpened
  <1>5. \A t \in x.on : ticket'[t].status # "none" /\ (x.pc = "tell" => thread'[t].opened)
    OBVIOUS
  <1> QED BY <1>1, <1>2, <1>3, <1>4, <1>5, OneDesk

LEMMA CreateTicketStep ==
    ASSUME SupportInv, NEW d \in Desks, NEW t \in Tickets, NEW asker, NEW address,
           CreateTicket(d, t, asker, address)
    PROVE  SupportInv'
  <1>1. PICK x : x = [FreeDesk EXCEPT !.pc = "open", !.on = {t}]
    OBVIOUS
  <1>2. x \in DeskState /\ x.pc = "open" /\ x.on = {t} /\ x.seen = 0
    BY <1>1 DEF FreeDesk, DeskState, Never
  <1>3. /\ desk' = [desk EXCEPT ![d] = x] /\ desk[d].pc = "idle"
        /\ ticket[t].status = "none"
        /\ UNCHANGED <<thread, inbox, answered, clock, supportDeaths>>
    BY <1>1, AtDesk, FreeDeskIsFree DEF CreateTicket
  <1>4. /\ ticket' \in [Tickets -> TicketState]
        /\ \A u \in Tickets : ticket'[u] = IF u = t THEN [status |-> "open", resolved |-> Never] ELSE ticket[u]
    BY DEF CreateTicket, SupportInv, SupportTypes, TicketState, Statuses, Never
  <1>5. MailedIsStored'
    BY <1>2, <1>3, MailKept
  <1>6. /\ thread' \in [Tickets -> ThreadState] /\ clock' \in 0..MaxClock /\ clock <= clock'
        /\ answered' \in [Tickets -> Nat] /\ inbox' \subseteq Tickets
        /\ supportDeaths' \in 0..SupportDeaths /\ supportDeaths <= supportDeaths' /\ x.seen <= clock'
    BY <1>2, <1>3, AtDesk DEF SupportInv, SupportTypes
  <1>7. ASSUME NEW u \in Tickets
        PROVE  /\ ticket[u].status # "none" => ticket'[u].status # "none"
               /\ thread[u].opened => thread'[u].opened
               /\ ticket'[u].resolved <= clock'
               /\ ticket'[u].status \in Terminal <=> ticket'[u].resolved # Never
               /\ ticket'[u].status # "none" /\ ~thread'[u].opened =>
                      supportDeaths' > 0 \/ Filing(x, u) \/ (ticket[u].status # "none" /\ ~Filing(desk[d], u))
    <2>1. CASE u = t
      BY <1>2, <1>3, <1>4, <2>1, AtDesk DEF Filing, Terminal, Never
    <2>2. CASE u # t
      BY <1>3, <1>4, <2>2 DEF Filing, SupportInv, SupportTypes, StampedWhenOver
    <2> QED BY <2>1, <2>2
  <1>8. InboxOpened'
    BY <1>3 DEF SupportInv, InboxOpened
  <1>9. /\ IF x.pc = "idle" THEN x = FreeDesk ELSE \E u \in Tickets : x.on = {u}
        /\ \A u \in x.on : ticket'[u].status # "none" /\ (x.pc = "tell" => thread'[u].opened)
    BY <1>2, <1>4
  <1> QED BY <1>2, <1>3, <1>4, <1>5, <1>6, <1>7, <1>8, <1>9, OneDesk

LEMMA OpenThreadStep ==
    ASSUME SupportInv, NEW d \in Desks, NEW t \in desk[d].on, OpenThread(d, t)
    PROVE  SupportInv'
  <1>1. PICK x : x = [desk[d] EXCEPT !.pc = "tell"]
    OBVIOUS
  <1>2. x \in DeskState /\ x.pc = "tell" /\ x.on = {t} /\ x.seen = desk[d].seen /\ t \in Tickets
        /\ ticket[t].status # "none"
    BY <1>1, AtDesk DEF DeskState
  <1>3. /\ desk' = [desk EXCEPT ![d] = x] /\ UNCHANGED <<ticket, inbox, answered, clock, supportDeaths>>
    BY <1>1 DEF OpenThread, Proceed, SupportInv, SupportTypes
  <1>4. /\ thread' \in [Tickets -> ThreadState]
        /\ thread'[t].opened
        /\ \A u \in Tickets : u # t => thread'[u] = thread[u]
        /\ \A u \in Tickets : thread'[u].replies = thread[u].replies
    BY <1>2 DEF OpenThread, SupportInv, SupportTypes, ThreadState
  <1>5. MailedIsStored'
    BY <1>2, <1>3, <1>4, MailKept
  <1>6. /\ ticket' \in [Tickets -> TicketState] /\ clock' \in 0..MaxClock /\ clock <= clock'
        /\ answered' \in [Tickets -> Nat] /\ inbox' \subseteq Tickets
        /\ supportDeaths' \in 0..SupportDeaths /\ supportDeaths <= supportDeaths' /\ x.seen <= clock'
    BY <1>2, <1>3, AtDesk DEF SupportInv, SupportTypes
  <1>7. ASSUME NEW u \in Tickets
        PROVE  /\ ticket[u].status # "none" => ticket'[u].status # "none"
               /\ thread[u].opened => thread'[u].opened
               /\ ticket'[u].resolved <= clock'
               /\ ticket'[u].status \in Terminal <=> ticket'[u].resolved # Never
               /\ ticket'[u].status # "none" /\ ~thread'[u].opened =>
                      supportDeaths' > 0 \/ Filing(x, u) \/ (ticket[u].status # "none" /\ ~Filing(desk[d], u))
    <2>1. u # t => ~Filing(desk[d], u)
      BY <1>2, AtDesk DEF Filing
    <2> QED BY <1>3, <1>4, <2>1 DEF SupportInv, SupportTypes, StampedWhenOver
  <1>8. InboxOpened'
    BY <1>3, <1>7 DEF SupportInv, InboxOpened, SupportTypes
  <1>9. /\ IF x.pc = "idle" THEN x = FreeDesk ELSE \E u \in Tickets : x.on = {u}
        /\ \A u \in x.on : ticket'[u].status # "none" /\ (x.pc = "tell" => thread'[u].opened)
    BY <1>2, <1>3, <1>4
  <1> QED BY <1>2, <1>3, <1>4, <1>5, <1>6, <1>7, <1>8, <1>9, OneDesk

LEMMA NotifyInboxStep ==
    ASSUME SupportInv, NEW d \in Desks, NEW t \in desk[d].on, NotifyInbox(d, t)
    PROVE  SupportInv'
  <1>1. t \in Tickets /\ thread[t].opened /\ desk[d].pc = "tell"
    BY AtDesk DEF NotifyInbox
  <1>2. inbox' \subseteq Tickets /\ \A u \in inbox' : thread[u].opened
    BY <1>1 DEF NotifyInbox, SupportInv, SupportTypes, InboxOpened
  <1>3. /\ desk' = [desk EXCEPT ![d] = FreeDesk] /\ UNCHANGED <<ticket, thread, answered, clock>>
        /\ supportDeaths' \in 0..SupportDeaths /\ supportDeaths <= supportDeaths'
    BY AtDesk DEF NotifyInbox, Leave, SupportInv, SupportTypes
  <1>4. FreeDesk.seen <= clock
    BY AtDesk, FreeDeskIsFree
  <1> QED BY <1>1, <1>2, <1>3, <1>4, FreeDeskIsFree, DeskOnly

LEMMA LookAtTicketStep ==
    ASSUME SupportInv, NEW d \in Desks, NEW t \in Tickets, LookAtTicket(d, t)
    PROVE  SupportInv'
  <1>1. PICK status \in Statuses \cup {"same"}, reply \in BOOLEAN :
            desk' = [desk EXCEPT ![d] = [pc |-> "write", on |-> {t}, seen |-> ticket[t].resolved,
                                         status |-> status, reply |-> reply]]
    BY DEF LookAtTicket
  <1>2. PICK x : x = [pc |-> "write", on |-> {t}, seen |-> ticket[t].resolved, status |-> status, reply |-> reply]
    OBVIOUS
  <1>3. ticket[t] \in TicketState /\ ticket[t].resolved <= clock
    BY DEF SupportInv, SupportTypes
  <1>4. x \in DeskState /\ x.pc = "write" /\ x.on = {t} /\ x.seen <= clock
    BY <1>2, <1>3 DEF DeskState, TicketState
  <1>5. ticket[t].status # "none"
    <2>1. CASE ticket[t].status = "none"
      <3>1. ticket[t].resolved = Never
        BY <2>1 DEF SupportInv, StampedWhenOver, Terminal
      <3>2. ticket[t] = NoTicket
        BY <1>3, <2>1, <3>1 DEF TicketState, NoTicket
      <3> QED BY <3>2 DEF LookAtTicket
    <2> QED BY <2>1
  <1>6. /\ desk' = [desk EXCEPT ![d] = x] /\ UNCHANGED <<ticket, thread, answered, clock>>
        /\ inbox' \subseteq Tickets /\ \A u \in inbox' : thread[u].opened
        /\ supportDeaths' \in 0..SupportDeaths /\ supportDeaths <= supportDeaths'
        /\ desk[d].pc = "idle"
    BY <1>1, <1>2, AtDesk, FreeDeskIsFree DEF LookAtTicket, SupportInv, SupportTypes, InboxOpened
  <1> QED BY <1>4, <1>5, <1>6, DeskOnly

LEMMA DeskDiesStep ==
    ASSUME SupportInv, NEW d \in Desks, DeskDies(d)
    PROVE  SupportInv'
  <1>1. /\ desk' = [desk EXCEPT ![d] = FreeDesk] /\ UNCHANGED <<ticket, thread, answered, clock>>
        /\ inbox' \subseteq Tickets /\ \A u \in inbox' : thread[u].opened
    BY DEF DeskDies, Leave, SupportInv, SupportTypes, InboxOpened
  <1>2. supportDeaths' \in 0..SupportDeaths /\ supportDeaths <= supportDeaths' /\ supportDeaths' > 0
    BY AtDesk, SupportAssumption DEF DeskDies, SupportInv, SupportTypes
  <1>3. FreeDesk.seen <= clock
    BY AtDesk, FreeDeskIsFree
  <1> QED BY <1>1, <1>2, <1>3, FreeDeskIsFree, DeskOnly

\* The stamp that was read, or a new one, goes with a terminal status; none
\* with any other; and a request without a status writes neither.
LEMMA StampGoesWithStatus ==
    ASSUME SupportInv, NEW d \in Desks, NEW t \in desk[d].on, NEW status, NEW stamp,
           status = IF desk[d].status = "same" THEN ticket[t].status ELSE desk[d].status,
           stamp = ResolvedAt(d, t)
    PROVE  /\ status \in Statuses /\ stamp \in Nat /\ stamp <= clock + 1
           /\ status \in Terminal <=> stamp # Never
  <1>1. /\ desk[d].seen \in Nat /\ desk[d].seen <= clock /\ clock \in Nat
        /\ desk[d].status \in Statuses \cup {"same"} /\ t \in Tickets /\ ticket[t].status # "none"
    BY AtDesk DEF DeskState
  <1>2. /\ ticket[t].resolved \in Nat /\ ticket[t].resolved <= clock
        /\ ticket[t].status \in Statuses \cup {"none"}
        /\ ticket[t].status \in Terminal <=> ticket[t].resolved # Never
    BY <1>1 DEF SupportInv, SupportTypes, StampedWhenOver, TicketState
  <1>3. CASE desk[d].status = "same"
    BY <1>1, <1>2, <1>3 DEF ResolvedAt
  <1>4. CASE desk[d].status # "same" /\ desk[d].status \notin Terminal
    BY <1>1, <1>4 DEF ResolvedAt, Never
  <1>5. CASE desk[d].status # "same" /\ desk[d].status \in Terminal
    BY <1>1, <1>5 DEF ResolvedAt, Never
  <1> QED BY <1>3, <1>4, <1>5

LEMMA WriteTicketStep ==
    ASSUME SupportInv, NEW d \in Desks, NEW t \in desk[d].on, WriteTicket(d, t)
    PROVE  SupportInv'
  <1>1. PICK status, stamp : /\ status = (IF desk[d].status = "same" THEN ticket[t].status ELSE desk[d].status)
                             /\ stamp = ResolvedAt(d, t)
    OBVIOUS
  <1>2. /\ status \in Statuses /\ stamp \in Nat /\ stamp <= clock + 1
        /\ status \in Terminal <=> stamp # Never
    BY <1>1, StampGoesWithStatus
  <1>3. /\ t \in Tickets /\ desk[d] \in DeskState /\ desk[d].seen <= clock /\ clock \in Nat
        /\ desk[d].on = {t} /\ desk[d].pc = "write"
    BY AtDesk DEF WriteTicket
  <1>4. \A u \in Tickets : ticket[u].resolved \in Nat /\ ticket[u].resolved <= clock
    BY DEF SupportInv, SupportTypes, TicketState
  <1>5. PICK row : row = [status |-> status, resolved |-> stamp]
    OBVIOUS
  <1>6. row \in TicketState /\ row.status = status /\ row.resolved = stamp
    BY <1>2, <1>5 DEF TicketState
  <1>7. ticket' = [ticket EXCEPT ![t] = row]
    BY <1>1, <1>5 DEF WriteTicket
  <1>8. /\ ticket' \in [Tickets -> TicketState]
        /\ \A u \in Tickets : ticket'[u] = IF u = t THEN row ELSE ticket[u]
    BY <1>3, <1>6, <1>7 DEF SupportInv, SupportTypes
  <1>9. "none" \notin Statuses
    BY DEF Statuses, Terminal
  <1>10. clock' \in 0..MaxClock /\ clock <= clock' /\ stamp <= clock'
    BY <1>1, <1>2, <1>3, SupportAssumption DEF WriteTicket, SupportInv, SupportTypes
  <1>11. PICK x : x = IF desk[d].reply THEN [desk[d] EXCEPT !.pc = "reply"] ELSE FreeDesk
    OBVIOUS
  <1>12. desk' = [desk EXCEPT ![d] = x]
    BY <1>11 DEF WriteTicket, Proceed, Leave, SupportInv, SupportTypes
  <1>13. /\ x \in DeskState /\ x.seen <= clock' /\ x.pc \in {"idle", "reply"}
         /\ IF x.pc = "idle" THEN x = FreeDesk ELSE \E u \in Tickets : x.on = {u}
         /\ x.on \subseteq {t}
    <2>1. CASE desk[d].reply
      <3>1. x \in DeskState /\ x.pc = "reply" /\ x.on = {t} /\ x.seen = desk[d].seen
        BY <1>3, <1>11, <2>1 DEF DeskState
      <3>2. desk[d].seen \in Nat /\ clock' \in Nat
        BY <1>3, <1>10, SupportAssumption DEF DeskState
      <3> QED BY <1>3, <1>10, <3>1, <3>2
    <2>2. CASE ~desk[d].reply
      BY <1>3, <1>10, <1>11, <2>2, FreeDeskIsFree
    <2> QED BY <2>1, <2>2
  <1>14. UNCHANGED <<thread, inbox, answered, supportDeaths>>
    BY DEF WriteTicket
  <1>15. MailedIsStored'
    BY <1>12, <1>13, <1>14, MailKept
  <1>16. /\ thread' \in [Tickets -> ThreadState] /\ answered' \in [Tickets -> Nat] /\ inbox' \subseteq Tickets
         /\ supportDeaths' \in 0..SupportDeaths /\ supportDeaths <= supportDeaths'
    BY <1>14, AtDesk DEF SupportInv, SupportTypes
  <1>17. ASSUME NEW u \in Tickets
         PROVE  /\ ticket[u].status # "none" => ticket'[u].status # "none"
                /\ thread[u].opened => thread'[u].opened
                /\ ticket'[u].resolved <= clock'
                /\ ticket'[u].status \in Terminal <=> ticket'[u].resolved # Never
                /\ ticket'[u].status # "none" /\ ~thread'[u].opened =>
                       supportDeaths' > 0 \/ Filing(x, u) \/ (ticket[u].status # "none" /\ ~Filing(desk[d], u))
    <2>1. ~Filing(desk[d], u) /\ "none" \notin Statuses
      BY <1>3, <1>9 DEF Filing
    <2>2. ticket[t].status # "none"
      BY AtDesk
    <2>3. CASE u = t
      BY <1>2, <1>6, <1>8, <1>10, <1>14, <2>1, <2>2, <2>3
    <2>4. CASE u # t
      <3>1. ticket[u].status \in Terminal <=> ticket[u].resolved # Never
        BY DEF SupportInv, StampedWhenOver
      <3>2. ticket[u].resolved <= clock'
        BY <1>3, <1>4, <1>10, SupportAssumption
      <3> QED BY <1>8, <1>14, <2>1, <2>4, <3>1, <3>2
    <2> QED BY <2>3, <2>4
  <1>18. InboxOpened'
    BY <1>14 DEF SupportInv, InboxOpened
  <1>19. \A u \in x.on : ticket'[u].status # "none" /\ (x.pc = "tell" => thread'[u].opened)
    BY <1>3, <1>13, <1>17, AtDesk
  <1> QED BY <1>8, <1>10, <1>12, <1>13, <1>15, <1>16, <1>17, <1>18, <1>19, OneDesk

\* A reply is stored before it is mailed: the desk holds one that is stored.
LEMMA ReplyStep ==
    ASSUME SupportInv, NEW d \in Desks, NEW t \in desk[d].on, Reply(d, t)
    PROVE  SupportInv'
  <1>1. PICK x : x = [desk[d] EXCEPT !.pc = "mail"]
    OBVIOUS
  <1>2. x \in DeskState /\ x.pc = "mail" /\ x.on = {t} /\ x.seen = desk[d].seen /\ t \in Tickets
        /\ ticket[t].status # "none" /\ desk[d].pc = "reply"
    BY <1>1, AtDesk DEF DeskState, Reply
  <1>3. /\ desk' = [desk EXCEPT ![d] = x] /\ UNCHANGED <<ticket, inbox, answered, clock, supportDeaths>>
    BY <1>1 DEF Reply, AppendReply, Proceed, SupportInv, SupportTypes
  <1>4. thread[t] \in ThreadState /\ thread[t].replies < MaxReplies
    BY <1>2 DEF Reply, SupportInv, SupportTypes
  <1>5. PICK row : row = [opened |-> thread[t].opened, replies |-> thread[t].replies + 1]
    OBVIOUS
  <1>6. row \in ThreadState /\ row.opened = thread[t].opened /\ row.replies = thread[t].replies + 1
    BY <1>4, <1>5, SupportAssumption DEF ThreadState
  <1>7. /\ DOMAIN thread' = Tickets /\ thread' = [u \in DOMAIN thread' |-> thread'[u]]
        /\ \A u \in Tickets : u # t => thread'[u] = thread[u]
        /\ thread'[t] = row
    <2>1. thread \in [Tickets -> ThreadState]
      BY DEF SupportInv, SupportTypes
    <2>2. /\ DOMAIN thread' = Tickets /\ thread' = [u \in DOMAIN thread' |-> thread'[u]]
          /\ \A u \in Tickets : u # t => thread'[u] = thread[u]
      BY <2>1 DEF Reply, AppendReply
    <2>3. thread'[t] = [thread[t] EXCEPT !.replies = thread[t].replies + 1]
      BY <1>2, <2>1 DEF Reply, AppendReply
    <2> QED BY <1>4, <1>5, <2>2, <2>3 DEF ThreadState
  <1>8. /\ thread' \in [Tickets -> ThreadState]
        /\ \A u \in Tickets : thread'[u] = IF u = t THEN row ELSE thread[u]
    <2>1. \A u \in Tickets : thread'[u] = IF u = t THEN row ELSE thread[u]
      BY <1>7
    <2>2. \A u \in Tickets : thread'[u] \in ThreadState
      BY <1>6, <2>1 DEF SupportInv, SupportTypes
    <2> QED BY <1>7, <2>1, <2>2
  <1>9. MailedIsStored'
    <2> SUFFICES ASSUME NEW u \in Tickets
                 PROVE  answered[u] + Cardinality(Mailing(u))' <= thread'[u].replies
      BY <1>3 DEF MailedIsStored
    <2>1. /\ answered[u] \in Nat /\ thread[u].replies \in Nat /\ Cardinality(Mailing(u)) \in Nat
          /\ Cardinality(Mailing(u))' \in Nat /\ answered[u] + Cardinality(Mailing(u)) <= thread[u].replies
      <3>1. SupportTypes
        BY DEF SupportInv
      <3>2. Cardinality(Mailing(u)) \in Nat /\ Cardinality(Mailing(u))' \in Nat
        BY <1>3, <3>1, MailQueue
      <3>3. answered[u] \in Nat /\ thread[u].replies \in Nat
        BY <3>1, SupportAssumption DEF SupportTypes, ThreadState
      <3> QED BY <3>2, <3>3 DEF SupportInv, MailedIsStored
    <2>2. Cardinality(Mailing(u))' = Cardinality(Mailing(u)) + (IF u = t THEN 1 ELSE 0)
      <3>1. ~ToMail(desk[d], u) /\ (ToMail(x, u) <=> u = t)
        BY <1>2 DEF ToMail
      <3>2. SupportTypes
        BY DEF SupportInv
      <3>3. u # t => Cardinality(Mailing(u))' = Cardinality(Mailing(u))
        BY <1>3, <3>1, <3>2, MailQueue
      <3>4. u = t => Cardinality(Mailing(u))' = Cardinality(Mailing(u)) + 1
        BY <1>3, <3>1, <3>2, MailQueue
      <3> QED BY <2>1, <3>3, <3>4
    <2> QED BY <1>6, <1>8, <2>1, <2>2
  <1>10. /\ ticket' \in [Tickets -> TicketState] /\ clock' \in 0..MaxClock /\ clock <= clock'
         /\ answered' \in [Tickets -> Nat] /\ inbox' \subseteq Tickets
         /\ supportDeaths' \in 0..SupportDeaths /\ supportDeaths <= supportDeaths' /\ x.seen <= clock'
    BY <1>2, <1>3, AtDesk DEF SupportInv, SupportTypes
  <1>11. ASSUME NEW u \in Tickets
         PROVE  /\ ticket[u].status # "none" => ticket'[u].status # "none"
                /\ thread[u].opened <=> thread'[u].opened
                /\ ticket'[u].resolved <= clock'
                /\ ticket'[u].status \in Terminal <=> ticket'[u].resolved # Never
                /\ ticket'[u].status # "none" /\ ~thread'[u].opened =>
                       supportDeaths' > 0 \/ Filing(x, u) \/ (ticket[u].status # "none" /\ ~Filing(desk[d], u))
    <2>1. ~Filing(desk[d], u)
      BY <1>2 DEF Filing
    <2> QED BY <1>3, <1>6, <1>8, <2>1 DEF SupportInv, SupportTypes, StampedWhenOver
  <1>12. InboxOpened'
    BY <1>3, <1>11 DEF SupportInv, InboxOpened, SupportTypes
  <1>13. /\ IF x.pc = "idle" THEN x = FreeDesk ELSE \E u \in Tickets : x.on = {u}
         /\ \A u \in x.on : ticket'[u].status # "none" /\ (x.pc = "tell" => thread'[u].opened)
    BY <1>2, <1>3
  <1>14. /\ desk' = [desk EXCEPT ![d] = x] /\ x \in DeskState /\ x.seen <= clock'
         /\ thread' \in [Tickets -> ThreadState]
    BY <1>2, <1>3, <1>8, <1>10
  <1> QED BY <1>9, <1>10, <1>11, <1>12, <1>13, <1>14, OneDesk

LEMMA NotifyRequesterStep ==
    ASSUME SupportInv, NEW d \in Desks, NEW t \in desk[d].on, NotifyRequester(d, t)
    PROVE  SupportInv'
  <1>1. t \in Tickets /\ desk[d].on = {t} /\ desk[d].pc = "mail"
    BY AtDesk DEF NotifyRequester
  <1>2. /\ desk' = [desk EXCEPT ![d] = FreeDesk] /\ UNCHANGED <<ticket, thread, inbox, clock, supportDeaths>>
    BY DEF NotifyRequester, Leave
  <1>3. /\ answered' \in [Tickets -> Nat]
        /\ \A u \in Tickets : answered'[u] = answered[u] \/ (u = t /\ answered'[u] = answered[u] + 1)
    BY <1>1 DEF NotifyRequester, SupportInv, SupportTypes
  <1>4. MailedIsStored'
    <2> SUFFICES ASSUME NEW u \in Tickets
                 PROVE  answered'[u] + Cardinality(Mailing(u))' <= thread[u].replies
      BY <1>2 DEF MailedIsStored
    <2>1. /\ answered[u] \in Nat /\ thread[u].replies \in Nat /\ Cardinality(Mailing(u)) \in Nat
          /\ Cardinality(Mailing(u))' \in Nat /\ answered[u] + Cardinality(Mailing(u)) <= thread[u].replies
      <3>1. SupportTypes
        BY DEF SupportInv
      <3>2. Cardinality(Mailing(u)) \in Nat /\ Cardinality(Mailing(u))' \in Nat
        BY <1>2, <3>1, MailQueue
      <3>3. answered[u] \in Nat /\ thread[u].replies \in Nat
        BY <3>1, SupportAssumption DEF SupportTypes, ThreadState
      <3> QED BY <3>2, <3>3 DEF SupportInv, MailedIsStored
    <2>2. Cardinality(Mailing(u))' = Cardinality(Mailing(u)) - (IF u = t THEN 1 ELSE 0)
      <3>1. ~ToMail(FreeDesk, u) /\ (ToMail(desk[d], u) <=> u = t)
        BY <1>1, FreeDeskIsFree DEF ToMail
      <3>2. SupportTypes
        BY DEF SupportInv
      <3>3. u # t => Cardinality(Mailing(u))' = Cardinality(Mailing(u))
        BY <1>2, <3>1, <3>2, MailQueue
      <3>4. u = t => Cardinality(Mailing(u))' = Cardinality(Mailing(u)) - 1
        BY <1>2, <3>1, <3>2, MailQueue
      <3> QED BY <2>1, <3>3, <3>4
    <2> QED BY <1>3, <2>1, <2>2
  <1>5. /\ ticket' \in [Tickets -> TicketState] /\ thread' \in [Tickets -> ThreadState]
        /\ clock' \in 0..MaxClock /\ clock <= clock' /\ inbox' \subseteq Tickets
        /\ supportDeaths' \in 0..SupportDeaths /\ supportDeaths <= supportDeaths' /\ FreeDesk.seen <= clock'
    BY <1>2, AtDesk, FreeDeskIsFree DEF SupportInv, SupportTypes
  <1>6. ASSUME NEW u \in Tickets
        PROVE  /\ ticket'[u].resolved <= clock'
               /\ ticket'[u].status \in Terminal <=> ticket'[u].resolved # Never
               /\ ~Filing(desk[d], u)
    BY <1>1, <1>2 DEF SupportInv, SupportTypes, StampedWhenOver, Filing
  <1>7. InboxOpened'
    BY <1>2 DEF SupportInv, InboxOpened
  <1> QED BY <1>2, <1>3, <1>4, <1>5, <1>6, <1>7, FreeDeskIsFree, OneDesk

LEMMA SupportInductive == SupportInv /\ [SupportNext]_supportVars => SupportInv'
  <1> SUFFICES ASSUME SupportInv, [SupportNext]_supportVars
               PROVE  SupportInv'
    OBVIOUS
  <1>1. CASE UNCHANGED supportVars
    BY <1>1 DEF supportVars, SupportInv, SupportTypes, DesksAttend, MailedIsStored, Mailing, OpenedOrFiling,
                InboxOpened, StampedWhenOver
  <1> QED BY <1>1, CreateTicketStep, LookAtTicketStep, OpenThreadStep, NotifyInboxStep, WriteTicketStep,
             ReplyStep, NotifyRequesterStep, DeskDiesStep DEF SupportNext

\* Whatever administrators write over each other and wherever a handler dies,
\* every mail is about something in the tables, and a ticket without its
\* opening message is one whose handler is at work or died
\* (SupportService.create and update).
THEOREM TheTablesComeFirst == SupportSpec => [](SupportTypeOK /\ TablesFirst)
  <1>1. SupportInit => SupportInv
    <2> SUFFICES ASSUME SupportInit PROVE SupportInv
      OBVIOUS
    <2>1. SupportTypes
      <3>1. ticket \in [Tickets -> TicketState] /\ thread \in [Tickets -> ThreadState]
        BY SupportAssumption DEF SupportInit, NoTicket, TicketState, ThreadState, Never
      <3>2. desk \in [Desks -> DeskState] /\ clock \in 0..MaxClock /\ supportDeaths \in 0..SupportDeaths
        BY FreeDeskIsFree, SupportAssumption DEF SupportInit
      <3>3. \A t \in Tickets : ticket[t].resolved <= clock
        BY DEF SupportInit, NoTicket, Never
      <3> QED BY <3>1, <3>2, <3>3 DEF SupportInit, SupportTypes
    <2>2. DesksAttend
      BY FreeDeskIsFree DEF SupportInit, DesksAttend, Attends
    <2>3. MailedIsStored
      <3>1. \A t \in Tickets : Mailing(t) = {}
        BY FreeDeskIsFree DEF SupportInit, Mailing, ToMail
      <3>2. Cardinality({}) = 0
        BY FS_EmptySet
      <3>3. \A t \in Tickets : answered[t] = 0 /\ thread[t].replies = 0
        BY DEF SupportInit
      <3>4. \A t \in Tickets : answered[t] + Cardinality(Mailing(t)) <= thread[t].replies
        BY <3>1, <3>2, <3>3
      <3> QED BY <3>4 DEF MailedIsStored
    <2>4. OpenedOrFiling /\ InboxOpened /\ StampedWhenOver
      BY DEF SupportInit, OpenedOrFiling, InboxOpened, StampedWhenOver, NoTicket, Terminal
    <2> QED BY <2>1, <2>2, <2>3, <2>4 DEF SupportInv
  <1>2. SupportInv => SupportTypeOK /\ TablesFirst
    <2> SUFFICES ASSUME SupportInv PROVE SupportTypeOK /\ TablesFirst
      OBVIOUS
    <2>1. ASSUME NEW t \in Tickets
          PROVE  answered[t] \in Nat /\ thread[t].replies \in 0..MaxReplies /\ answered[t] <= thread[t].replies
      <3>1. Mailing(t) \in SUBSET Desks
        BY DEF Mailing
      <3>2. Cardinality(Mailing(t)) \in Nat
        BY <3>1, SupportAssumption, FS_Subset, FS_CardinalityType
      <3>3. answered[t] \in Nat /\ thread[t].replies \in 0..MaxReplies
        BY DEF SupportInv, SupportTypes, ThreadState
      <3>4. answered[t] + Cardinality(Mailing(t)) <= thread[t].replies
        BY DEF SupportInv, MailedIsStored
      <3> QED BY <3>2, <3>3, <3>4, SupportAssumption
    <2>2. TablesFirst
      <3>1. \A t \in Tickets : ticket[t].status = "none" => ticket[t] = NoTicket
        BY DEF SupportInv, SupportTypes, StampedWhenOver, TicketState, NoTicket, Terminal
      <3>2. \A t \in Tickets : ticket[t] # NoTicket => ticket[t].status # "none"
        BY <3>1
      <3> QED
        BY <2>1, <3>2 DEF TablesFirst, SupportInv, SupportTypes, OpenedOrFiling, Filing, InboxOpened
    <2>3. SupportTypeOK
      <3>1. \A t \in Tickets : /\ ticket[t].status \in Statuses \cup {"none"}
                               /\ ticket[t].resolved \in 0..clock
                               /\ thread[t] \in [opened : BOOLEAN, replies : 0..MaxReplies]
        BY SupportAssumption DEF SupportInv, SupportTypes, TicketState, ThreadState
      <3>2. answered \in [Tickets -> 0..MaxReplies]
        BY <2>1, SupportAssumption DEF SupportInv, SupportTypes
      <3>3. \A d \in Desks : desk[d].on \subseteq Tickets /\ desk[d].seen \in 0..clock
        BY AtDesk, SupportAssumption DEF DeskState
      <3> QED BY <3>1, <3>2, <3>3 DEF SupportTypeOK, SupportInv, SupportTypes
    <2> QED BY <2>2, <2>3
  <1> QED BY <1>1, <1>2, SupportInductive, PTL DEF SupportSpec

-----------------------------------------------------------------------------
(* Accounts                                                                *)

Prefixes == {"none", "found", "PLN", "CMP", "VEN"}
RowState == [made : BOOLEAN, email : Addresses \cup {NoAddress}, pending : Addresses \cup {NoAddress},
             verified : BOOLEAN, deleted : BOOLEAN, prefix : Prefixes, number : Nat]
LinkState == [user : Accounts \cup {NoAccount}, to : Addresses \cup {NoAddress}, live : BOOLEAN]
SignUpState == [pc : {"idle", "create", "insert", "link", "consent", "open", "mail", "verify"}, social : BOOLEAN,
                email : Addresses \cup {NoAddress}, prefix : Prefixes, number : Nat,
                user : Accounts \cup {NoAccount}]
ClickState == [pc : {"idle", "mark", "apply", "spend"}, link : LinkIds \cup {"none"},
               user : Accounts \cup {NoAccount}, to : Addresses \cup {NoAddress}]
ChangeState == [pc : {"idle", "set", "mail"}, user : Accounts \cup {NoAccount}, to : Addresses \cup {NoAddress}]

AccountTypes ==
    /\ account \in [Accounts -> RowState] /\ IsFiniteSet(Made)
    /\ \A u \in Accounts : account[u].made <=> account[u].number > 0
    /\ social \in [Addresses -> Accounts \cup {NoAccount}]
    /\ consented \subseteq Accounts /\ cutShort \subseteq Accounts
    /\ opened \in [Accounts -> {"none", "empty", "full"}]
    /\ link \in [LinkIds -> LinkState] /\ signUp \in [SignUps -> SignUpState]
    /\ click \in [Clicks -> ClickState] /\ change \in ChangeState

\* Whatever names an account names one that was made: links, handlers and the
\* identities of the providers.
Named ==
    /\ \A a \in Addresses : social[a] \in Made \cup {NoAccount}
    /\ \A l \in LinkIds : link[l].live => link[l].user \in Made
    /\ \A c \in Clicks : click[c].pc # "idle" => click[c].user \in Made /\ click[c].link \in LinkIds
    /\ change.pc # "idle" => change.user \in Made

VerifiedIfLinked(u) == (\E a \in Addresses : social[a] = u) => account[u].verified

\* How far a handler is, and what it left in the tables on its way.
Stage(x) ==
    /\ x.user # NoAccount <=> x.pc \in {"link", "consent", "open", "mail", "verify"}
    /\ x.user # NoAccount => x.user \in Made
    /\ x.pc \in {"create", "insert", "link"} => x.email \in Addresses
    /\ x.pc \in {"create", "insert"} => x.prefix # "found"
    /\ x.pc = "insert" => x.number > 0
    /\ x.pc = "link" => x.social
    /\ x.pc = "mail" => ~x.social
    /\ x.prefix = "found" => x.pc = "link" /\ account[x.user].verified
    /\ x.pc \in {"open", "mail", "verify"} => x.user \in consented
    /\ x.pc \in {"mail", "verify"} => opened[x.user] = "full"
    /\ x.user # NoAccount /\ ~x.social => VerifiedIfLinked(x.user)
Stages == \A s \in SignUps : Stage(signUp[s])

\* The handler that made the account is the only one that does not merely
\* link to it.
Owns(x, u) == x.user = u /\ x.prefix # "found"
OneOwner == \A u \in Made : \A r, s \in SignUps : Owns(signUp[r], u) /\ Owns(signUp[s], u) => r = s

Whole(u) == u \in consented /\ opened[u] = "full" /\ VerifiedIfLinked(u)
WholeOrOwned == \A u \in Made : u \in cutShort \/ Whole(u) \/ \E s \in SignUps : Owns(signUp[s], u)

AccountInv == AccountTypes /\ Named /\ Stages /\ OneOwner /\ WholeOrOwned

LEMMA FreshState ==
    /\ NoRow \in RowState /\ ~NoRow.made /\ NoRow.number = 0 /\ NoLink \in LinkState /\ ~NoLink.live
    /\ NoSignUp \in SignUpState /\ NoSignUp.pc = "idle" /\ NoSignUp.user = NoAccount /\ NoSignUp.prefix = "none"
    /\ NoClick \in ClickState /\ NoClick.pc = "idle" /\ NoChange \in ChangeState /\ NoChange.pc = "idle"
  BY DEF NoRow, NoLink, NoSignUp, NoClick, NoChange, RowState, LinkState, SignUpState, ClickState, ChangeState, Prefixes

\* Links, clicks and the change of an address, as they may be beside the tables.
Around ==
    /\ link \in [LinkIds -> LinkState] /\ click \in [Clicks -> ClickState] /\ change \in ChangeState
    /\ \A l \in LinkIds : link[l].live => link[l].user \in Made
    /\ \A c \in Clicks : click[c].pc # "idle" => click[c].user \in Made /\ click[c].link \in LinkIds
    /\ change.pc # "idle" => change.user \in Made

\* No handler of a sign-up moves; a row may change, and stays made and verified.
LEMMA OffSignUp ==
    ASSUME AccountInv, account' \in [Accounts -> RowState],
           \A u \in Accounts : /\ account'[u].made = account[u].made /\ account'[u].number = account[u].number
                               /\ account[u].verified => account'[u].verified,
           UNCHANGED <<social, consented, opened, signUp, cutShort>>, Around'
    PROVE  AccountInv'
  <1>1. Made' = Made
    BY DEF Made
  <1>2. AccountTypes'
    BY <1>1 DEF AccountInv, AccountTypes, Around
  <1>3. Named'
    BY <1>1 DEF AccountInv, Named, Around
  <1>4. \A u \in Made : VerifiedIfLinked(u) => VerifiedIfLinked(u)'
    BY DEF VerifiedIfLinked, Made
  <1>5. Stages'
    <2> SUFFICES ASSUME NEW s \in SignUps
                 PROVE  Stage(signUp[s])'
      BY DEF Stages
    <2>1. Stage(signUp[s]) /\ signUp'[s] = signUp[s]
      BY DEF AccountInv, Stages
    <2>2. signUp[s].user # NoAccount /\ account[signUp[s].user].verified => account'[signUp[s].user].verified
      BY <2>1 DEF Stage, Made
    <2> QED BY <1>1, <1>4, <2>1, <2>2 DEF Stage
  <1>6. OneOwner' /\ WholeOrOwned'
    BY <1>1, <1>4 DEF AccountInv, OneOwner, WholeOrOwned, Whole, Owns
  <1> QED BY <1>2, <1>3, <1>5, <1>6 DEF AccountInv

\* One handler moves, and what it finds in the tables only grows.
LEMMA SignUpMoves ==
    ASSUME AccountInv, NEW s \in SignUps, NEW x \in SignUpState, signUp' = [signUp EXCEPT ![s] = x],
           account' \in [Accounts -> RowState], IsFiniteSet(Made'),
           \A u \in Accounts : account'[u].made <=> account'[u].number > 0,
           \A u \in Made : u \in Made' /\ (account[u].verified => account'[u].verified),
           social' \in [Addresses -> Accounts \cup {NoAccount}],
           \A a \in Addresses : social'[a] \in Made' \cup {NoAccount},
           consented \subseteq consented', consented' \subseteq Accounts,
           opened' \in [Accounts -> {"none", "empty", "full"}],
           \A u \in Made : opened[u] = "full" => opened'[u] = "full",
           cutShort \subseteq cutShort', cutShort' \subseteq Accounts,
           link' \in [LinkIds -> LinkState], \A l \in LinkIds : link'[l].live => link'[l].user \in Made',
           UNCHANGED <<click, change>>, Stage(x)',
           \A u \in Made : VerifiedIfLinked(u) /\ ~Owns(x, u) => VerifiedIfLinked(u)',
           \A u \in Made : Owns(x, u) => Owns(signUp[s], u),
           \A u \in Made' : u \in cutShort' \/ Whole(u)' \/ Owns(x, u) \/ (u \in Made /\ ~Owns(signUp[s], u))
    PROVE  AccountInv'
  <1>1. \A r \in SignUps : signUp'[r] = IF r = s THEN x ELSE signUp[r]
    BY DEF AccountInv, AccountTypes
  <1>2. signUp' \in [SignUps -> SignUpState]
    BY DEF AccountInv, AccountTypes
  <1>3. AccountTypes'
    BY <1>2 DEF AccountInv, AccountTypes
  <1>4. Named'
    BY DEF AccountInv, Named
  <1>5. Stages'
    <2> SUFFICES ASSUME NEW r \in SignUps
                 PROVE  Stage(signUp[r])'
      BY DEF Stages
    <2>1. CASE r = s
      BY <1>1, <2>1 DEF Stage, VerifiedIfLinked, Made
    <2>2. CASE r # s
      <3>1. PICK y : y = signUp[r] /\ y = signUp'[r]
        BY <1>1, <2>2
      <3>2. Stage(y) /\ y \in SignUpState
        BY <3>1 DEF AccountInv, AccountTypes, Stages
      <3>3. y.user # NoAccount =>
                y.user \in Made /\ y.user \in Made' /\ (account[y.user].verified => account'[y.user].verified)
        BY <3>2 DEF Stage
      <3>4. y.user # NoAccount /\ ~y.social => VerifiedIfLinked(y.user)'
        <4> SUFFICES ASSUME y.user # NoAccount, ~y.social
                     PROVE  VerifiedIfLinked(y.user)'
          OBVIOUS
        <4>1. VerifiedIfLinked(y.user) /\ y.user \in Made /\ Owns(y, y.user)
          BY <3>2, <3>3 DEF Stage, Owns
        <4>2. ~Owns(x, y.user)
          BY <2>2, <3>1, <4>1 DEF AccountInv, OneOwner
        <4> QED BY <4>1, <4>2
      <3>5. Stage(y)'
        BY <3>2, <3>3, <3>4 DEF Stage
      <3> QED BY <3>1, <3>5 DEF Stage, VerifiedIfLinked, Made
    <2> QED BY <2>1, <2>2
  <1>6. OneOwner'
    <2> SUFFICES ASSUME NEW u \in Made', NEW r \in SignUps, NEW q \in SignUps,
                        Owns(signUp'[r], u), Owns(signUp'[q], u)
                 PROVE  r = q
      BY DEF OneOwner, Owns
    <2>1. u # NoAccount
      BY AccountAssumption DEF Made
    <2>2. \A p \in SignUps : p # s /\ Owns(signUp'[p], u) => u \in Made /\ Owns(signUp[p], u)
      BY <1>1, <2>1 DEF Owns, AccountInv, Stages, Stage
    <2>3. \A p \in SignUps : u \in Made /\ Owns(signUp'[p], u) => Owns(signUp[p], u)
      BY <1>1
    <2>4. CASE u \in Made
      BY <2>3, <2>4 DEF AccountInv, OneOwner
    <2>5. CASE u \notin Made
      BY <2>2, <2>5
    <2> QED BY <2>4, <2>5
  <1>7. WholeOrOwned'
    <2> SUFFICES ASSUME NEW u \in Made', u \notin cutShort', ~Whole(u)'
                 PROVE  \E r \in SignUps : Owns(signUp'[r], u)
      BY DEF WholeOrOwned, Owns, Whole, VerifiedIfLinked
    <2>1. CASE Owns(x, u)
      BY <1>1, <2>1
    <2>2. CASE ~Owns(x, u)
      <3>1. u \in Made /\ ~Owns(signUp[s], u)
        BY <2>2
      <3>2. ~Whole(u)
        BY <2>2, <3>1 DEF Whole
      <3>3. PICK r \in SignUps : Owns(signUp[r], u)
        BY <3>1, <3>2 DEF AccountInv, WholeOrOwned
      <3> QED BY <1>1, <3>1, <3>3
    <2> QED BY <2>1, <2>2
  <1> QED BY <1>3, <1>4, <1>5, <1>6, <1>7 DEF AccountInv

\* The tables stay as they are.
LEMMA SignUpOnly ==
    ASSUME AccountInv, NEW s \in SignUps, NEW x \in SignUpState, signUp' = [signUp EXCEPT ![s] = x], Stage(x),
           \A u \in Made : Owns(x, u) <=> Owns(signUp[s], u),
           UNCHANGED <<account, social, consented, opened, link, click, change, cutShort>>
    PROVE  AccountInv'
  <1>1. Made' = Made
    BY DEF Made
  <1>2. Stage(x)' /\ \A u \in Made : (Whole(u) <=> Whole(u)') /\ (VerifiedIfLinked(u) <=> VerifiedIfLinked(u)')
    BY <1>1 DEF Stage, VerifiedIfLinked, Whole
  <1>3. /\ account' \in [Accounts -> RowState] /\ IsFiniteSet(Made')
        /\ \A u \in Accounts : account'[u].made <=> account'[u].number > 0
        /\ social' \in [Addresses -> Accounts \cup {NoAccount}]
        /\ \A a \in Addresses : social'[a] \in Made' \cup {NoAccount}
        /\ consented' \subseteq Accounts /\ opened' \in [Accounts -> {"none", "empty", "full"}]
        /\ cutShort' \subseteq Accounts
        /\ link' \in [LinkIds -> LinkState] /\ \A l \in LinkIds : link'[l].live => link'[l].user \in Made'
    BY <1>1 DEF AccountInv, AccountTypes, Named
  <1>4. \A u \in Made' : u \in cutShort' \/ Whole(u)' \/ Owns(x, u) \/ (u \in Made /\ ~Owns(signUp[s], u))
    BY <1>1
  <1> QED BY <1>1, <1>2, <1>3, <1>4, SignUpMoves

LEMMA AtSignUp ==
    ASSUME AccountInv, NEW s \in SignUps
    PROVE  /\ signUp[s] \in SignUpState /\ Stage(signUp[s])
           /\ signUp[s].user # NoAccount => signUp[s].user \in Made /\ signUp[s].user \in Accounts
           /\ account \in [Accounts -> RowState] /\ IsFiniteSet(Made)
           /\ \A u \in Accounts : u \in Made <=> account[u].made
           /\ \A u \in Accounts : account[u].made <=> account[u].number > 0
           /\ social \in [Addresses -> Accounts \cup {NoAccount}]
           /\ \A a \in Addresses : social[a] \in Made \cup {NoAccount}
           /\ consented \subseteq Accounts /\ opened \in [Accounts -> {"none", "empty", "full"}]
           /\ cutShort \subseteq Accounts
           /\ link \in [LinkIds -> LinkState] /\ \A l \in LinkIds : link[l].live => link[l].user \in Made
  BY DEF AccountInv, AccountTypes, Named, Stages, Stage, Made

\* A handler without an account owns none.
LEMMA NobodyOwns ==
    ASSUME NEW x, x.user = NoAccount
    PROVE  \A u \in Made : ~Owns(x, u)
  BY AccountAssumption DEF Owns, Made

LEMMA PrefixOfKind == \A answer \in Kinds \cup {"individual"} : AccountCodePrefix(answer) \in {"PLN", "CMP", "VEN"}
  BY AccountAssumption DEF AccountCodePrefix

LEMMA RegisterStep ==
    ASSUME AccountInv, NEW s \in SignUps, NEW a \in Addresses, NEW answer \in Kinds, Register(s, a, answer)
    PROVE  AccountInv'
  <1>1. PICK code \in {"PLN", "CMP", "VEN"} : code = AccountCodePrefix(answer)
    BY PrefixOfKind
  <1>2. PICK x : x = [NoSignUp EXCEPT !.pc = "create", !.email = a, !.prefix = code]
    OBVIOUS
  <1>3. /\ x \in SignUpState /\ x.pc = "create" /\ x.email = a /\ x.prefix = code /\ x.user = NoAccount
    BY <1>2 DEF NoSignUp, SignUpState, Prefixes
  <1>4. Stage(x)
    BY <1>3 DEF Stage
  <1>5. signUp[s].user = NoAccount
    BY FreshState DEF Register
  <1>6. \A u \in Made : Owns(x, u) <=> Owns(signUp[s], u)
    BY <1>3, <1>5, NobodyOwns
  <1>7. /\ signUp' = [signUp EXCEPT ![s] = x]
        /\ UNCHANGED <<account, social, consented, opened, link, click, change, cutShort>>
    BY <1>1, <1>2 DEF Register
  <1> QED BY <1>3, <1>4, <1>6, <1>7, SignUpOnly

LEMMA SignInSocialStep ==
    ASSUME AccountInv, NEW s \in SignUps, NEW a \in Addresses, SignInSocial(s, a)
    PROVE  AccountInv'
  <1>1. UNCHANGED <<account, social, consented, opened, link, click, change, cutShort>>
    BY DEF SignInSocial
  <1>2. signUp[s].user = NoAccount
    BY FreshState DEF SignInSocial
  <1>3. CASE ByEmail(a) = {} /\ signUp' = [signUp EXCEPT ![s] = [NoSignUp EXCEPT
                 !.pc = "create", !.social = TRUE, !.email = a, !.prefix = AccountCodePrefix("individual")]]
    <2>1. PICK code \in {"PLN", "CMP", "VEN"} : code = AccountCodePrefix("individual")
      BY PrefixOfKind
    <2>2. PICK x : x = [NoSignUp EXCEPT !.pc = "create", !.social = TRUE, !.email = a, !.prefix = code]
      OBVIOUS
    <2>3. /\ x \in SignUpState /\ x.pc = "create" /\ x.email = a /\ x.prefix = code /\ x.user = NoAccount
      BY <2>2 DEF NoSignUp, SignUpState, Prefixes
    <2>4. Stage(x)
      BY <2>3 DEF Stage
    <2>5. \A u \in Made : Owns(x, u) <=> Owns(signUp[s], u)
      BY <1>2, <2>3, NobodyOwns
    <2>6. signUp' = [signUp EXCEPT ![s] = x]
      BY <1>3, <2>1, <2>2
    <2> QED BY <1>1, <2>3, <2>4, <2>5, <2>6, SignUpOnly
  <1>4. ASSUME NEW u \in ByEmail(a), MayLink(u), signUp' = [signUp EXCEPT ![s] = [NoSignUp EXCEPT
                     !.pc = "link", !.social = TRUE, !.email = a, !.user = u, !.prefix = "found"]]
        PROVE  AccountInv'
    <2>1. PICK x : x = [NoSignUp EXCEPT !.pc = "link", !.social = TRUE, !.email = a, !.user = u, !.prefix = "found"]
      OBVIOUS
    <2>2. u \in Made /\ u \in Accounts /\ u # NoAccount /\ account[u].verified
      BY <1>4, AccountAssumption DEF ByEmail, Made, MayLink
    <2>3. /\ x \in SignUpState /\ x.pc = "link" /\ x.social /\ x.email = a /\ x.user = u /\ x.prefix = "found"
      BY <2>1, <2>2 DEF NoSignUp, SignUpState, Prefixes
    <2>4. Stage(x)
      BY <2>2, <2>3 DEF Stage
    <2>5. \A v \in Made : Owns(x, v) <=> Owns(signUp[s], v)
      BY <1>2, <2>3, NobodyOwns DEF Owns
    <2>6. signUp' = [signUp EXCEPT ![s] = x]
      BY <1>4, <2>1
    <2> QED BY <1>1, <2>3, <2>4, <2>5, <2>6, SignUpOnly
  <1> QED BY <1>3, <1>4 DEF SignInSocial

\* The slot is free again, or the handler has no account and ends.
LEMMA SignUpEnds ==
    ASSUME AccountInv, NEW s \in SignUps, signUp[s].user = NoAccount, signUp' = [signUp EXCEPT ![s] = NoSignUp],
           UNCHANGED <<account, social, consented, opened, link, click, change, cutShort>>
    PROVE  AccountInv'
  <1>1. Stage(NoSignUp)
    BY FreshState DEF Stage
  <1>2. \A u \in Made : Owns(NoSignUp, u) <=> Owns(signUp[s], u)
    BY FreshState, NobodyOwns
  <1> QED BY <1>1, <1>2, FreshState, SignUpOnly

LEMMA CountAccountsStep ==
    ASSUME AccountInv, NEW s \in SignUps, CountAccounts(s)
    PROVE  AccountInv'
  <1>1. UNCHANGED <<account, social, consented, opened, link, click, change, cutShort>>
    BY DEF CountAccounts
  <1>2. /\ signUp[s] \in SignUpState /\ signUp[s].pc = "create" /\ signUp[s].user = NoAccount
        /\ signUp[s].email \in Addresses /\ signUp[s].prefix # "found"
    BY AtSignUp DEF CountAccounts, Stage
  <1>3. CASE ByEmail(signUp[s].email) # {}
    <2>1. signUp' = [signUp EXCEPT ![s] = NoSignUp]
      BY <1>3 DEF CountAccounts
    <2> QED BY <1>1, <1>2, <2>1, SignUpEnds
  <1>4. CASE ByEmail(signUp[s].email) = {}
    <2>1. PICK n \in Nat : n = Cardinality(Made) + 1 /\ n > 0
      BY AtSignUp, FS_CardinalityType
    <2>2. PICK x : x = [signUp[s] EXCEPT !.pc = "insert", !.number = n]
      OBVIOUS
    <2>3. /\ x \in SignUpState /\ x.pc = "insert" /\ x.number = n /\ x.user = NoAccount
          /\ x.email = signUp[s].email /\ x.prefix = signUp[s].prefix
      BY <1>2, <2>1, <2>2 DEF SignUpState
    <2>4. Stage(x)
      BY <1>2, <2>1, <2>3 DEF Stage
    <2>5. \A u \in Made : Owns(x, u) <=> Owns(signUp[s], u)
      BY <1>2, <2>3, NobodyOwns
    <2>6. signUp' = [signUp EXCEPT ![s] = x]
      BY <1>4, <2>1, <2>2 DEF CountAccounts
    <2> QED BY <1>1, <2>3, <2>4, <2>5, <2>6, SignUpOnly
  <1> QED BY <1>3, <1>4

LEMMA InsertAccountStep ==
    ASSUME AccountInv, NEW s \in SignUps, InsertAccount(s)
    PROVE  AccountInv'
  <1>1. UNCHANGED <<social, consented, opened, link, click, change, cutShort>>
    BY DEF InsertAccount
  <1>2. PICK new : new = signUp[s]
    OBVIOUS
  <1>3. /\ new \in SignUpState /\ new.pc = "insert" /\ new.user = NoAccount /\ new.number > 0
        /\ new.email \in Addresses /\ new.prefix # "found"
    BY <1>2, AtSignUp DEF InsertAccount, Stage
  <1>4. CASE signUp' = [signUp EXCEPT ![s] = NoSignUp] /\ UNCHANGED account
    BY <1>1, <1>2, <1>3, <1>4, SignUpEnds
  <1>5. ASSUME NEW u \in Accounts \ Made,
               account' = [account EXCEPT ![u] = [NoRow EXCEPT
                   !.made = TRUE, !.email = new.email, !.prefix = new.prefix, !.number = new.number]],
               signUp' = [signUp EXCEPT ![s] = [new EXCEPT
                   !.user = u, !.pc = IF new.social THEN "link" ELSE "consent"]]
        PROVE  AccountInv'
    <2>1. PICK row : row = [NoRow EXCEPT
                   !.made = TRUE, !.email = new.email, !.prefix = new.prefix, !.number = new.number]
      OBVIOUS
    <2>2. row \in RowState /\ row.made /\ row.number = new.number /\ row.number > 0
      BY <1>3, <2>1 DEF NoRow, RowState, SignUpState
    <2>3. PICK x : x = [new EXCEPT !.user = u, !.pc = IF new.social THEN "link" ELSE "consent"]
      OBVIOUS
    <2>4. /\ x \in SignUpState /\ x.user = u /\ x.pc = (IF new.social THEN "link" ELSE "consent")
          /\ x.social = new.social /\ x.email = new.email /\ x.prefix = new.prefix
      BY <1>3, <2>3 DEF SignUpState
    <2>5. /\ account' \in [Accounts -> RowState]
          /\ \A v \in Accounts : account'[v] = IF v = u THEN row ELSE account[v]
      BY <1>5, <2>1, <2>2, AtSignUp
    <2>6. Made' = Made \cup {u}
      BY <2>2, <2>5 DEF Made
    <2>7. IsFiniteSet(Made')
      BY <2>6, AtSignUp, FS_AddElement
    <2>8. \A v \in Accounts : account'[v].made <=> account'[v].number > 0
      BY <2>2, <2>5, AtSignUp
    <2>9. \A v \in Made : v # u /\ v \in Made' /\ account'[v] = account[v]
      BY <2>5, <2>6 DEF Made
    <2>10. ~(\E a \in Addresses : social'[a] = u) /\ u # NoAccount
      BY <1>1, AtSignUp, AccountAssumption
    <2>11. Stage(x)'
      BY <1>3, <2>4, <2>6, <2>10 DEF Stage, VerifiedIfLinked
    <2>12. \A v \in Made : /\ VerifiedIfLinked(v) => VerifiedIfLinked(v)'
                           /\ ~Owns(x, v) /\ ~Owns(signUp[s], v)
      BY <1>1, <1>2, <1>3, <2>4, <2>9, NobodyOwns DEF VerifiedIfLinked, Owns
    <2>13. Owns(x, u)
      BY <1>3, <2>4 DEF Owns
    <2>14. /\ social' \in [Addresses -> Accounts \cup {NoAccount}]
           /\ \A a \in Addresses : social'[a] \in Made' \cup {NoAccount}
           /\ consented \subseteq consented' /\ consented' \subseteq Accounts
           /\ opened' \in [Accounts -> {"none", "empty", "full"}]
           /\ \A v \in Made : opened[v] = "full" => opened'[v] = "full"
           /\ cutShort \subseteq cutShort' /\ cutShort' \subseteq Accounts
           /\ link' \in [LinkIds -> LinkState] /\ \A l \in LinkIds : link'[l].live => link'[l].user \in Made'
      BY <1>1, <2>6, AtSignUp
    <2>15. signUp' = [signUp EXCEPT ![s] = x]
      BY <1>5, <2>3
    <2>16. \A v \in Made' : v \in cutShort' \/ Whole(v)' \/ Owns(x, v) \/ (v \in Made /\ ~Owns(signUp[s], v))
      BY <2>6, <2>12, <2>13
    <2>17. /\ \A v \in Made : v \in Made' /\ (account[v].verified => account'[v].verified)
           /\ \A v \in Made : VerifiedIfLinked(v) /\ ~Owns(x, v) => VerifiedIfLinked(v)'
           /\ \A v \in Made : Owns(x, v) => Owns(signUp[s], v)
           /\ UNCHANGED <<click, change>>
      BY <1>1, <2>9, <2>12
    <2> QED BY <2>4, <2>5, <2>7, <2>8, <2>11, <2>14, <2>15, <2>16, <2>17, SignUpMoves
  <1> QED BY <1>2, <1>4, <1>5 DEF InsertAccount

\* A handler with an account moves, the accounts and the links stay.
LEMMA OwnerMoves ==
    ASSUME AccountInv, NEW s \in SignUps, NEW x \in SignUpState, signUp' = [signUp EXCEPT ![s] = x],
           signUp[s].user # NoAccount,
           social' \in [Addresses -> Accounts \cup {NoAccount}],
           \A a \in Addresses : social'[a] \in Made \cup {NoAccount},
           consented \subseteq consented', consented' \subseteq Accounts,
           opened' \in [Accounts -> {"none", "empty", "full"}],
           \A u \in Made : opened[u] = "full" => opened'[u] = "full",
           cutShort \subseteq cutShort', cutShort' \subseteq Accounts,
           UNCHANGED <<account, link, click, change>>, Stage(x)',
           \A u \in Made : VerifiedIfLinked(u) /\ ~Owns(x, u) => VerifiedIfLinked(u)',
           \A u \in Made : Owns(x, u) => Owns(signUp[s], u),
           Owns(x, signUp[s].user) \/ signUp[s].prefix = "found" \/ signUp[s].user \in cutShort'
    PROVE  AccountInv'
  <1>1. Made' = Made
    BY DEF Made
  <1>2. /\ account' \in [Accounts -> RowState] /\ IsFiniteSet(Made')
        /\ \A u \in Accounts : account'[u].made <=> account'[u].number > 0
        /\ \A u \in Made : u \in Made' /\ (account[u].verified => account'[u].verified)
        /\ link' \in [LinkIds -> LinkState] /\ \A l \in LinkIds : link'[l].live => link'[l].user \in Made'
    BY <1>1, AtSignUp
  <1>3. \A u \in Made' : u \in cutShort' \/ Whole(u)' \/ Owns(x, u) \/ (u \in Made /\ ~Owns(signUp[s], u))
    BY <1>1 DEF Owns
  <1> QED BY <1>1, <1>2, <1>3, SignUpMoves

LEMMA LinkOAuthAccountStep ==
    ASSUME AccountInv, NEW s \in SignUps, LinkOAuthAccount(s)
    PROVE  AccountInv'
  <1>1. /\ UNCHANGED <<account, consented, opened, link, click, change, cutShort>>
    BY DEF LinkOAuthAccount
  <1>2. PICK old : old = signUp[s]
    OBVIOUS
  <1>3. /\ old \in SignUpState /\ Stage(old) /\ old.pc = "link" /\ old.social /\ old.email \in Addresses
        /\ old.user # NoAccount /\ old.user \in Made /\ old.user \in Accounts
        /\ old.prefix = "found" => account[old.user].verified
    BY <1>2, AtSignUp DEF LinkOAuthAccount, Stage
  <1>4. PICK x : x = IF old.prefix = "found" THEN NoSignUp ELSE [old EXCEPT !.pc = "consent"]
    OBVIOUS
  <1>5. /\ old.prefix = "found" => x = NoSignUp
        /\ old.prefix # "found" => /\ x \in SignUpState /\ x.pc = "consent" /\ x.user = old.user
                                   /\ x.social /\ x.prefix = old.prefix
    BY <1>3, <1>4 DEF SignUpState
  <1>6. x \in SignUpState /\ Stage(x)'
    <2>1. Made' = Made
      BY <1>1 DEF Made
    <2> QED BY <1>3, <1>5, <2>1, FreshState DEF Stage
  <1>7. signUp' = [signUp EXCEPT ![s] = x]
    BY <1>2, <1>4 DEF LinkOAuthAccount
  <1>8. /\ social' \in [Addresses -> Accounts \cup {NoAccount}]
        /\ \A a \in Addresses : social'[a] \in {social[a], old.user}
    BY <1>2, <1>3, AtSignUp DEF LinkOAuthAccount
  <1>9. \A a \in Addresses : social'[a] \in Made \cup {NoAccount}
    BY <1>3, <1>8, AtSignUp
  <1>10. Owns(x, old.user) \/ old.prefix = "found"
    BY <1>5 DEF Owns
  <1>11. \A u \in Made : Owns(x, u) => Owns(old, u)
    BY <1>5, FreshState, NobodyOwns DEF Owns
  <1>12. \A u \in Made : VerifiedIfLinked(u) /\ ~Owns(x, u) => VerifiedIfLinked(u)'
    <2> SUFFICES ASSUME NEW u \in Made, VerifiedIfLinked(u), ~Owns(x, u), NEW a \in Addresses, social'[a] = u
                 PROVE  account'[u].verified
      BY DEF VerifiedIfLinked
    <2>1. CASE social[a] = u
      BY <1>1, <2>1 DEF VerifiedIfLinked
    <2>2. CASE u = old.user
      BY <1>1, <1>3, <1>10, <2>2
    <2> QED BY <1>8, <2>1, <2>2
  <1>13. /\ consented \subseteq consented' /\ consented' \subseteq Accounts
         /\ opened' \in [Accounts -> {"none", "empty", "full"}]
         /\ \A u \in Made : opened[u] = "full" => opened'[u] = "full"
         /\ cutShort \subseteq cutShort' /\ cutShort' \subseteq Accounts
    BY <1>1, AtSignUp
  <1> QED BY <1>1, <1>2, <1>3, <1>6, <1>7, <1>8, <1>9, <1>10, <1>11, <1>12, <1>13, OwnerMoves

LEMMA RecordConsentStep ==
    ASSUME AccountInv, NEW s \in SignUps, RecordConsent(s)
    PROVE  AccountInv'
  <1>1. UNCHANGED <<account, social, opened, link, click, change, cutShort>>
    BY DEF RecordConsent
  <1>2. PICK old : old = signUp[s]
    OBVIOUS
  <1>3. /\ old \in SignUpState /\ Stage(old) /\ old.pc = "consent" /\ old.prefix # "found"
        /\ old.user # NoAccount /\ old.user \in Made /\ old.user \in Accounts
    BY <1>2, AtSignUp DEF RecordConsent, Stage
  <1>4. PICK x : x = [old EXCEPT !.pc = "open"]
    OBVIOUS
  <1>5. /\ x \in SignUpState /\ x.pc = "open" /\ x.user = old.user /\ x.social = old.social
        /\ x.prefix = old.prefix
    BY <1>3, <1>4 DEF SignUpState
  <1>6. signUp' = [signUp EXCEPT ![s] = x]
    BY <1>2, <1>4, AtSignUp DEF RecordConsent, AccountInv, AccountTypes
  <1>7. consented' = consented \cup {old.user}
    BY <1>2 DEF RecordConsent
  <1>8. Made' = Made /\ \A u \in Made : (VerifiedIfLinked(u) <=> VerifiedIfLinked(u)')
    BY <1>1 DEF Made, VerifiedIfLinked
  <1>9. Stage(x)'
    BY <1>3, <1>5, <1>7, <1>8 DEF Stage
  <1>10. /\ \A u \in Made : Owns(x, u) => Owns(old, u)
         /\ Owns(x, old.user)
    BY <1>3, <1>5 DEF Owns
  <1>11. /\ social' \in [Addresses -> Accounts \cup {NoAccount}]
         /\ \A a \in Addresses : social'[a] \in Made \cup {NoAccount}
         /\ consented \subseteq consented' /\ consented' \subseteq Accounts
         /\ opened' \in [Accounts -> {"none", "empty", "full"}]
         /\ \A u \in Made : opened[u] = "full" => opened'[u] = "full"
         /\ cutShort \subseteq cutShort' /\ cutShort' \subseteq Accounts
    BY <1>1, <1>3, <1>7, AtSignUp
  <1> QED BY <1>1, <1>2, <1>3, <1>5, <1>6, <1>8, <1>9, <1>10, <1>11, OwnerMoves

LEMMA OpenForSignupStep ==
    ASSUME AccountInv, NEW s \in SignUps, OpenForSignup(s)
    PROVE  AccountInv'
  <1>1. UNCHANGED <<account, social, consented, link, click, change, cutShort>>
    BY DEF OpenForSignup
  <1>2. PICK old : old = signUp[s]
    OBVIOUS
  <1>3. /\ old \in SignUpState /\ Stage(old) /\ old.pc = "open" /\ old.prefix # "found"
        /\ old.user # NoAccount /\ old.user \in Made /\ old.user \in Accounts /\ old.user \in consented
    BY <1>2, AtSignUp DEF OpenForSignup, Stage
  <1>4. PICK x : x = [old EXCEPT !.pc = IF old.social THEN "verify" ELSE "mail"]
    OBVIOUS
  <1>5. /\ x \in SignUpState /\ x.pc = (IF old.social THEN "verify" ELSE "mail") /\ x.user = old.user
        /\ x.social = old.social /\ x.prefix = old.prefix
    BY <1>3, <1>4 DEF SignUpState
  <1>6. signUp' = [signUp EXCEPT ![s] = x]
    BY <1>2, <1>4, AtSignUp DEF OpenForSignup, AccountInv, AccountTypes
  <1>7. /\ opened' \in [Accounts -> {"none", "empty", "full"}]
        /\ \A u \in Accounts : opened'[u] = IF u = old.user THEN "full" ELSE opened[u]
    <2>1. opened' = [opened EXCEPT ![old.user] = "full"]
      BY <1>2, <1>3 DEF OpenForSignup
    <2> QED BY <2>1, AtSignUp
  <1>8. Made' = Made /\ Made \subseteq Accounts /\ \A u \in Made : (VerifiedIfLinked(u) <=> VerifiedIfLinked(u)')
    BY <1>1 DEF Made, VerifiedIfLinked
  <1>9. Stage(x)'
    BY <1>1, <1>3, <1>5, <1>7, <1>8 DEF Stage
  <1>10. /\ \A u \in Made : Owns(x, u) => Owns(old, u)
         /\ Owns(x, old.user)
    BY <1>3, <1>5 DEF Owns
  <1>11. /\ social' \in [Addresses -> Accounts \cup {NoAccount}]
         /\ \A a \in Addresses : social'[a] \in Made \cup {NoAccount}
         /\ consented \subseteq consented' /\ consented' \subseteq Accounts
         /\ \A u \in Made : opened[u] = "full" => opened'[u] = "full"
         /\ cutShort \subseteq cutShort' /\ cutShort' \subseteq Accounts
    BY <1>1, <1>7, <1>8, AtSignUp
  <1> QED BY <1>1, <1>2, <1>3, <1>5, <1>6, <1>7, <1>8, <1>9, <1>10, <1>11, OwnerMoves

LEMMA SignUpDiesStep ==
    ASSUME AccountInv, NEW s \in SignUps, SignUpDies(s)
    PROVE  AccountInv'
  <1>1. UNCHANGED <<account, social, consented, opened, link, click, change>>
    BY DEF SignUpDies
  <1>2. signUp[s].user # NoAccount /\ signUp[s].user \in Accounts
    BY AtSignUp DEF SignUpDies
  <1>3. /\ cutShort \subseteq cutShort' /\ cutShort' \subseteq Accounts
        /\ signUp[s].prefix = "found" \/ signUp[s].user \in cutShort'
    BY <1>2, AtSignUp DEF SignUpDies
  <1>4. signUp' = [signUp EXCEPT ![s] = NoSignUp]
    BY DEF SignUpDies
  <1>5. Stage(NoSignUp)' /\ \A u \in Made : ~Owns(NoSignUp, u)
    BY FreshState, NobodyOwns DEF Stage
  <1>6. \A u \in Made : VerifiedIfLinked(u) <=> VerifiedIfLinked(u)'
    BY <1>1 DEF VerifiedIfLinked
  <1>7. /\ social' \in [Addresses -> Accounts \cup {NoAccount}]
        /\ \A a \in Addresses : social'[a] \in Made \cup {NoAccount}
        /\ consented \subseteq consented' /\ consented' \subseteq Accounts
        /\ opened' \in [Accounts -> {"none", "empty", "full"}]
        /\ \A u \in Made : opened[u] = "full" => opened'[u] = "full"
    BY <1>1, AtSignUp
  <1> QED BY <1>1, <1>2, <1>3, <1>4, <1>5, <1>6, <1>7, FreshState, OwnerMoves

\* A link is mailed to an account that was made.
LEMMA LinkMailed ==
    ASSUME AccountInv, NEW u \in Made, NEW to \in Addresses \cup {NoAddress}, SendLink(u, to)
    PROVE  link' \in [LinkIds -> LinkState] /\ \A l \in LinkIds : link'[l].live => link'[l].user \in Made
  <1>1. PICK l \in LinkIds : link' = [link EXCEPT ![l] = [user |-> u, to |-> to, live |-> TRUE]]
    BY DEF SendLink, Fresh
  <1>2. [user |-> u, to |-> to, live |-> TRUE] \in LinkState
    BY DEF LinkState, Made
  <1> QED BY <1>1, <1>2 DEF AccountInv, AccountTypes, Named

\* Rows stay made and verified.
RowsGrow ==
    /\ account' \in [Accounts -> RowState]
    /\ \A u \in Accounts : /\ account'[u].made = account[u].made /\ account'[u].number = account[u].number
                           /\ account[u].verified => account'[u].verified

\* The last step of a sign-up: the account it leaves is whole.
LEMMA SignUpThrough ==
    ASSUME AccountInv, NEW s \in SignUps, signUp' = [signUp EXCEPT ![s] = NoSignUp],
           NEW owner \in Made, signUp[s].user = owner, Whole(owner)',
           RowsGrow, link' \in [LinkIds -> LinkState], \A l \in LinkIds : link'[l].live => link'[l].user \in Made,
           UNCHANGED <<social, consented, opened, click, change, cutShort>>
    PROVE  AccountInv'
  <1>1. Made' = Made /\ Made \subseteq Accounts
    BY DEF Made, RowsGrow
  <1>2. Stage(NoSignUp)' /\ \A u \in Made : ~Owns(NoSignUp, u)
    BY FreshState, NobodyOwns DEF Stage
  <1>3. \A u \in Made : VerifiedIfLinked(u) => VerifiedIfLinked(u)'
    BY <1>1 DEF VerifiedIfLinked, RowsGrow
  <1>4. \A u \in Made' : Whole(u)' \/ (u \in Made /\ ~Owns(signUp[s], u))
    BY <1>1 DEF Owns
  <1>5. /\ account' \in [Accounts -> RowState] /\ IsFiniteSet(Made')
        /\ \A u \in Accounts : account'[u].made <=> account'[u].number > 0
        /\ \A u \in Made : u \in Made' /\ (account[u].verified => account'[u].verified)
        /\ social' \in [Addresses -> Accounts \cup {NoAccount}]
        /\ \A a \in Addresses : social'[a] \in Made' \cup {NoAccount}
        /\ consented \subseteq consented' /\ consented' \subseteq Accounts
        /\ opened' \in [Accounts -> {"none", "empty", "full"}]
        /\ \A u \in Made : opened[u] = "full" => opened'[u] = "full"
        /\ cutShort \subseteq cutShort' /\ cutShort' \subseteq Accounts
        /\ \A l \in LinkIds : link'[l].live => link'[l].user \in Made'
    BY <1>1, AtSignUp DEF RowsGrow
  <1> QED BY <1>2, <1>3, <1>4, <1>5, FreshState, SignUpMoves

LEMMA MailSignUpStep ==
    ASSUME AccountInv, NEW s \in SignUps, MailSignUp(s)
    PROVE  AccountInv'
  <1>1. UNCHANGED <<account, social, consented, opened, click, change, cutShort>>
    BY DEF MailSignUp
  <1>2. PICK u : u = signUp[s].user
    OBVIOUS
  <1>3. signUp[s] \in SignUpState /\ u \in Made /\ Whole(u)
    BY <1>2, AtSignUp DEF MailSignUp, Stage, Whole
  <1>4. Whole(u)'
    BY <1>1, <1>3 DEF Whole, VerifiedIfLinked
  <1>5. link' \in [LinkIds -> LinkState] /\ \A l \in LinkIds : link'[l].live => link'[l].user \in Made
    <2>1. signUp[s].email \in Addresses \cup {NoAddress}
      BY <1>3 DEF SignUpState
    <2> QED BY <1>2, <1>3, <2>1, LinkMailed DEF MailSignUp
  <1>6. signUp' = [signUp EXCEPT ![s] = NoSignUp]
    BY DEF MailSignUp
  <1>7. RowsGrow
    BY <1>1, AtSignUp DEF RowsGrow
  <1> QED BY <1>1, <1>2, <1>3, <1>4, <1>5, <1>6, <1>7, SignUpThrough

LEMMA VerifySocialStep ==
    ASSUME AccountInv, NEW s \in SignUps, VerifySocial(s)
    PROVE  AccountInv'
  <1>1. UNCHANGED <<social, consented, opened, link, click, change, cutShort>>
    BY DEF VerifySocial
  <1>2. PICK u : u = signUp[s].user
    OBVIOUS
  <1>3. signUp[s].pc = "verify" /\ u \in Made /\ u \in Accounts /\ u \in consented /\ opened[u] = "full"
    BY <1>2, AtSignUp DEF VerifySocial, Stage
  <1>4. PICK row : row = [account[u] EXCEPT !.verified = TRUE]
    OBVIOUS
  <1>5. row \in RowState /\ row.verified /\ row.made = account[u].made /\ row.number = account[u].number
    <2>1. account[u] \in RowState
      BY <1>3, AtSignUp
    <2> QED BY <1>4, <2>1 DEF RowState
  <1>6. /\ account' \in [Accounts -> RowState]
        /\ \A v \in Accounts : account'[v] = IF v = u THEN row ELSE account[v]
    BY <1>2, <1>3, <1>4, <1>5, AtSignUp DEF VerifySocial
  <1>7. Whole(u)'
    BY <1>1, <1>3, <1>5, <1>6 DEF Whole, VerifiedIfLinked
  <1>8. signUp' = [signUp EXCEPT ![s] = NoSignUp]
    BY DEF VerifySocial
  <1>9. RowsGrow
    BY <1>5, <1>6 DEF RowsGrow
  <1>10. link' \in [LinkIds -> LinkState] /\ \A l \in LinkIds : link'[l].live => link'[l].user \in Made
    BY <1>1, AtSignUp
  <1> QED BY <1>1, <1>2, <1>3, <1>7, <1>8, <1>9, <1>10, SignUpThrough

\* Beside the sign-ups: the rows of accounts, the links, and who follows them.
LEMMA AroundHolds ==
    ASSUME AccountInv
    PROVE  /\ Around /\ Made \subseteq Accounts /\ account \in [Accounts -> RowState]
           /\ \A u \in Accounts : account[u].made <=> account[u].number > 0
  BY DEF AccountInv, AccountTypes, Named, Around, Made

\* A row changes and stays made; nothing else does, or the click or the change
\* that wrote it.
LEMMA RowWritten ==
    ASSUME AccountInv, NEW u \in Made, NEW row \in RowState, account' = [account EXCEPT ![u] = row],
           row.made = account[u].made, row.number = account[u].number, account[u].verified => row.verified,
           UNCHANGED <<social, consented, opened, link, signUp, cutShort>>,
           click' \in [Clicks -> ClickState], change' \in ChangeState,
           \A c \in Clicks : click'[c].pc # "idle" => click'[c].user \in Made /\ click'[c].link \in LinkIds,
           change'.pc # "idle" => change'.user \in Made
    PROVE  AccountInv'
  <1>1. /\ account' \in [Accounts -> RowState]
        /\ \A v \in Accounts : account'[v] = IF v = u THEN row ELSE account[v]
    BY AroundHolds
  <1>2. \A v \in Accounts : /\ account'[v].made = account[v].made /\ account'[v].number = account[v].number
                             /\ account[v].verified => account'[v].verified
    BY <1>1
  <1>3. Made' = Made
    BY <1>2 DEF Made
  <1>4. Around'
    BY <1>3, AroundHolds DEF Around
  <1> QED BY <1>1, <1>2, <1>4, OffSignUp

\* No row changes.
LEMMA RowsKept ==
    ASSUME AccountInv, UNCHANGED <<account, social, consented, opened, signUp, cutShort>>, Around'
    PROVE  AccountInv'
  BY AroundHolds, OffSignUp

LEMMA SameMade == account' = account => Made' = Made
  BY DEF Made

LEMMA ResendStep ==
    ASSUME AccountInv, NEW u \in Accounts, Resend(u)
    PROVE  AccountInv'
  <1>1. account[u].email \in Addresses \cup {NoAddress} /\ u \in Made
    BY AroundHolds DEF Resend, RowState
  <1>2. link' \in [LinkIds -> LinkState] /\ \A l \in LinkIds : link'[l].live => link'[l].user \in Made
    BY <1>1, LinkMailed DEF Resend
  <1>3. UNCHANGED <<account, social, consented, opened, signUp, click, change, cutShort>>
    BY DEF Resend
  <1>4. Around'
    BY <1>2, <1>3, SameMade, AroundHolds DEF Around
  <1> QED BY <1>3, <1>4, RowsKept

LEMMA MailChangeStep ==
    ASSUME AccountInv, MailChange
    PROVE  AccountInv'
  <1>1. change.user \in Made /\ change.to \in Addresses \cup {NoAddress}
    BY AroundHolds DEF MailChange, Around, ChangeState
  <1>2. link' \in [LinkIds -> LinkState] /\ \A l \in LinkIds : link'[l].live => link'[l].user \in Made
    BY <1>1, LinkMailed DEF MailChange
  <1>3. UNCHANGED <<account, social, consented, opened, signUp, click, cutShort>> /\ change' = NoChange
    BY DEF MailChange
  <1>4. Around'
    BY <1>2, <1>3, SameMade, AroundHolds, FreshState DEF Around
  <1> QED BY <1>3, <1>4, RowsKept

LEMMA RequestEmailChangeStep ==
    ASSUME AccountInv, NEW u \in Accounts, NEW a \in Addresses, RequestEmailChange(u, a)
    PROVE  AccountInv'
  <1>1. u \in Made
    BY DEF RequestEmailChange, CanSignIn, Made
  <1>2. /\ UNCHANGED <<account, social, consented, opened, link, signUp, click, cutShort>>
        /\ change' = [pc |-> "set", user |-> u, to |-> a]
    BY DEF RequestEmailChange
  <1>3. change' \in ChangeState /\ change'.user = u
    BY <1>2 DEF ChangeState
  <1>4. Around'
    BY <1>1, <1>2, <1>3, SameMade, AroundHolds DEF Around
  <1> QED BY <1>2, <1>4, RowsKept

LEMMA SetPendingEmailStep ==
    ASSUME AccountInv, SetPendingEmail
    PROVE  AccountInv'
  <1>1. PICK u : u = change.user
    OBVIOUS
  <1>2. u \in Made /\ u \in Accounts /\ change \in ChangeState
    BY <1>1, AroundHolds DEF SetPendingEmail, Around
  <1>3. PICK row : row = [account[u] EXCEPT !.pending = change.to]
    OBVIOUS
  <1>4. /\ row \in RowState /\ row.made = account[u].made /\ row.number = account[u].number
        /\ row.verified = account[u].verified
    BY <1>2, <1>3, AroundHolds DEF RowState, ChangeState
  <1>5. account' = [account EXCEPT ![u] = row]
    BY <1>1, <1>2, <1>3, AroundHolds DEF SetPendingEmail
  <1>6. /\ UNCHANGED <<social, consented, opened, link, signUp, click, cutShort>>
        /\ change' \in ChangeState /\ change'.user = u
    BY <1>1, <1>2 DEF SetPendingEmail, ChangeState
  <1>7. /\ click' \in [Clicks -> ClickState]
        /\ \A c \in Clicks : click'[c].pc # "idle" => click'[c].user \in Made /\ click'[c].link \in LinkIds
    BY <1>6, AroundHolds DEF Around
  <1> QED BY <1>2, <1>4, <1>5, <1>6, <1>7, RowWritten

LEMMA DeleteAccountStep ==
    ASSUME AccountInv, NEW u \in Accounts, DeleteAccount(u)
    PROVE  AccountInv'
  <1>1. u \in Made
    BY DEF DeleteAccount, CanSignIn, Made
  <1>2. PICK row : row = [account[u] EXCEPT !.deleted = TRUE, !.email = NoAddress]
    OBVIOUS
  <1>3. /\ row \in RowState /\ row.made = account[u].made /\ row.number = account[u].number
        /\ row.verified = account[u].verified
    BY <1>2, AroundHolds DEF RowState
  <1>4. account' = [account EXCEPT ![u] = row]
    BY <1>2, AroundHolds DEF DeleteAccount
  <1>5. UNCHANGED <<social, consented, opened, link, signUp, click, change, cutShort>>
    BY DEF DeleteAccount
  <1>6. /\ click' \in [Clicks -> ClickState] /\ change' \in ChangeState
        /\ \A c \in Clicks : click'[c].pc # "idle" => click'[c].user \in Made /\ click'[c].link \in LinkIds
        /\ change'.pc # "idle" => change'.user \in Made
    BY <1>5, AroundHolds DEF Around
  <1> QED BY <1>1, <1>3, <1>4, <1>5, <1>6, RowWritten

\* A click moves on with the account it has read.
LEMMA ClickMoves ==
    ASSUME AccountInv, NEW c \in Clicks, NEW x \in ClickState, click' = [click EXCEPT ![c] = x],
           x.pc # "idle" => x.user \in Made /\ x.link \in LinkIds
    PROVE  /\ click' \in [Clicks -> ClickState]
           /\ \A d \in Clicks : click'[d].pc # "idle" => click'[d].user \in Made /\ click'[d].link \in LinkIds
  <1>1. /\ click' \in [Clicks -> ClickState]
        /\ \A d \in Clicks : click'[d] = IF d = c THEN x ELSE click[d]
    BY AroundHolds DEF Around
  <1> QED BY <1>1, AroundHolds DEF Around

LEMMA OpenLinkStep ==
    ASSUME AccountInv, NEW c \in Clicks, NEW l \in LinkIds, OpenLink(c, l)
    PROVE  AccountInv'
  <1>1. PICK u : u = link[l].user
    OBVIOUS
  <1>2. u \in Made /\ u \in Accounts /\ account[u] \in RowState
    BY <1>1, AroundHolds DEF OpenLink, Around
  <1>3. PICK x : x = [pc |-> IF account[u].pending = NoAddress THEN "mark" ELSE "apply",
                      link |-> l, user |-> u, to |-> account[u].pending]
    OBVIOUS
  <1>4. x \in ClickState /\ x.user = u /\ x.link = l
    BY <1>2, <1>3 DEF ClickState, RowState
  <1>5. /\ click' = [click EXCEPT ![c] = x]
        /\ UNCHANGED <<account, social, consented, opened, link, signUp, change, cutShort>>
    BY <1>1, <1>3 DEF OpenLink
  <1>6. /\ click' \in [Clicks -> ClickState]
        /\ \A d \in Clicks : click'[d].pc # "idle" => click'[d].user \in Made /\ click'[d].link \in LinkIds
    BY <1>2, <1>4, <1>5, ClickMoves
  <1>7. Around'
    BY <1>5, <1>6, SameMade, AroundHolds DEF Around
  <1> QED BY <1>5, <1>7, RowsKept

\* A click writes its account and goes on to spend the link.
LEMMA ClickWrites ==
    ASSUME AccountInv, NEW c \in Clicks, click[c].pc # "idle", NEW row, row \in RowState,
           account' = [account EXCEPT ![click[c].user] = row],
           row.made = account[click[c].user].made, row.number = account[click[c].user].number, row.verified,
           click' = [click EXCEPT ![c] = [click[c] EXCEPT !.pc = "spend"]],
           UNCHANGED <<social, consented, opened, link, signUp, change, cutShort>>
    PROVE  AccountInv'
  <1>1. PICK u, x : u = click[c].user /\ x = [click[c] EXCEPT !.pc = "spend"]
    OBVIOUS
  <1>2. click[c] \in ClickState /\ u \in Made /\ click[c].link \in LinkIds
    BY <1>1, AroundHolds DEF Around
  <1>3. x \in ClickState /\ x.user \in Made /\ x.link \in LinkIds
    BY <1>1, <1>2 DEF ClickState
  <1>4. /\ click' \in [Clicks -> ClickState]
        /\ \A d \in Clicks : click'[d].pc # "idle" => click'[d].user \in Made /\ click'[d].link \in LinkIds
    BY <1>1, <1>3, ClickMoves
  <1>5. change' \in ChangeState /\ (change'.pc # "idle" => change'.user \in Made)
    BY AroundHolds DEF Around
  <1> QED BY <1>1, <1>2, <1>4, <1>5, RowWritten

LEMMA ClickEnds ==
    ASSUME AccountInv, NEW c \in Clicks, click' = [click EXCEPT ![c] = NoClick],
           UNCHANGED <<account, social, consented, opened, signUp, change, cutShort>>,
           link' \in [LinkIds -> LinkState],
           \A l \in LinkIds : link'[l].live => link[l].live /\ link'[l].user = link[l].user
    PROVE  AccountInv'
  <1>1. /\ click' \in [Clicks -> ClickState]
        /\ \A d \in Clicks : click'[d].pc # "idle" => click'[d].user \in Made /\ click'[d].link \in LinkIds
    BY FreshState, ClickMoves
  <1>2. Around'
    BY <1>1, SameMade, AroundHolds DEF Around
  <1> QED BY <1>2, RowsKept

LEMMA ApplyPendingEmailStep ==
    ASSUME AccountInv, NEW c \in Clicks, ApplyPendingEmail(c)
    PROVE  AccountInv'
  <1>1. UNCHANGED <<social, consented, opened, link, signUp, change, cutShort>>
    BY DEF ApplyPendingEmail
  <1>2. PICK u : u = click[c].user
    OBVIOUS
  <1>3. click[c].pc = "apply" /\ click[c] \in ClickState /\ u \in Made /\ u \in Accounts
    BY <1>2, AroundHolds DEF ApplyPendingEmail, Around
  <1>4. CASE ByEmail(click[c].to) \ {u} # {}
    <2>1. click' = [click EXCEPT ![c] = NoClick] /\ UNCHANGED account
      BY <1>2, <1>4 DEF ApplyPendingEmail
    <2> QED BY <1>1, <2>1, ClickEnds, AroundHolds DEF Around
  <1>5. CASE ByEmail(click[c].to) \ {u} = {}
    <2>1. PICK row : row = [account[u] EXCEPT !.email = click[c].to, !.pending = NoAddress, !.verified = TRUE]
      OBVIOUS
    <2>2. row \in RowState /\ row.made = account[u].made /\ row.number = account[u].number /\ row.verified
      <3>1. account[u] \in RowState
        BY <1>3, AroundHolds
      <3>2. click[c].to \in Addresses \cup {NoAddress}
        BY <1>3 DEF ClickState
      <3> QED BY <2>1, <3>1, <3>2 DEF RowState
    <2>3. account' = [account EXCEPT ![u] = row]
      BY <1>2, <1>5, <2>1 DEF ApplyPendingEmail
    <2>4. click' = [click EXCEPT ![c] = [click[c] EXCEPT !.pc = "spend"]]
      BY <1>2, <1>5, AroundHolds DEF ApplyPendingEmail, Around
    <2> QED BY <1>1, <1>2, <1>3, <2>2, <2>3, <2>4, ClickWrites
  <1> QED BY <1>4, <1>5

LEMMA MarkEmailVerifiedStep ==
    ASSUME AccountInv, NEW c \in Clicks, MarkEmailVerified(c)
    PROVE  AccountInv'
  <1>1. UNCHANGED <<social, consented, opened, link, signUp, change, cutShort>>
    BY DEF MarkEmailVerified
  <1>2. PICK u : u = click[c].user
    OBVIOUS
  <1>3. click[c].pc = "mark" /\ u \in Made /\ u \in Accounts
    BY <1>2, AroundHolds DEF MarkEmailVerified, Around
  <1>4. PICK row : row = [account[u] EXCEPT !.verified = TRUE]
    OBVIOUS
  <1>5. row \in RowState /\ row.made = account[u].made /\ row.number = account[u].number /\ row.verified
    BY <1>3, <1>4, AroundHolds DEF RowState
  <1>6. account' = [account EXCEPT ![u] = row]
    BY <1>2, <1>3, <1>4, AroundHolds DEF MarkEmailVerified
  <1>7. click' = [click EXCEPT ![c] = [click[c] EXCEPT !.pc = "spend"]]
    BY AroundHolds DEF MarkEmailVerified, Around
  <1> QED BY <1>1, <1>2, <1>3, <1>5, <1>6, <1>7, ClickWrites

\* A link that is spent, or expires, stays the link it was.
LEMMA LinkSpent ==
    ASSUME AccountInv, NEW l \in LinkIds, link' = [link EXCEPT ![l].live = FALSE]
    PROVE  /\ link' \in [LinkIds -> LinkState]
           /\ \A m \in LinkIds : link'[m].live => link[m].live /\ link'[m].user = link[m].user
  <1>1. PICK row : row = [link[l] EXCEPT !.live = FALSE]
    OBVIOUS
  <1>2. row \in LinkState /\ ~row.live
    BY <1>1, AroundHolds DEF Around, LinkState
  <1>3. link' = [link EXCEPT ![l] = row]
    BY <1>1, AroundHolds DEF Around
  <1> QED BY <1>2, <1>3, AroundHolds DEF Around

LEMMA SpendLinkStep ==
    ASSUME AccountInv, NEW c \in Clicks, SpendLink(c)
    PROVE  AccountInv'
  <1>1. click[c].link \in LinkIds
    BY AroundHolds DEF SpendLink, Around
  <1>2. /\ link' \in [LinkIds -> LinkState]
        /\ \A m \in LinkIds : link'[m].live => link[m].live /\ link'[m].user = link[m].user
    BY <1>1, LinkSpent DEF SpendLink
  <1> QED BY <1>2, ClickEnds DEF SpendLink

LEMMA LinkExpiresStep ==
    ASSUME AccountInv, NEW l \in LinkIds, LinkExpires(l)
    PROVE  AccountInv'
  <1>1. /\ link' \in [LinkIds -> LinkState]
        /\ \A m \in LinkIds : link'[m].live => link[m].live /\ link'[m].user = link[m].user
    BY LinkSpent DEF LinkExpires
  <1>2. UNCHANGED <<account, social, consented, opened, signUp, click, change, cutShort>>
    BY DEF LinkExpires
  <1>3. Around'
    BY <1>1, <1>2, SameMade, AroundHolds DEF Around
  <1> QED BY <1>2, <1>3, RowsKept

LEMMA AccountInductive == AccountInv /\ [AccountNext]_accountVars => AccountInv'
  <1> SUFFICES ASSUME AccountInv, [AccountNext]_accountVars
               PROVE  AccountInv'
    OBVIOUS
  <1>1. CASE UNCHANGED accountVars
    BY <1>1, SameMade, AroundHolds, RowsKept DEF accountVars, Around
  <1> QED BY <1>1, RegisterStep, SignInSocialStep, CountAccountsStep, InsertAccountStep, LinkOAuthAccountStep,
             RecordConsentStep, OpenForSignupStep, MailSignUpStep, VerifySocialStep, SignUpDiesStep,
             ResendStep, DeleteAccountStep, RequestEmailChangeStep, SetPendingEmailStep, MailChangeStep,
             OpenLinkStep, ApplyPendingEmailStep, MarkEmailVerifiedStep, SpendLinkStep, LinkExpiresStep
             DEF AccountNext

\* However registrations, social sign-ins, clicks and changes of address
\* interleave, an account whose sign-up is through has its consents and its
\* verification record, and is verified when a provider's identity reaches it
\* (AuthService.register and findOrCreateOAuthUser).
THEOREM SignUpsLeaveWholeAccounts == AccountSpec => [](AccountTypeOK /\ SignUpWhole)
  <1>1. AccountInit => AccountInv
    <2> SUFFICES ASSUME AccountInit PROVE AccountInv
      OBVIOUS
    <2>1. Made = {}
      BY FreshState DEF AccountInit, Made
    <2>2. /\ account \in [Accounts -> RowState] /\ IsFiniteSet(Made)
          /\ \A u \in Accounts : account[u].made <=> account[u].number > 0
      BY <2>1, FreshState, FS_EmptySet DEF AccountInit
    <2>3. /\ link \in [LinkIds -> LinkState] /\ signUp \in [SignUps -> SignUpState]
          /\ click \in [Clicks -> ClickState] /\ change \in ChangeState
      BY FreshState DEF AccountInit
    <2>4. AccountTypes
      BY <2>2, <2>3 DEF AccountInit, AccountTypes
    <2>5. Named
      BY FreshState DEF AccountInit, Named
    <2>6. Stages
      BY FreshState DEF AccountInit, Stages, Stage
    <2> QED BY <2>1, <2>4, <2>5, <2>6 DEF AccountInv, OneOwner, WholeOrOwned
  <1>2. AccountInv => AccountTypeOK /\ SignUpWhole
    <2> SUFFICES ASSUME AccountInv PROVE AccountTypeOK /\ SignUpWhole
      OBVIOUS
    <2>1. AccountTypeOK
      BY DEF AccountTypeOK, AccountInv, AccountTypes, RowState, Named, Made
    <2>2. SignUpWhole
      BY DEF SignUpWhole, AccountInv, WholeOrOwned, Whole, VerifiedIfLinked, Owns
    <2> QED BY <2>1, <2>2
  <1> QED BY <1>1, <1>2, AccountInductive, PTL DEF AccountSpec

-----------------------------------------------------------------------------
(* Media                                                                   *)

ItemState == [key : Keys, primary : BOOLEAN, sort : 0..MaxSort]
MediaReqState == [pc : Unlocked \cup {"idle", "lock", "insert"}, row : MediaRows \cup {NoMedia},
                  key : Keys \cup {NoMedia}, primary : BOOLEAN, count : Nat, sort : Nat]

MediaTypes ==
    /\ kind \in [Keys -> {"none", "photo", "video"}] /\ stored \subseteq {k \in Keys : kind[k] # "none"}
    /\ media \in [MediaRows -> ItemState \cup {NoMedia}] /\ IsFiniteSet(Gallery)
    /\ thumbnail \in Keys \cup {NoMedia}
    /\ mediaReq \in [MediaRequests -> MediaReqState] /\ mediaRaced \in BOOLEAN
    /\ \A w \in Gallery : kind[media[w].key] # "none"

\* The gallery, as the cap, the partial index and the positions have it.
Slots ==
    /\ Cardinality(Gallery) <= MaxMediaItems
    /\ \A w, x \in Primary : w = x
    /\ \A w, x \in Gallery : w # x => media[w].sort # media[x].sort

\* Under the lock the count may only be too high, and the position is free.
Confirming(x) ==
    /\ x.pc \in {"lock", "insert"} => x.key \in Keys /\ kind[x.key] # "none"
    /\ x.pc = "insert" => /\ Cardinality(Gallery) <= x.count /\ x.count < MaxMediaItems /\ x.sort <= MaxSort
                          /\ \A w \in Gallery : media[w].sort < x.sort
    /\ x.pc \in {"swap", "delete", "promote"} => x.row \in MediaRows
OneInserts == \A g, h \in MediaRequests : mediaReq[g].pc = "insert" /\ mediaReq[h].pc = "insert" => g = h

\* The picture that goes with the gallery.
Shown(k) == IF Primary = {} THEN k = NoMedia ELSE \A w \in Primary : k = media[w].key /\ w \in Photos

\* What setPrimary and remove know of the gallery at each of their steps,
\* when nobody else is at work.
Working(x) ==
    /\ x.pc = "swap" => x.row \in Photos /\ x.key = media[x.row].key
    /\ x.pc = "delete" => Shown(thumbnail) /\ x.row \in Gallery /\ x.primary = media[x.row].primary
    /\ x.pc = "object" => IF x.primary THEN Primary = {} ELSE Shown(thumbnail)
    /\ x.pc = "next" => Primary = {}
    /\ x.pc = "promote" => Primary = {} /\ x.row \in Photos /\ x.key = media[x.row].key
    /\ x.pc = "sync" => Shown(x.key)

Tidy == ~mediaRaced =>
    /\ \A h \in MediaRequests : mediaReq[h].pc \in Unlocked =>
           \A g \in MediaRequests \ {h} : mediaReq[g].pc = "idle"
    /\ (\A h \in MediaRequests : mediaReq[h].pc \notin Unlocked) => Shown(thumbnail)
    /\ \A h \in MediaRequests : Working(mediaReq[h])

MediaInv ==
    MediaTypes /\ Slots /\ (\A h \in MediaRequests : Confirming(mediaReq[h])) /\ OneInserts /\ Tidy

MediaTables ==
    /\ kind \in [Keys -> {"none", "photo", "video"}] /\ stored \subseteq {k \in Keys : kind[k] # "none"}
    /\ media \in [MediaRows -> ItemState \cup {NoMedia}] /\ IsFiniteSet(Gallery)
    /\ thumbnail \in Keys \cup {NoMedia} /\ mediaRaced \in BOOLEAN
    /\ \A w \in Gallery : kind[media[w].key] # "none"

LEMMA MediaHolds ==
    ASSUME MediaInv
    PROVE  /\ MediaTables /\ Slots /\ IsFiniteSet(Gallery) /\ Cardinality(Gallery) \in Nat
           /\ Gallery \subseteq MediaRows /\ Photos \subseteq Gallery /\ Primary \subseteq Gallery
           /\ \A w \in Gallery : media[w] \in ItemState /\ media[w] # NoMedia
  BY FS_CardinalityType DEF MediaInv, MediaTypes, MediaTables, Gallery, Photos, Primary

LEMMA AtMedia ==
    ASSUME MediaInv, NEW h \in MediaRequests
    PROVE  /\ mediaReq[h] \in MediaReqState /\ Confirming(mediaReq[h])
           /\ ~mediaRaced => /\ Working(mediaReq[h])
                             /\ mediaReq[h].pc # "idle" =>
                                    \A g \in MediaRequests \ {h} : mediaReq[g].pc \notin Unlocked
                             /\ mediaReq[h].pc \in Unlocked =>
                                    \A g \in MediaRequests \ {h} : mediaReq[g].pc = "idle"
                             /\ (\A g \in MediaRequests : mediaReq[g].pc \notin Unlocked) => Shown(thumbnail)
  BY DEF MediaInv, MediaTypes, Tidy

\* What is left to show of Tidy when handler h has moved on to x.
Left(h, x) == ~mediaRaced' =>
    /\ ~mediaRaced
    /\ \A g \in MediaRequests \ {h} : mediaReq[g].pc \notin Unlocked
    /\ x.pc \in Unlocked => (\A g \in MediaRequests \ {h} : mediaReq[g].pc = "idle") /\ Working(x)'
    /\ x.pc \notin Unlocked => Shown(thumbnail)'

\* A handler moves, and the gallery only loses rows, unless it was confirming.
LEMMA MediaMoves ==
    ASSUME MediaInv, NEW h \in MediaRequests, NEW x \in MediaReqState, mediaReq' = [mediaReq EXCEPT ![h] = x],
           MediaTables', Slots', UNCHANGED kind,
           \/ mediaReq[h].pc = "insert"
           \/ Gallery' \subseteq Gallery /\ \A w \in Gallery' : media'[w].sort = media[w].sort,
           Confirming(x)', x.pc = "insert" => \A g \in MediaRequests : mediaReq[g].pc # "insert",
           Left(h, x)
    PROVE  MediaInv'
  <1>1. \A g \in MediaRequests : mediaReq'[g] = IF g = h THEN x ELSE mediaReq[g]
    BY DEF MediaInv, MediaTypes
  <1>2. MediaTypes'
    BY DEF MediaTypes, MediaTables, MediaInv
  <1>3. OneInserts'
    BY <1>1 DEF MediaInv, OneInserts
  <1>4. ASSUME NEW g \in MediaRequests PROVE Confirming(mediaReq[g])'
    <2>1. CASE g = h
      BY <1>1, <2>1 DEF Confirming
    <2>2. CASE g # h
      <3>1. PICK y : y = mediaReq[g] /\ y = mediaReq'[g]
        BY <1>1, <2>2
      <3>2. Confirming(y) /\ y \in MediaReqState
        BY <3>1, AtMedia
      <3>3. CASE y.pc = "insert"
        <4>1. Gallery' \subseteq Gallery /\ \A w \in Gallery' : media'[w].sort = media[w].sort
          BY <2>2, <3>1, <3>3 DEF MediaInv, OneInserts
        <4>2. Cardinality(Gallery') <= Cardinality(Gallery) /\ Cardinality(Gallery') \in Nat
          BY <4>1, MediaHolds, FS_Subset, FS_CardinalityType
        <4>3. Cardinality(Gallery') <= y.count
          BY <3>2, <3>3, <4>2, MediaHolds DEF Confirming, MediaReqState
        <4>4. \A w \in Gallery' : media'[w].sort < y.sort
          BY <3>2, <3>3, <4>1 DEF Confirming
        <4>5. y.key \in Keys /\ kind'[y.key] # "none" /\ y.count < MaxMediaItems /\ y.sort <= MaxSort
          BY <3>2, <3>3 DEF Confirming
        <4> QED BY <3>1, <3>3, <4>3, <4>4, <4>5 DEF Confirming
      <3>4. CASE y.pc # "insert"
        BY <3>1, <3>2, <3>4 DEF Confirming
      <3> QED BY <3>3, <3>4
    <2> QED BY <2>1, <2>2
  <1>5. Tidy'
    <2> SUFFICES ASSUME ~mediaRaced'
                 PROVE  /\ \A g \in MediaRequests : mediaReq'[g].pc \in Unlocked =>
                               \A f \in MediaRequests \ {g} : mediaReq'[f].pc = "idle"
                        /\ (\A g \in MediaRequests : mediaReq'[g].pc \notin Unlocked) => Shown(thumbnail)'
                        /\ \A g \in MediaRequests : Working(mediaReq[g])'
      BY DEF Tidy, Shown, Primary, Photos, Gallery
    <2>1. \A g \in MediaRequests : g # h => mediaReq'[g].pc \notin Unlocked
      BY <1>1 DEF Left
    <2>2. \A g \in MediaRequests : mediaReq'[g].pc \in Unlocked =>
               \A f \in MediaRequests \ {g} : mediaReq'[f].pc = "idle"
      BY <1>1, <2>1 DEF Left
    <2>3. (\A g \in MediaRequests : mediaReq'[g].pc \notin Unlocked) => Shown(thumbnail)'
      <3>1. mediaReq'[h].pc = x.pc
        BY <1>1
      <3> QED BY <3>1 DEF Left
    <2>4. ASSUME NEW g \in MediaRequests PROVE Working(mediaReq[g])'
      <3>1. CASE g = h /\ x.pc \in Unlocked
        <4>1. Working(x)'
          BY <3>1 DEF Left
        <4>2. mediaReq'[g] = x
          BY <1>1, <3>1
        <4> QED BY <4>1, <4>2 DEF Working
      <3>2. CASE ~(g = h /\ x.pc \in Unlocked)
        <4>1. mediaReq'[g].pc \notin Unlocked
          BY <1>1, <2>1, <3>2
        <4> QED BY <4>1 DEF Working, Unlocked
      <3> QED BY <3>1, <3>2
    <2> QED BY <2>2, <2>3, <2>4
  <1> QED BY <1>2, <1>3, <1>4, <1>5 DEF MediaInv

\* The rows and the picture stay as they are.
LEMMA SameGallery ==
    ASSUME MediaInv, UNCHANGED <<kind, media, thumbnail>>,
           stored' \subseteq {k \in Keys : kind[k] # "none"}, mediaRaced' \in BOOLEAN
    PROVE  /\ Gallery' = Gallery /\ Photos' = Photos /\ Primary' = Primary
           /\ MediaTables' /\ Slots'
           /\ Shown(thumbnail) <=> Shown(thumbnail)'
  <1>1. Gallery' = Gallery
    BY DEF Gallery
  <1>2. Photos' = Photos /\ Primary' = Primary
    BY <1>1 DEF Photos, Primary
  <1> QED BY <1>1, <1>2, MediaHolds DEF MediaTables, Slots, Shown

LEMMA OnlyReqMoves ==
    ASSUME MediaInv, NEW h \in MediaRequests, NEW x \in MediaReqState, mediaReq' = [mediaReq EXCEPT ![h] = x],
           UNCHANGED <<kind, media, thumbnail>>,
           stored' \subseteq {k \in Keys : kind[k] # "none"}, mediaRaced' \in BOOLEAN,
           Confirming(x), x.pc = "insert" => \A g \in MediaRequests : mediaReq[g].pc # "insert",
           ~mediaRaced' =>
               /\ ~mediaRaced /\ \A g \in MediaRequests \ {h} : mediaReq[g].pc \notin Unlocked
               /\ x.pc \in Unlocked => (\A g \in MediaRequests \ {h} : mediaReq[g].pc = "idle") /\ Working(x)
               /\ x.pc \notin Unlocked => Shown(thumbnail)
    PROVE  MediaInv'
  <1>1. /\ Gallery' = Gallery /\ Photos' = Photos /\ Primary' = Primary /\ MediaTables' /\ Slots'
        /\ Shown(thumbnail) <=> Shown(thumbnail)'
    BY SameGallery
  <1>2. Confirming(x)' /\ (Working(x) <=> Working(x)')
    BY <1>1 DEF Confirming, Working, Shown
  <1>3. Left(h, x)
    BY <1>1, <1>2 DEF Left
  <1> QED BY <1>1, <1>2, <1>3, MediaMoves

LEMMA FreshReq == /\ NoMediaReq \in MediaReqState /\ NoMediaReq.pc = "idle" /\ "idle" \notin Unlocked
                  /\ NoMediaReq.key = NoMedia
  BY DEF NoMediaReq, MediaReqState, Unlocked

\* A handler that starts, and what goes unsaid of the others unless they race.
LEMMA Starts ==
    ASSUME MediaInv, NEW h \in MediaRequests, NEW x \in MediaReqState, MediaStart(h, x)
    PROVE  /\ mediaReq' = [mediaReq EXCEPT ![h] = x] /\ mediaRaced' \in BOOLEAN
           /\ ~mediaRaced' =>
                  /\ ~mediaRaced /\ \A g \in MediaRequests \ {h} : mediaReq[g].pc \notin Unlocked
                  /\ x.pc \in Unlocked => \A g \in MediaRequests \ {h} : mediaReq[g].pc = "idle"
                  /\ Shown(thumbnail)
  <1>1. mediaReq[h].pc = "idle" /\ mediaReq' = [mediaReq EXCEPT ![h] = x]
    BY DEF MediaStart, MediaAt
  <1>2. mediaRaced' \in BOOLEAN
    BY DEF MediaStart, MediaInv, MediaTypes
  <1>3. ~mediaRaced' => /\ ~mediaRaced
                        /\ \A g \in MediaRequests \ {h} :
                               mediaReq[g].pc = "idle" \/ (mediaReq[g].pc \notin Unlocked /\ x.pc \notin Unlocked)
    BY DEF MediaStart, MediaAt, MediaInv, MediaTypes
  <1>4. ~mediaRaced' => \A g \in MediaRequests : mediaReq[g].pc \notin Unlocked
    BY <1>1, <1>3, FreshReq
  <1>5. ~mediaRaced' => Shown(thumbnail)
    BY <1>3, <1>4, AtMedia
  <1> QED BY <1>1, <1>2, <1>3, <1>4, <1>5

LEMMA PresignStep ==
    ASSUME MediaInv, NEW k \in Keys, Presign(k)
    PROVE  MediaInv'
  <1>1. /\ kind[k] = "none" /\ UNCHANGED <<stored, media, thumbnail, mediaReq, mediaRaced>>
        /\ kind' \in [Keys -> {"none", "photo", "video"}]
        /\ \A j \in Keys : j # k => kind'[j] = kind[j]
        /\ kind'[k] # "none"
    BY DEF Presign, MediaInv, MediaTypes
  <1>2. Gallery' = Gallery /\ \A w \in Gallery : kind'[media[w].key] = kind[media[w].key]
    BY <1>1, MediaHolds DEF Gallery, MediaTables, ItemState
  <1>3. Photos' = Photos /\ Primary' = Primary
    BY <1>1, <1>2 DEF Photos, Primary
  <1>4. MediaTypes' /\ Slots' /\ OneInserts'
    BY <1>1, <1>2, <1>3 DEF MediaInv, MediaTypes, Slots, OneInserts
  <1>5. ASSUME NEW h \in MediaRequests PROVE Confirming(mediaReq[h])'
    <2>1. Confirming(mediaReq[h])
      BY AtMedia
    <2>2. \A j \in Keys : kind[j] # "none" => kind'[j] # "none"
      BY <1>1
    <2> QED BY <1>1, <1>2, <2>1, <2>2 DEF Confirming
  <1>6. Tidy'
    BY <1>1, <1>2, <1>3 DEF MediaInv, Tidy, Working, Shown
  <1> QED BY <1>4, <1>5, <1>6 DEF MediaInv

LEMMA UploadStep ==
    ASSUME MediaInv, NEW k \in Keys, Upload(k)
    PROVE  MediaInv'
  <1>1. /\ UNCHANGED <<kind, media, thumbnail, mediaReq, mediaRaced>>
        /\ stored' \subseteq {j \in Keys : kind[j] # "none"}
    BY DEF Upload, MediaInv, MediaTypes
  <1>2. mediaRaced' \in BOOLEAN
    BY <1>1 DEF MediaInv, MediaTypes
  <1>3. /\ Gallery' = Gallery /\ Photos' = Photos /\ Primary' = Primary /\ MediaTables' /\ Slots'
    BY <1>1, <1>2, SameGallery
  <1>4. MediaTypes' /\ OneInserts'
    BY <1>1, <1>3 DEF MediaInv, MediaTypes, MediaTables, OneInserts
  <1>5. \A h \in MediaRequests : Confirming(mediaReq[h])'
    BY <1>1, <1>3 DEF MediaInv, Confirming
  <1>6. Tidy'
    BY <1>1, <1>3 DEF MediaInv, Tidy, Working, Shown
  <1> QED BY <1>3, <1>4, <1>5, <1>6 DEF MediaInv

LEMMA ConfirmHeadStep ==
    ASSUME MediaInv, NEW h \in MediaRequests, NEW k \in Keys, ConfirmHead(h, k)
    PROVE  MediaInv'
  <1>1. PICK x : x = [NoMediaReq EXCEPT !.pc = "lock", !.key = k]
    OBVIOUS
  <1>2. x \in MediaReqState /\ x.pc = "lock" /\ x.key = k /\ x.pc \notin Unlocked
    BY <1>1 DEF NoMediaReq, MediaReqState, Unlocked
  <1>3. MediaStart(h, x) /\ UNCHANGED <<kind, stored, media, thumbnail>> /\ k \in stored
    BY <1>1 DEF ConfirmHead
  <1>4. stored' \subseteq {j \in Keys : kind[j] # "none"} /\ kind[k] # "none"
    BY <1>3, MediaHolds DEF MediaTables
  <1>5. Confirming(x)
    BY <1>2, <1>4 DEF Confirming
  <1> QED BY <1>2, <1>3, <1>4, <1>5, Starts, OnlyReqMoves

\* A handler of a sign that had the gallery to itself ends or goes on.
LEMMA FreeReq == Confirming(NoMediaReq) /\ Working(NoMediaReq)
  BY FreshReq DEF Confirming, Working

\* What was in the lock or the insert leaves the picture as it was.
LEMMA Bystander ==
    ASSUME MediaInv, NEW h \in MediaRequests, mediaReq[h].pc \in {"lock", "insert"}, ~mediaRaced
    PROVE  Shown(thumbnail) /\ \A g \in MediaRequests : mediaReq[g].pc \notin Unlocked
  <1>1. \A g \in MediaRequests : mediaReq[g].pc \notin Unlocked
    BY AtMedia DEF Unlocked
  <1> QED BY <1>1, AtMedia

LEMMA PositionIsFree ==
    ASSUME MediaInv
    PROVE  NextSort \in Nat /\ \A w \in Gallery : media[w].sort < NextSort
  <1>1. CASE Gallery = {}
    BY <1>1 DEF NextSort
  <1>2. CASE Gallery # {}
    <2>1. PICK S : S = {media[w].sort : w \in Gallery}
      OBVIOUS
    <2>2. S \in SUBSET Nat /\ S # {} /\ \A w \in Gallery : media[w].sort \in S
      BY <1>2, <2>1, MediaHolds, MediaAssumption DEF ItemState
    <2>3. IsFiniteSet(S)
      <3>1. PICK f : f = [w \in Gallery |-> media[w].sort]
        OBVIOUS
      <3>2. f \in Surjection(Gallery, S)
        BY <2>1, <3>1 DEF Surjection
      <3> QED BY <3>2, MediaHolds, FS_Surjection
    <2>4. PICK m \in S : \A n \in S : n <= m
      BY <2>2, <2>3, Peak
    <2>5. PICK top : top = CHOOSE s \in S : \A w \in Gallery : media[w].sort <= s
      OBVIOUS
    <2>6. top \in S /\ \A w \in Gallery : media[w].sort <= top
      BY <2>2, <2>4, <2>5
    <2>7. NextSort = 1 + top
      BY <1>2, <2>1, <2>5 DEF NextSort
    <2>8. \A w \in Gallery : media[w].sort \in Nat
      BY <2>2
    <2> QED BY <2>2, <2>6, <2>7, <2>8
  <1> QED BY <1>1, <1>2

LEMMA ConfirmCountStep ==
    ASSUME MediaInv, NEW h \in MediaRequests, ConfirmCount(h)
    PROVE  MediaInv'
  <1>1. /\ mediaReq[h].pc = "lock" /\ UNCHANGED <<kind, stored, media, thumbnail, mediaRaced>>
        /\ mediaReq[h] \in MediaReqState /\ Confirming(mediaReq[h])
        /\ \A g \in MediaRequests : mediaReq[g].pc # "insert"
    BY AtMedia DEF ConfirmCount, MediaAt, LockFree
  <1>2. stored' \subseteq {j \in Keys : kind[j] # "none"} /\ mediaRaced' \in BOOLEAN
    BY <1>1, MediaHolds DEF MediaTables
  <1>3. ~mediaRaced' => /\ ~mediaRaced /\ Shown(thumbnail)
                        /\ \A g \in MediaRequests \ {h} : mediaReq[g].pc \notin Unlocked
    BY <1>1, Bystander
  <1>4. CASE mediaReq' = [mediaReq EXCEPT ![h] = NoMediaReq]
    BY <1>1, <1>2, <1>3, <1>4, FreshReq, FreeReq, OnlyReqMoves
  <1>5. CASE /\ Cardinality(Gallery) < MaxMediaItems /\ NextSort <= MaxSort
             /\ mediaReq' = [mediaReq EXCEPT ![h] = [mediaReq[h] EXCEPT
                    !.pc = "insert", !.count = Cardinality(Gallery), !.sort = NextSort]]
    <2>1. PICK x : x = [mediaReq[h] EXCEPT !.pc = "insert", !.count = Cardinality(Gallery), !.sort = NextSort]
      OBVIOUS
    <2>2. /\ x \in MediaReqState /\ x.pc = "insert" /\ x.count = Cardinality(Gallery) /\ x.sort = NextSort
          /\ x.key = mediaReq[h].key
      BY <1>1, <2>1, MediaHolds, PositionIsFree DEF MediaReqState
    <2>3. Confirming(x)
      <3>1. x.key \in Keys /\ kind[x.key] # "none"
        BY <1>1, <2>2 DEF Confirming
      <3>2. Cardinality(Gallery) <= x.count /\ x.count < MaxMediaItems /\ x.sort <= MaxSort
        BY <1>5, <2>2, MediaHolds
      <3>3. \A w \in Gallery : media[w].sort < x.sort
        BY <2>2, PositionIsFree
      <3> QED BY <2>2, <3>1, <3>2, <3>3 DEF Confirming
    <2>4. x.pc \notin Unlocked /\ mediaReq' = [mediaReq EXCEPT ![h] = x]
      BY <1>5, <2>1, <2>2 DEF Unlocked
    <2> QED BY <1>1, <1>2, <1>3, <2>2, <2>3, <2>4, OnlyReqMoves
  <1> QED BY <1>4, <1>5 DEF ConfirmCount, MediaDone

\* The insert: the cap, a position of its own, and primary only into an empty
\* gallery.
LEMMA ConfirmInsertStep ==
    ASSUME MediaInv, NEW h \in MediaRequests, ConfirmInsert(h)
    PROVE  MediaInv'
  <1>1. PICK old : old = mediaReq[h]
    OBVIOUS
  <1>2. /\ old \in MediaReqState /\ old.pc = "insert" /\ old.key \in Keys /\ kind[old.key] # "none"
        /\ Cardinality(Gallery) <= old.count /\ old.count < MaxMediaItems /\ old.sort <= MaxSort
        /\ \A w \in Gallery : media[w].sort < old.sort
        /\ old.sort \in Nat /\ old.count \in Nat
    BY <1>1, AtMedia DEF ConfirmInsert, MediaAt, Confirming, MediaReqState
  <1>3. PICK first \in BOOLEAN : first = (old.count = 0 /\ kind[old.key] = "photo")
    OBVIOUS
  <1>4. PICK w \in MediaRows \ Gallery :
            media' = [media EXCEPT ![w] = [key |-> old.key, primary |-> first, sort |-> old.sort]]
    BY <1>1, <1>3 DEF ConfirmInsert
  <1>5. PICK item : item = [key |-> old.key, primary |-> first, sort |-> old.sort]
    OBVIOUS
  <1>6. /\ item \in ItemState /\ item # NoMedia /\ item.key = old.key /\ item.primary = first
        /\ item.sort = old.sort
    BY <1>2, <1>5, MediaAssumption DEF ItemState
  <1>7. /\ thumbnail' = (IF first THEN old.key ELSE thumbnail)
        /\ mediaReq' = [mediaReq EXCEPT ![h] = NoMediaReq] /\ UNCHANGED <<kind, stored, mediaRaced>>
    BY <1>1, <1>3 DEF ConfirmInsert, MediaDone
  <1>8. /\ media' \in [MediaRows -> ItemState \cup {NoMedia}]
        /\ \A v \in MediaRows : media'[v] = IF v = w THEN item ELSE media[v]
    BY <1>4, <1>5, <1>6, MediaHolds DEF MediaTables
  <1>9. Gallery' = Gallery \cup {w} /\ w \notin Gallery
    BY <1>4, <1>6, <1>8 DEF Gallery
  <1>10. /\ IsFiniteSet(Gallery') /\ Cardinality(Gallery') = Cardinality(Gallery) + 1
    BY <1>9, MediaHolds, FS_AddElement
  <1>11. \A v \in Gallery : media'[v] = media[v] /\ v # w
    BY <1>8, <1>9, MediaHolds
  <1>12. first => Gallery = {}
    <2>1. Cardinality(Gallery) \in Nat
      BY MediaHolds
    <2>2. first => Cardinality(Gallery) = 0
      <3>1. first => old.count = 0
        BY <1>3
      <3>2. Cardinality(Gallery) <= old.count
        BY <1>2
      <3> QED BY <2>1, <3>1, <3>2
    <2> QED BY <2>2, MediaHolds, FS_EmptySet
  <1>13. Primary' = IF first THEN {w} ELSE Primary
    BY <1>6, <1>8, <1>9, <1>11, <1>12 DEF Primary
  <1>14. Photos \subseteq Photos' /\ (first => w \in Photos')
    BY <1>3, <1>6, <1>7, <1>8, <1>9, <1>11 DEF Photos
  <1>15. MediaTables'
    BY <1>2, <1>6, <1>7, <1>8, <1>9, <1>10, <1>11, MediaHolds DEF MediaTables
  <1>16. Slots'
    <2>1. Cardinality(Gallery') <= MaxMediaItems
      BY <1>2, <1>10, MediaHolds, MediaAssumption
    <2>2. \A v, u \in Primary' : v = u
      BY <1>13, MediaHolds DEF Slots
    <2>3. ASSUME NEW v \in Gallery', NEW u \in Gallery', v # u PROVE media'[v].sort # media'[u].sort
      <3>1. w \in MediaRows /\ media'[w].sort = old.sort
        BY <1>6, <1>8
      <3>2. \A z \in Gallery : media'[z].sort \in Nat /\ media'[z].sort < old.sort
        BY <1>2, <1>11, MediaHolds, MediaAssumption DEF ItemState
      <3>3. CASE v = w
        BY <1>2, <1>9, <2>3, <3>1, <3>2, <3>3
      <3>4. CASE u = w
        BY <1>2, <1>9, <2>3, <3>1, <3>2, <3>4
      <3>5. CASE v # w /\ u # w
        BY <1>9, <1>11, <2>3, <3>5, MediaHolds DEF Slots
      <3> QED BY <3>3, <3>4, <3>5
    <2> QED BY <2>1, <2>2, <2>3 DEF Slots
  <1>17. ~mediaRaced' => /\ ~mediaRaced /\ \A g \in MediaRequests \ {h} : mediaReq[g].pc \notin Unlocked
                         /\ Shown(thumbnail)
    BY <1>1, <1>2, <1>7, Bystander
  <1>18. Shown(thumbnail) => Shown(thumbnail)'
    <2> SUFFICES ASSUME Shown(thumbnail) PROVE Shown(thumbnail)'
      OBVIOUS
    <2>1. CASE first
      <3>1. Primary' = {w} /\ w \in Photos' /\ thumbnail' = media'[w].key
        BY <1>4, <1>6, <1>7, <1>8, <1>13, <1>14, <2>1
      <3> QED BY <3>1 DEF Shown
    <2>2. CASE ~first
      <3>1. Primary' = Primary /\ thumbnail' = thumbnail /\ \A v \in Primary : media'[v] = media[v]
        BY <1>7, <1>11, <1>13, <2>2, MediaHolds
      <3> QED BY <1>14, <3>1 DEF Shown
    <2> QED BY <2>1, <2>2
  <1>19. Left(h, NoMediaReq)
    BY <1>17, <1>18, FreshReq DEF Left
  <1>20. Confirming(NoMediaReq)'
    BY FreshReq DEF Confirming
  <1> QED BY <1>1, <1>2, <1>7, <1>15, <1>16, <1>19, <1>20, FreshReq, MediaMoves

LEMMA SetPrimaryStep ==
    ASSUME MediaInv, NEW h \in MediaRequests, NEW w \in MediaRows, SetPrimary(h, w)
    PROVE  MediaInv'
  <1>1. PICK x : x = [NoMediaReq EXCEPT !.pc = "swap", !.row = w, !.key = media[w].key]
    OBVIOUS
  <1>2. /\ w \in Photos /\ media[w] \in ItemState /\ MediaStart(h, x)
        /\ UNCHANGED <<kind, stored, media, thumbnail>>
    BY <1>1, MediaHolds DEF SetPrimary
  <1>3. /\ x \in MediaReqState /\ x.pc = "swap" /\ x.row = w /\ x.key = media[w].key /\ x.pc \in Unlocked
    BY <1>1, <1>2 DEF NoMediaReq, MediaReqState, Unlocked, ItemState
  <1>4. Confirming(x) /\ Working(x)
    BY <1>2, <1>3 DEF Confirming, Working
  <1>5. stored' \subseteq {j \in Keys : kind[j] # "none"}
    BY <1>2, MediaHolds DEF MediaTables
  <1> QED BY <1>2, <1>3, <1>4, <1>5, Starts, OnlyReqMoves

LEMMA RemoveMediaStep ==
    ASSUME MediaInv, NEW h \in MediaRequests, NEW w \in MediaRows, RemoveMedia(h, w)
    PROVE  MediaInv'
  <1>1. PICK x : x = [NoMediaReq EXCEPT !.pc = "delete", !.row = w, !.key = media[w].key,
                                        !.primary = media[w].primary]
    OBVIOUS
  <1>2. /\ w \in Gallery /\ media[w] \in ItemState /\ MediaStart(h, x)
        /\ UNCHANGED <<kind, stored, media, thumbnail>>
    BY <1>1, MediaHolds DEF RemoveMedia
  <1>3. /\ x \in MediaReqState /\ x.pc = "delete" /\ x.row = w /\ x.primary = media[w].primary
        /\ x.pc \in Unlocked
    BY <1>1, <1>2 DEF NoMediaReq, MediaReqState, Unlocked, ItemState
  <1>4. Confirming(x) /\ (Shown(thumbnail) => Working(x))
    BY <1>2, <1>3 DEF Confirming, Working
  <1>5. stored' \subseteq {j \in Keys : kind[j] # "none"}
    BY <1>2, MediaHolds DEF MediaTables
  <1> QED BY <1>2, <1>3, <1>4, <1>5, Starts, OnlyReqMoves

\* The unlocked handlers: alone with the gallery, or raced.
LEMMA Alone ==
    ASSUME MediaInv, NEW h \in MediaRequests, mediaReq[h].pc \in Unlocked, ~mediaRaced
    PROVE  /\ Working(mediaReq[h])
           /\ \A g \in MediaRequests \ {h} : mediaReq[g].pc = "idle" /\ mediaReq[g].pc \notin Unlocked
  BY AtMedia, FreshReq

\* An unlocked handler moves, the gallery and the picture stay.
LEMMA UnlockedMoves ==
    ASSUME MediaInv, NEW h \in MediaRequests, mediaReq[h].pc \in Unlocked,
           NEW x \in MediaReqState, mediaReq' = [mediaReq EXCEPT ![h] = x],
           x.pc \in Unlocked \cup {"idle"}, Confirming(x),
           stored' \subseteq stored, UNCHANGED <<kind, media, thumbnail, mediaRaced>>,
           ~mediaRaced => IF x.pc \in Unlocked THEN Working(x) ELSE Shown(thumbnail)
    PROVE  MediaInv'
  <1>1. stored' \subseteq {j \in Keys : kind[j] # "none"} /\ mediaRaced' \in BOOLEAN /\ x.pc # "insert"
    BY MediaHolds DEF MediaTables, Unlocked
  <1>2. ~mediaRaced' =>
               /\ ~mediaRaced /\ \A g \in MediaRequests \ {h} : mediaReq[g].pc \notin Unlocked
               /\ x.pc \in Unlocked => (\A g \in MediaRequests \ {h} : mediaReq[g].pc = "idle") /\ Working(x)
               /\ x.pc \notin Unlocked => Shown(thumbnail)
    BY Alone
  <1> QED BY <1>1, <1>2, OnlyReqMoves

\* An unlocked handler writes rows that were there: flags, or a row less.
LEMMA UnlockedWrites ==
    ASSUME MediaInv, NEW h \in MediaRequests, mediaReq[h].pc \in Unlocked,
           NEW x \in MediaReqState, mediaReq' = [mediaReq EXCEPT ![h] = x], x.pc \in Unlocked,
           x.pc \notin {"swap", "delete", "promote"},
           UNCHANGED <<kind, stored, thumbnail, mediaRaced>>,
           media' \in [MediaRows -> ItemState \cup {NoMedia}], Gallery' \subseteq Gallery,
           \A w \in Gallery' : media'[w].sort = media[w].sort /\ media'[w].key = media[w].key,
           \A v, w \in Primary' : v = w,
           ~mediaRaced => Working(x)'
    PROVE  MediaInv'
  <1>1. IsFiniteSet(Gallery') /\ Cardinality(Gallery') <= Cardinality(Gallery) /\ Cardinality(Gallery') \in Nat
    BY MediaHolds, FS_Subset, FS_CardinalityType
  <1>2. MediaTables'
    BY <1>1, MediaHolds DEF MediaTables
  <1>3. Slots'
    BY <1>1, MediaHolds, MediaAssumption DEF Slots
  <1>4. Confirming(x)' /\ x.pc # "insert"
    BY DEF Confirming, Unlocked
  <1>5. Left(h, x)
    BY Alone DEF Left
  <1> QED BY <1>2, <1>3, <1>4, <1>5, MediaMoves

LEMMA SwapPrimaryStep ==
    ASSUME MediaInv, NEW h \in MediaRequests, SwapPrimary(h)
    PROVE  MediaInv'
  <1>1. PICK old : old = mediaReq[h]
    OBVIOUS
  <1>2. /\ old \in MediaReqState /\ old.pc = "swap" /\ old.pc \in Unlocked /\ old.row \in MediaRows
        /\ ~mediaRaced => old.row \in Photos /\ old.key = media[old.row].key
    BY <1>1, AtMedia DEF SwapPrimary, MediaAt, Confirming, Unlocked, Working
  <1>3. UNCHANGED <<kind, stored, thumbnail, mediaRaced>>
    BY DEF SwapPrimary
  <1>4. CASE /\ media' = [w \in MediaRows |->
                     IF media[w] = NoMedia THEN NoMedia ELSE [media[w] EXCEPT !.primary = w = old.row]]
             /\ MediaGoto(h, "sync")
    <2>1. PICK x : x = [old EXCEPT !.pc = "sync"]
      OBVIOUS
    <2>2. /\ x \in MediaReqState /\ x.pc = "sync" /\ x.key = old.key /\ x.pc \in Unlocked
      BY <1>2, <2>1 DEF MediaReqState, Unlocked
    <2>3. mediaReq' = [mediaReq EXCEPT ![h] = x]
      BY <1>1, <1>4, <2>1 DEF MediaGoto, MediaInv, MediaTypes
    <2>4. ASSUME NEW w \in MediaRows
          PROVE  /\ media[w] = NoMedia => media'[w] = NoMedia
                 /\ media[w] # NoMedia => /\ media'[w] \in ItemState /\ media'[w] # NoMedia
                                          /\ media'[w].key = media[w].key /\ media'[w].sort = media[w].sort
                                          /\ media'[w].primary <=> w = old.row
      <3>1. CASE media[w] # NoMedia
        <4>1. media[w] \in ItemState
          BY <3>1, MediaHolds DEF MediaTables
        <4>2. PICK item : item = [media[w] EXCEPT !.primary = w = old.row]
          OBVIOUS
        <4>3. item \in ItemState /\ item.key = media[w].key /\ item.sort = media[w].sort
              /\ (item.primary <=> w = old.row)
          BY <4>1, <4>2 DEF ItemState
        <4>4. media'[w] = item /\ item # NoMedia
          BY <1>4, <3>1, <4>2, <4>3, MediaAssumption DEF ItemState
        <4> QED BY <3>1, <4>3, <4>4
      <3>2. CASE media[w] = NoMedia
        BY <1>4, <3>2
      <3> QED BY <3>1, <3>2
    <2>5. media' = [w \in MediaRows |-> media'[w]] /\ \A w \in MediaRows : media'[w] \in ItemState \cup {NoMedia}
      BY <1>4, <2>4
    <2>6. media' \in [MediaRows -> ItemState \cup {NoMedia}]
      BY <2>5
    <2>7. Gallery' = Gallery
      BY <2>4 DEF Gallery
    <2>8. \A w \in Gallery : media'[w].sort = media[w].sort /\ media'[w].key = media[w].key
      BY <2>4 DEF Gallery
    <2>9. Primary' = Gallery \cap {old.row}
      BY <2>4, <2>7 DEF Primary, Gallery
    <2>10. Photos' = Photos
      BY <1>3, <2>7, <2>8 DEF Photos
    <2>11. ~mediaRaced => Working(x)'
      <3> SUFFICES ASSUME ~mediaRaced PROVE Shown(x.key)'
        BY <2>2 DEF Working
      <3>1. old.row \in Gallery /\ old.row \in Photos' /\ x.key = media'[old.row].key
        BY <1>2, <2>2, <2>8, <2>10, MediaHolds
      <3> QED BY <2>9, <3>1 DEF Shown
    <2> QED BY <1>1, <1>2, <1>3, <2>2, <2>3, <2>6, <2>7, <2>8, <2>9, <2>11, UnlockedWrites
  <1>5. CASE /\ \E g \in MediaRequests \ {h} : mediaReq[g].pc \in {"swap", "sync"}
             /\ MediaDone(h) /\ UNCHANGED media
    <2>1. mediaRaced
      BY <1>1, <1>2, <1>5, Alone DEF Unlocked
    <2> QED BY <1>1, <1>2, <1>3, <1>5, <2>1, FreshReq, FreeReq, UnlockedMoves DEF MediaDone
  <1> QED BY <1>1, <1>4, <1>5 DEF SwapPrimary

LEMMA SyncThumbnailStep ==
    ASSUME MediaInv, NEW h \in MediaRequests, SyncThumbnail(h)
    PROVE  MediaInv'
  <1>1. /\ mediaReq[h].pc = "sync" /\ mediaReq[h].pc \in Unlocked /\ mediaReq[h] \in MediaReqState
        /\ ~mediaRaced => Shown(mediaReq[h].key)
    BY AtMedia DEF SyncThumbnail, MediaAt, Working, Unlocked
  <1>2. /\ thumbnail' = mediaReq[h].key /\ mediaReq' = [mediaReq EXCEPT ![h] = NoMediaReq]
        /\ UNCHANGED <<kind, stored, media, mediaRaced>>
    BY DEF SyncThumbnail, MediaDone
  <1>3. Gallery' = Gallery
    BY <1>2 DEF Gallery
  <1>4. Photos' = Photos /\ Primary' = Primary
    BY <1>2, <1>3 DEF Photos, Primary
  <1>5. MediaTables' /\ Slots'
    BY <1>1, <1>2, <1>3, <1>4, MediaHolds DEF MediaTables, Slots, MediaReqState
  <1>6. ~mediaRaced => Shown(thumbnail)'
    BY <1>1, <1>2, <1>3, <1>4 DEF Shown
  <1>7. Left(h, NoMediaReq) /\ Confirming(NoMediaReq)'
    BY <1>1, <1>2, <1>6, Alone, FreshReq DEF Left, Confirming
  <1> QED BY <1>2, <1>3, <1>5, <1>7, FreshReq, MediaMoves

LEMMA DeleteRowStep ==
    ASSUME MediaInv, NEW h \in MediaRequests, DeleteRow(h)
    PROVE  MediaInv'
  <1>1. PICK old, w : old = mediaReq[h] /\ w = old.row
    OBVIOUS
  <1>2. /\ old \in MediaReqState /\ old.pc = "delete" /\ old.pc \in Unlocked /\ w \in MediaRows
        /\ ~mediaRaced => Shown(thumbnail) /\ w \in Gallery /\ old.primary = media[w].primary
    BY <1>1, AtMedia DEF DeleteRow, MediaAt, Confirming, Unlocked, Working
  <1>3. /\ UNCHANGED <<kind, stored, thumbnail, mediaRaced>>
        /\ media' = [media EXCEPT ![w] = NoMedia]
    BY <1>1 DEF DeleteRow
  <1>4. PICK x : x = [old EXCEPT !.pc = "object"]
    OBVIOUS
  <1>5. x \in MediaReqState /\ x.pc = "object" /\ x.primary = old.primary /\ x.pc \in Unlocked
    BY <1>2, <1>4 DEF MediaReqState, Unlocked
  <1>6. mediaReq' = [mediaReq EXCEPT ![h] = x]
    BY <1>1, <1>4 DEF DeleteRow, MediaGoto, MediaInv, MediaTypes
  <1>7. /\ media' \in [MediaRows -> ItemState \cup {NoMedia}]
        /\ \A v \in MediaRows : media'[v] = IF v = w THEN NoMedia ELSE media[v]
    BY <1>2, <1>3, MediaHolds DEF MediaTables
  <1>8. Gallery' = Gallery \ {w} /\ \A v \in Gallery' : media'[v] = media[v]
    BY <1>7 DEF Gallery
  <1>9. Primary' = Primary \ {w} /\ Photos' = Photos \ {w}
    BY <1>3, <1>8 DEF Primary, Photos
  <1>10. ~mediaRaced => Working(x)'
    <2> SUFFICES ASSUME ~mediaRaced PROVE IF x.primary THEN Primary' = {} ELSE Shown(thumbnail)'
      BY <1>5 DEF Working
    <2>1. w \in Gallery /\ old.primary = media[w].primary /\ Shown(thumbnail) /\ \A u, v \in Primary : u = v
      BY <1>2, MediaHolds DEF Slots
    <2>2. CASE x.primary
      <3>1. w \in Primary
        BY <1>5, <2>1, <2>2 DEF Primary
      <3> QED BY <1>9, <2>1, <2>2, <3>1
    <2>3. CASE ~x.primary
      <3>1. w \notin Primary
        BY <1>5, <2>1, <2>3 DEF Primary
      <3>2. Primary' = Primary /\ \A v \in Primary : v \in Gallery'
        BY <1>8, <1>9, <3>1, MediaHolds
      <3>3. \A v \in Primary : media'[v].key = media[v].key /\ (v \in Photos => v \in Photos')
        BY <1>8, <1>9, <3>1, <3>2
      <3>4. Shown(thumbnail)'
        BY <1>3, <2>1, <3>2, <3>3 DEF Shown
      <3> QED BY <2>3, <3>4
    <2> QED BY <2>2, <2>3
  <1>11. \A u, v \in Primary' : u = v
    BY <1>9, MediaHolds DEF Slots
  <1> QED BY <1>1, <1>2, <1>3, <1>5, <1>6, <1>7, <1>8, <1>10, <1>11, UnlockedWrites

LEMMA DeleteObjectStep ==
    ASSUME MediaInv, NEW h \in MediaRequests, DeleteObject(h)
    PROVE  MediaInv'
  <1>1. PICK old : old = mediaReq[h]
    OBVIOUS
  <1>2. /\ old \in MediaReqState /\ old.pc = "object" /\ old.pc \in Unlocked
        /\ ~mediaRaced => IF old.primary THEN Primary = {} ELSE Shown(thumbnail)
    BY <1>1, AtMedia DEF DeleteObject, MediaAt, Unlocked, Working
  <1>3. UNCHANGED <<kind, media, thumbnail, mediaRaced>> /\ stored' \subseteq stored
    BY DEF DeleteObject
  <1>4. CASE old.primary
    <2>1. PICK x : x = [old EXCEPT !.pc = "next"]
      OBVIOUS
    <2>2. x \in MediaReqState /\ x.pc = "next" /\ x.pc \in Unlocked
      BY <1>2, <2>1 DEF MediaReqState, Unlocked
    <2>3. mediaReq' = [mediaReq EXCEPT ![h] = x]
      BY <1>1, <1>4, <2>1 DEF DeleteObject, MediaGoto, MediaInv, MediaTypes
    <2>4. Confirming(x) /\ (~mediaRaced => Working(x))
      BY <1>2, <1>4, <2>2 DEF Confirming, Working
    <2> QED BY <1>1, <1>2, <1>3, <2>2, <2>3, <2>4, UnlockedMoves
  <1>5. CASE ~old.primary
    <2>1. mediaReq' = [mediaReq EXCEPT ![h] = NoMediaReq]
      BY <1>1, <1>5 DEF DeleteObject, MediaDone
    <2> QED BY <1>1, <1>2, <1>3, <1>5, <2>1, FreshReq, FreeReq, UnlockedMoves
  <1> QED BY <1>4, <1>5

LEMMA FirstPhoto ==
    ASSUME MediaInv, Photos # {}
    PROVE  \E w \in Photos : \A v \in Photos : media[w].sort <= media[v].sort
  <1>1. PICK S : S = {media[w].sort : w \in Photos}
    OBVIOUS
  <1>2. S \in SUBSET Nat /\ S # {} /\ \A w \in Photos : media[w].sort \in S
    BY <1>1, MediaHolds, MediaAssumption DEF ItemState
  <1>3. PICK f : f = [w \in Photos |-> media[w].sort]
    OBVIOUS
  <1>4. f \in Surjection(Photos, S)
    BY <1>1, <1>3 DEF Surjection
  <1>5. IsFiniteSet(S)
    BY <1>4, MediaHolds, FS_Subset, FS_Surjection
  <1>6. PICK m \in S : \A n \in S : m <= n
    BY <1>2, <1>5, Trough
  <1> QED BY <1>1, <1>2, <1>6

LEMMA NextPhotoStep ==
    ASSUME MediaInv, NEW h \in MediaRequests, NextPhoto(h)
    PROVE  MediaInv'
  <1>1. /\ mediaReq[h].pc = "next" /\ mediaReq[h].pc \in Unlocked
        /\ ~mediaRaced => Primary = {}
        /\ stored' \subseteq stored /\ UNCHANGED <<kind, media, thumbnail, mediaRaced>>
    BY AtMedia DEF NextPhoto, MediaAt, Unlocked, Working
  <1>2. CASE Photos = {}
    <2>1. PICK x : x = [NoMediaReq EXCEPT !.pc = "sync"]
      OBVIOUS
    <2>2. x \in MediaReqState /\ x.pc = "sync" /\ x.pc \in Unlocked /\ x.key = NoMedia
      BY <2>1 DEF NoMediaReq, MediaReqState, Unlocked
    <2>3. mediaReq' = [mediaReq EXCEPT ![h] = x]
      BY <1>2, <2>1 DEF NextPhoto
    <2>4. Confirming(x) /\ (~mediaRaced => Working(x))
      BY <1>1, <2>2 DEF Confirming, Working, Shown
    <2> QED BY <1>1, <2>2, <2>3, <2>4, UnlockedMoves
  <1>3. CASE Photos # {}
    <2>1. PICK w : w = CHOOSE v \in Photos : \A u \in Photos : media[v].sort <= media[u].sort
      OBVIOUS
    <2>2. w \in Photos /\ w \in MediaRows /\ media[w] \in ItemState
      BY <1>3, <2>1, FirstPhoto, MediaHolds
    <2>3. PICK x : x = [NoMediaReq EXCEPT !.pc = "promote", !.row = w, !.key = media[w].key]
      OBVIOUS
    <2>4. /\ x \in MediaReqState /\ x.pc = "promote" /\ x.pc \in Unlocked /\ x.row = w
          /\ x.key = media[w].key
      BY <2>2, <2>3 DEF NoMediaReq, MediaReqState, Unlocked, ItemState
    <2>5. mediaReq' = [mediaReq EXCEPT ![h] = x]
      BY <1>3, <2>1, <2>3 DEF NextPhoto
    <2>6. Confirming(x) /\ (~mediaRaced => Working(x))
      BY <1>1, <2>2, <2>4 DEF Confirming, Working
    <2> QED BY <1>1, <2>4, <2>5, <2>6, UnlockedMoves
  <1> QED BY <1>2, <1>3

LEMMA PromotePhotoStep ==
    ASSUME MediaInv, NEW h \in MediaRequests, PromotePhoto(h)
    PROVE  MediaInv'
  <1>1. PICK old, w : old = mediaReq[h] /\ w = old.row
    OBVIOUS
  <1>2. /\ old \in MediaReqState /\ old.pc = "promote" /\ old.pc \in Unlocked /\ w \in MediaRows
        /\ ~mediaRaced => Primary = {} /\ w \in Photos /\ old.key = media[w].key
    BY <1>1, AtMedia DEF PromotePhoto, MediaAt, Confirming, Unlocked, Working
  <1>3. UNCHANGED <<kind, stored, thumbnail, mediaRaced>>
    BY DEF PromotePhoto
  <1>4. CASE media[w] # NoMedia /\ Primary \ {w} # {}
    <2>1. mediaRaced
      BY <1>2, <1>4
    <2>2. mediaReq' = [mediaReq EXCEPT ![h] = NoMediaReq] /\ UNCHANGED media
      BY <1>1, <1>4 DEF PromotePhoto, MediaDone
    <2> QED BY <1>1, <1>2, <1>3, <2>1, <2>2, FreshReq, FreeReq, UnlockedMoves
  <1>5. CASE ~(media[w] # NoMedia /\ Primary \ {w} # {})
    <2>1. PICK x : x = [old EXCEPT !.pc = "sync"]
      OBVIOUS
    <2>2. x \in MediaReqState /\ x.pc = "sync" /\ x.pc \in Unlocked /\ x.key = old.key
      BY <1>2, <2>1 DEF MediaReqState, Unlocked
    <2>3. mediaReq' = [mediaReq EXCEPT ![h] = x]
      BY <1>1, <1>5, <2>1 DEF PromotePhoto, MediaGoto, MediaInv, MediaTypes
    <2>4. PICK item : item = IF media[w] = NoMedia THEN NoMedia ELSE [media[w] EXCEPT !.primary = TRUE]
      OBVIOUS
    <2>5. media' = [media EXCEPT ![w] = item]
      BY <1>1, <1>2, <1>5, <2>4, MediaHolds DEF PromotePhoto, MediaTables
    <2>6. /\ media[w] = NoMedia => item = NoMedia
          /\ media[w] # NoMedia => /\ item \in ItemState /\ item # NoMedia /\ item.primary
                                   /\ item.key = media[w].key /\ item.sort = media[w].sort
      <3>1. CASE media[w] # NoMedia
        <4>1. media[w] \in ItemState
          BY <1>2, <3>1, MediaHolds DEF MediaTables
        <4>2. item \in ItemState /\ item.primary /\ item.key = media[w].key /\ item.sort = media[w].sort
          BY <2>4, <3>1, <4>1 DEF ItemState
        <4> QED BY <3>1, <4>2, MediaAssumption DEF ItemState
      <3> QED BY <2>4, <3>1
    <2>7. /\ media' \in [MediaRows -> ItemState \cup {NoMedia}]
          /\ \A v \in MediaRows : media'[v] = IF v = w THEN item ELSE media[v]
      BY <1>2, <2>5, <2>6, MediaHolds DEF MediaTables
    <2>8. Gallery' = Gallery
      BY <1>2, <2>6, <2>7 DEF Gallery
    <2>9. \A v \in Gallery : media'[v].sort = media[v].sort /\ media'[v].key = media[v].key
      BY <2>6, <2>7 DEF Gallery
    <2>10. Primary' = IF w \in Gallery THEN {w} ELSE Primary
      <3>1. CASE w \in Gallery
        <4>1. Primary \subseteq {w}
          BY <1>5, <3>1 DEF Gallery
        <4>2. media'[w].primary /\ \A v \in Gallery : v # w => media'[v] = media[v]
          BY <1>2, <2>6, <2>7, <3>1 DEF Gallery
        <4> QED BY <2>8, <3>1, <4>1, <4>2 DEF Primary
      <3>2. CASE w \notin Gallery
        <4>1. \A v \in Gallery : media'[v] = media[v]
          BY <2>7, <3>2 DEF Gallery
        <4> QED BY <2>8, <3>2, <4>1 DEF Primary
      <3> QED BY <3>1, <3>2
    <2>11. Photos' = Photos
      BY <1>3, <2>8, <2>9 DEF Photos
    <2>12. ~mediaRaced => Working(x)'
      <3> SUFFICES ASSUME ~mediaRaced PROVE Shown(x.key)'
        BY <2>2 DEF Working
      <3>1. w \in Gallery /\ w \in Photos' /\ x.key = media'[w].key
        BY <1>2, <2>2, <2>9, <2>11, MediaHolds
      <3> QED BY <2>10, <3>1 DEF Shown
    <2>13. \A u, v \in Primary' : u = v
      BY <2>10, MediaHolds DEF Slots
    <2> QED BY <1>1, <1>2, <1>3, <2>2, <2>3, <2>7, <2>8, <2>9, <2>12, <2>13, UnlockedWrites
  <1> QED BY <1>4, <1>5

LEMMA MediaDiesStep ==
    ASSUME MediaInv, NEW h \in MediaRequests, MediaDies(h)
    PROVE  MediaInv'
  <1>1. /\ mediaReq[h].pc # "idle" /\ mediaReq[h] \in MediaReqState
        /\ mediaReq' = [mediaReq EXCEPT ![h] = NoMediaReq] /\ UNCHANGED <<kind, stored, media, thumbnail>>
        /\ mediaRaced' = (mediaRaced \/ mediaReq[h].pc \in Unlocked)
    BY AtMedia DEF MediaDies, MediaAt, MediaDone
  <1>2. stored' \subseteq {j \in Keys : kind[j] # "none"} /\ mediaRaced' \in BOOLEAN
    BY <1>1, MediaHolds DEF MediaTables
  <1>3. ~mediaRaced' => /\ ~mediaRaced /\ Shown(thumbnail)
                        /\ \A g \in MediaRequests \ {h} : mediaReq[g].pc \notin Unlocked
    BY <1>1, <1>2, Bystander DEF MediaReqState, MediaInv, MediaTypes
  <1> QED BY <1>1, <1>2, <1>3, FreshReq, FreeReq, OnlyReqMoves

LEMMA MediaInductive == MediaInv /\ [MediaNext]_mediaVars => MediaInv'
  <1> SUFFICES ASSUME MediaInv, [MediaNext]_mediaVars
               PROVE  MediaInv'
    OBVIOUS
  <1>1. CASE UNCHANGED mediaVars
    <2>1. Gallery' = Gallery
      BY <1>1 DEF mediaVars, Gallery
    <2>2. Photos' = Photos /\ Primary' = Primary
      BY <1>1, <2>1 DEF mediaVars, Photos, Primary
    <2>3. MediaTypes' /\ Slots' /\ OneInserts' /\ \A h \in MediaRequests : Confirming(mediaReq[h])'
      BY <1>1, <2>1, <2>2 DEF mediaVars, MediaInv, MediaTypes, Slots, OneInserts, Confirming
    <2>4. Tidy'
      BY <1>1, <2>1, <2>2 DEF mediaVars, MediaInv, Tidy, Working, Shown
    <2> QED BY <2>3, <2>4 DEF MediaInv
  <1> QED BY <1>1, PresignStep, UploadStep, ConfirmHeadStep, SetPrimaryStep, RemoveMediaStep, ConfirmCountStep,
             ConfirmInsertStep, SwapPrimaryStep, SyncThumbnailStep, DeleteRowStep, DeleteObjectStep,
             NextPhotoStep, PromotePhotoStep, MediaDiesStep DEF MediaNext

\* However uploads are confirmed, photos promoted and rows removed, and
\* wherever a handler dies: no cap is exceeded, no position is shared, no
\* second photo is primary, and the profile shows the primary photo once
\* whoever took no lock ran alone and to the end (MediaService.confirm,
\* setPrimary and remove).
THEOREM GalleriesStayInOrder == MediaSpec => [](MediaTypeOK /\ GalleryInOrder)
  <1>1. MediaInit => MediaInv
    <2> SUFFICES ASSUME MediaInit PROVE MediaInv
      OBVIOUS
    <2>1. Gallery = {}
      BY DEF MediaInit, Gallery
    <2>2. Primary = {} /\ Cardinality(Gallery) = 0 /\ IsFiniteSet(Gallery)
      BY <2>1, FS_EmptySet DEF Primary
    <2>3. MediaTypes
      BY <2>1, <2>2, FreshReq DEF MediaInit, MediaTypes
    <2>4. Slots
      BY <2>1, <2>2, MediaAssumption DEF Slots
    <2>5. \A h \in MediaRequests : Confirming(mediaReq[h]) /\ Working(mediaReq[h]) /\ mediaReq[h].pc = "idle"
      BY FreshReq, FreeReq DEF MediaInit
    <2>6. Shown(thumbnail)
      BY <2>2 DEF MediaInit, Shown
    <2> QED BY <2>3, <2>4, <2>5, <2>6, FreshReq DEF MediaInv, OneInserts, Tidy
  <1>2. MediaInv => MediaTypeOK /\ GalleryInOrder
    <2> SUFFICES ASSUME MediaInv PROVE MediaTypeOK /\ GalleryInOrder
      OBVIOUS
    <2>1. \A h \in MediaRequests : mediaReq[h].pc \in Unlocked \cup {"idle", "lock", "insert"}
      BY AtMedia DEF MediaReqState
    <2>2. MediaTypeOK
      BY <2>1, MediaHolds, MediaAssumption DEF MediaTypeOK, MediaTables, ItemState
    <2>3. Cardinality(Primary) <= 1
      <3>1. CASE Primary = {}
        BY <3>1, FS_EmptySet
      <3>2. CASE Primary # {}
        <4>1. PICK w : Primary = {w}
          BY <3>2, MediaHolds DEF Slots
        <4>2. Cardinality(Primary) = 1
          BY <4>1, FS_Singleton
        <4> QED BY <4>2
      <3> QED BY <3>1, <3>2
    <2>4. SlotsAreKept
      BY <2>3, MediaHolds DEF SlotsAreKept, Slots
    <2>5. ThumbnailTrue
      BY DEF ThumbnailTrue, MediaInv, Tidy, Shown
    <2> QED BY <2>2, <2>4, <2>5 DEF GalleryInOrder
  <1> QED BY <1>1, <1>2, MediaInductive, PTL DEF MediaSpec

-----------------------------------------------------------------------------
(* Reminders                                                               *)

RunState == [pc : {"idle", "find", "filter", "loop", "mail"}, due : SUBSET Warnings, cur : SUBSET Warnings,
             read : SUBSET Warnings]

ReminderTypes ==
    /\ now \in Nat /\ now <= Horizon /\ cronMode \in {"in-process", "http"}
    /\ cronLock \in Runners \cup {"free"} /\ runner \in [Runners -> RunState]
    /\ warned \in [Warnings -> Nat] /\ mailed \in [Warnings -> Nat]
    /\ covered \subseteq Warnings /\ lockLost \in 0..LockLosses

\* What a run holds: the warning it is mailing, and what it read and has still
\* to write or finds written.
Running(x) ==
    /\ x.pc = "idle" <=> x = NoRun
    /\ IF x.pc = "mail" THEN \E w \in Warnings : x.cur = {w} ELSE x.cur = {}
    /\ x.pc = "filter" => x.read \subseteq x.due
    /\ x.pc \in {"loop", "mail"} => \A w \in x.read : w \in x.due \/ warned[w] > 0
RunnersRun == \A i \in Runners : Running(runner[i])

\* Those at work without the lock: each has lost it.
Orphan(x, i) == x.pc # "idle" /\ cronLock # i
Orphans == {i \in Runners : Orphan(runner[i], i)}
HolderRuns == cronLock # "free" => runner[cronLock].pc # "idle"
OrphansPaid == HolderRuns /\ Cardinality(Orphans) <= lockLost

\* Those that may still write a warning: they have not asked yet and it is
\* not written, or they asked before it was.
May(x, w) == (x.pc \in {"find", "filter"} /\ warned[w] = 0) \/ (x.pc \in {"loop", "mail"} /\ w \in x.due)
MayWrite(w) == {i \in Runners : May(runner[i], w)}
RepeatsPaid == \A w \in Warnings : warned[w] + Cardinality(MayWrite(w)) <= 1 + lockLost

\* A mail follows its notice, and is held by one run meanwhile.
Posting(w) == {i \in Runners : w \in runner[i].cur}
NoticeFirst == \A w \in Warnings : mailed[w] + Cardinality(Posting(w)) <= warned[w]

ReminderInv == ReminderTypes /\ RunnersRun /\ OrphansPaid /\ RepeatsPaid /\ NoticeFirst /\ CatchesUp

LEMMA Counts ==
    ASSUME NEW S, IsFiniteSet(S), NEW A \in SUBSET S, NEW B \in SUBSET S, NEW d
    PROVE  /\ Cardinality(A) \in Nat /\ Cardinality(B) \in Nat
           /\ B \subseteq A => Cardinality(B) <= Cardinality(A)
           /\ B \subseteq A \cup {d} => Cardinality(B) <= Cardinality(A) + 1
           /\ d \in A /\ B \subseteq A \ {d} => Cardinality(B) <= Cardinality(A) - 1
  <1>1. IsFiniteSet(A) /\ IsFiniteSet(B)
    BY FS_Subset
  <1>2. Cardinality(A) \in Nat /\ Cardinality(B) \in Nat
    BY <1>1, FS_CardinalityType
  <1>3. B \subseteq A => Cardinality(B) <= Cardinality(A)
    BY <1>1, FS_Subset
  <1>4. ASSUME B \subseteq A \cup {d} PROVE Cardinality(B) <= Cardinality(A) + 1
    <2>1. IsFiniteSet(A \cup {d}) /\ Cardinality(A \cup {d}) <= Cardinality(A) + 1
      BY <1>1, <1>2, FS_AddElement
    <2>2. Cardinality(B) <= Cardinality(A \cup {d})
      BY <1>4, <2>1, FS_Subset
    <2>3. Cardinality(A \cup {d}) \in Nat
      BY <2>1, FS_CardinalityType
    <2> QED BY <1>2, <2>1, <2>2, <2>3
  <1>5. ASSUME d \in A, B \subseteq A \ {d} PROVE Cardinality(B) <= Cardinality(A) - 1
    <2>1. IsFiniteSet(A \ {d}) /\ Cardinality(A \ {d}) = Cardinality(A) - 1
      BY <1>1, <1>5, FS_RemoveElement
    <2>2. Cardinality(B) <= Cardinality(A \ {d})
      BY <1>5, <2>1, FS_Subset
    <2> QED BY <2>1, <2>2
  <1> QED BY <1>2, <1>3, <1>4, <1>5

\* The days left, rounded up, are at most t when the end is at most t days off.
LEMMA WholeDays ==
    ASSUME NEW n \in Nat, NEW D \in Nat \ {0}, NEW t \in Nat
    PROVE  (n + D - 1) \div D <= t <=> n <= t * D
  <1>1. PICK m \in Nat : m = n + D - 1
    OBVIOUS
  <1>2. PICK q \in Int : q = m \div D
    OBVIOUS
  <1>3. q * D <= m /\ m < q * D + D
    BY <1>2
  <1>4. q <= t => q * D <= t * D
    OBVIOUS
  <1>5. t + 1 <= q => t * D + D <= q * D
    OBVIOUS
  <1>6. t * D \in Int /\ q * D \in Int
    OBVIOUS
  <1> QED BY <1>1, <1>2, <1>3, <1>4, <1>5, <1>6

LEMMA WindowIsThreshold ==
    ASSUME now \in Nat, NEW w \in Warnings, InWindow(w)
    PROVE  ExpiresAt[w[1]] > now /\ w[2] \in Threshold(w[1])
  <1>1. PICK s, t : s \in Plans /\ t \in RemindAt[s] /\ w[1] = s /\ w[2] = t
    BY DEF Warnings
  <1>2. ExpiresAt[s] \in Nat /\ t \in Nat /\ RemindAt[s] \subseteq Nat /\ DayLength \in Nat \ {0}
    <2>1. RemindAt[s] \subseteq Nat \ {0}
      BY <1>1, ReminderAssumption
    <2>2. ExpiresAt[s] \in Nat
      BY <1>1, ReminderAssumption
    <2>3. DayLength \in Nat \ {0}
      BY ReminderAssumption
    <2> QED BY <1>1, <2>1, <2>2, <2>3
  <1>3. now < ExpiresAt[s] /\ ExpiresAt[s] <= now + t * DayLength
    BY <1>1 DEF InWindow
  <1>4. \A u \in RemindAt[s] : u < t => ExpiresAt[s] > now + u * DayLength
    BY <1>1 DEF InWindow
  <1>5. PICK n \in Nat : n = ExpiresAt[s] - now
    BY <1>2, <1>3
  <1>6. \A u \in Nat : u * DayLength \in Nat
    BY <1>2
  <1>7. DaysLeft(s) = (n + DayLength - 1) \div DayLength
    BY <1>5 DEF DaysLeft
  <1>8. \A u \in RemindAt[s] : DaysLeft(s) <= u <=> n <= u * DayLength
    BY <1>2, <1>7, WholeDays
  <1>9. \A u \in RemindAt[s] : DaysLeft(s) <= u <=> ExpiresAt[s] <= now + u * DayLength
    BY <1>2, <1>5, <1>6, <1>8
  <1>10. DaysLeft(s) <= t
    BY <1>1, <1>3, <1>9
  <1>11. ASSUME NEW u \in RemindAt[s], DaysLeft(s) <= u PROVE t <= u
    BY <1>2, <1>4, <1>6, <1>9, <1>11
  <1> QED BY <1>1, <1>3, <1>10, <1>11 DEF Threshold

LEMMA HorizonIsLast == Horizon \in Nat
  <1>1. PICK f : f = [s \in Plans |-> ExpiresAt[s]]
    OBVIOUS
  <1>2. PICK ends : ends = {ExpiresAt[s] : s \in Plans}
    OBVIOUS
  <1>3. f \in Surjection(Plans, ends)
    BY <1>1, <1>2 DEF Surjection
  <1>4. IsFiniteSet(ends)
    BY <1>3, ReminderAssumption, FS_Surjection
  <1>5. PICK all : all = {0} \cup ends
    OBVIOUS
  <1>6. IsFiniteSet(all)
    <2>1. IsFiniteSet(ends \cup {0})
      BY <1>4, FS_AddElement
    <2>2. all = ends \cup {0}
      BY <1>5
    <2> QED BY <2>1, <2>2
  <1>7. all \in SUBSET Nat /\ all # {}
    BY <1>2, <1>5, ReminderAssumption
  <1>8. PICK m \in all : \A n \in all : n <= m
    BY <1>6, <1>7, Peak
  <1>9. \A s \in Plans : ExpiresAt[s] <= m
    BY <1>2, <1>5, <1>8
  <1>10. Horizon = CHOOSE n \in all : \A s \in Plans : ExpiresAt[s] <= n
    BY <1>2, <1>5 DEF Horizon
  <1>11. Horizon \in all
    BY <1>8, <1>9, <1>10
  <1> QED BY <1>7, <1>11

LEMMA OrphanSets == Orphans \in SUBSET Runners /\ Orphans' \in SUBSET Runners
  BY DEF Orphans

LEMMA MayWriteSets == \A w : MayWrite(w) \in SUBSET Runners /\ MayWrite(w)' \in SUBSET Runners
  BY DEF MayWrite

LEMMA PostingSets == \A w : Posting(w) \in SUBSET Runners /\ Posting(w)' \in SUBSET Runners
  BY DEF Posting

LEMMA RunnerMoves ==
    ASSUME ReminderInv, NEW i \in Runners, NEW x, runner' = [runner EXCEPT ![i] = x]
    PROVE  \A j \in Runners : runner'[j] = IF j = i THEN x ELSE runner[j]
  BY DEF ReminderInv, ReminderTypes

\* One run moves on, warnings are only added, and no new run is without the
\* lock.
LEMMA RunStep ==
    ASSUME ReminderInv, NEW i \in Runners, NEW x, runner' = [runner EXCEPT ![i] = x], x \in RunState, Running(x)',
           warned' \in [Warnings -> Nat], \A w \in Warnings : warned[w] <= warned'[w],
           mailed' \in [Warnings -> Nat], covered' \subseteq Warnings,
           cronLock' \in Runners \cup {"free"}, HolderRuns',
           \A j \in Runners : Orphan(runner[j], j)' => Orphan(runner[j], j),
           UNCHANGED <<now, cronMode, lockLost>>
    PROVE  ReminderTypes' /\ RunnersRun' /\ OrphansPaid'
  <1>1. ReminderTypes'
    BY DEF ReminderInv, ReminderTypes, Horizon
  <1>2. RunnersRun'
    <2> SUFFICES ASSUME NEW j \in Runners
                 PROVE  Running(runner[j])'
      BY DEF RunnersRun
    <2>1. runner'[j] = IF j = i THEN x ELSE runner[j]
      BY RunnerMoves
    <2>2. CASE j = i
      BY <2>1, <2>2 DEF Running
    <2>3. CASE j # i
      <3>1. Running(runner[j]) /\ runner'[j] = runner[j] /\ runner[j].read \subseteq Warnings
        BY <2>1, <2>3 DEF ReminderInv, RunnersRun, ReminderTypes, RunState
      <3>2. \A w \in Warnings : warned[w] > 0 => warned'[w] > 0
        BY DEF ReminderInv, ReminderTypes
      <3> QED BY <3>1, <3>2 DEF Running
    <2> QED BY <2>2, <2>3
  <1>3. OrphansPaid'
    <2>1. Orphans' \subseteq Orphans
      BY DEF Orphans
    <2>2. Cardinality(Orphans') <= Cardinality(Orphans) /\ Cardinality(Orphans') \in Nat /\ Cardinality(Orphans) \in Nat
      BY <2>1, OrphanSets, ReminderAssumption, Counts
    <2>3. Cardinality(Orphans) <= lockLost /\ lockLost \in Nat
      BY ReminderAssumption DEF ReminderInv, OrphansPaid, ReminderTypes
    <2> QED BY <2>2, <2>3 DEF OrphansPaid
  <1> QED BY <1>1, <1>2, <1>3

LEMMA RepeatsKept ==
    ASSUME ReminderInv, UNCHANGED <<warned, lockLost>>, NEW w \in Warnings,
           \A i \in Runners : May(runner[i], w)' => May(runner[i], w)
    PROVE  warned'[w] + Cardinality(MayWrite(w))' <= 1 + lockLost'
  <1>1. PICK old, new : old = MayWrite(w) /\ new = MayWrite(w)'
    OBVIOUS
  <1>2. new \subseteq old
    BY <1>1 DEF MayWrite
  <1>3. Cardinality(new) <= Cardinality(old) /\ Cardinality(new) \in Nat /\ Cardinality(old) \in Nat
    BY <1>1, <1>2, MayWriteSets, ReminderAssumption, Counts
  <1>4. warned[w] + Cardinality(old) <= 1 + lockLost
    BY <1>1 DEF ReminderInv, RepeatsPaid
  <1>5. warned[w] \in Nat /\ lockLost \in Nat
    BY ReminderAssumption DEF ReminderInv, ReminderTypes
  <1> QED BY <1>1, <1>3, <1>4, <1>5

LEMMA NoticesKept ==
    ASSUME ReminderInv, UNCHANGED <<warned, mailed>>,
           \A i \in Runners : runner'[i].cur \subseteq runner[i].cur
    PROVE  NoticeFirst'
  <1> SUFFICES ASSUME NEW w \in Warnings
               PROVE  mailed[w] + Cardinality(Posting(w))' <= warned[w]
    BY DEF NoticeFirst
  <1>1. PICK old, new : old = Posting(w) /\ new = Posting(w)'
    OBVIOUS
  <1>2. new \subseteq old
    BY <1>1 DEF Posting
  <1>3. Cardinality(new) <= Cardinality(old) /\ Cardinality(new) \in Nat /\ Cardinality(old) \in Nat
    BY <1>1, <1>2, PostingSets, ReminderAssumption, Counts
  <1>4. mailed[w] + Cardinality(old) <= warned[w]
    BY <1>1 DEF ReminderInv, NoticeFirst
  <1>5. warned[w] \in Nat /\ mailed[w] \in Nat
    BY DEF ReminderInv, ReminderTypes
  <1> QED BY <1>1, <1>3, <1>4, <1>5

\* A run that writes nothing and may write no more than before.
LEMMA QuietRun ==
    ASSUME ReminderInv, NEW i \in Runners, NEW x, runner' = [runner EXCEPT ![i] = x], x \in RunState, Running(x)',
           x.cur \subseteq runner[i].cur, \A w \in Warnings : May(x, w)' => May(runner[i], w),
           UNCHANGED <<now, cronMode, warned, mailed, lockLost>>, covered' \subseteq Warnings, CatchesUp',
           cronLock' \in Runners \cup {"free"}, HolderRuns',
           \A j \in Runners : Orphan(runner[j], j)' => Orphan(runner[j], j)
    PROVE  ReminderInv'
  <1>1. \A w \in Warnings : warned[w] <= warned'[w]
    BY DEF ReminderInv, ReminderTypes
  <1>2. warned' \in [Warnings -> Nat] /\ mailed' \in [Warnings -> Nat]
    BY DEF ReminderInv, ReminderTypes
  <1>3. UNCHANGED <<now, cronMode, lockLost>>
    OBVIOUS
  <1>4. ReminderTypes' /\ RunnersRun' /\ OrphansPaid'
    BY <1>1, <1>2, <1>3, RunStep
  <1>5. \A w \in Warnings, j \in Runners : May(runner[j], w)' => May(runner[j], w)
    BY RunnerMoves DEF May
  <1>6. RepeatsPaid'
    BY <1>5, RepeatsKept DEF RepeatsPaid
  <1>7. NoticeFirst'
    BY RunnerMoves, NoticesKept
  <1> QED BY <1>4, <1>6, <1>7 DEF ReminderInv

LEMMA AtRun ==
    ASSUME ReminderInv, NEW i \in Runners
    PROVE  runner[i] \in RunState /\ Running(runner[i]) /\ NoRun \in RunState /\ Running(NoRun)
  BY DEF ReminderInv, ReminderTypes, RunnersRun, RunState, NoRun, Running

\* The lock stays where it is and so does what each run is about.
LEMMA SameHolder ==
    ASSUME ReminderInv, NEW i \in Runners, NEW x, runner' = [runner EXCEPT ![i] = x], x.pc # "idle", runner[i].pc # "idle",
           UNCHANGED cronLock
    PROVE  /\ HolderRuns' /\ cronLock' \in Runners \cup {"free"}
           /\ \A j \in Runners : Orphan(runner[j], j)' => Orphan(runner[j], j)
  BY RunnerMoves DEF ReminderInv, OrphansPaid, HolderRuns, Orphan, ReminderTypes

\* Whoever takes the lock is the one new run: those at work without it have
\* each lost theirs.
LEMMA StartStep == \A i \in Runners : ReminderInv /\ Start(i) => ReminderInv'
  <1> SUFFICES ASSUME NEW i \in Runners, ReminderInv, Start(i)
               PROVE  ReminderInv'
    OBVIOUS
  <1>1. PICK x : x = [runner[i] EXCEPT !.pc = "find"]
    OBVIOUS
  <1>2. x = [pc |-> "find", due |-> {}, cur |-> {}, read |-> {}] /\ runner[i] = NoRun
    BY <1>1 DEF Start, NoRun
  <1>3. runner' = [runner EXCEPT ![i] = x] /\ cronLock = "free" /\ cronLock' = i
    BY <1>1 DEF Start, Lock
  <1>4. UNCHANGED <<now, cronMode, warned, mailed, covered, lockLost>>
    BY DEF Start
  <1>5. x \in RunState /\ Running(x)'
    BY <1>2 DEF RunState, Running, NoRun
  <1>6. \A j \in Runners : runner'[j] = IF j = i THEN x ELSE runner[j]
    BY <1>3, RunnerMoves
  <1>7. HolderRuns'
    BY <1>2, <1>3, <1>6 DEF HolderRuns
  <1>8. \A j \in Runners : Orphan(runner[j], j)' => Orphan(runner[j], j)
    BY <1>3, <1>6, ReminderAssumption DEF Orphan
  <1>9. ReminderTypes' /\ RunnersRun' /\ OrphansPaid'
    <2>1. /\ warned' \in [Warnings -> Nat] /\ mailed' \in [Warnings -> Nat] /\ covered' \subseteq Warnings
          /\ \A w \in Warnings : warned[w] <= warned'[w]
      BY <1>4 DEF ReminderInv, ReminderTypes
    <2>2. UNCHANGED <<now, cronMode, lockLost>>
      BY <1>4
    <2> QED BY <1>3, <1>5, <1>7, <1>8, <2>1, <2>2, RunStep
  <1>10. ASSUME NEW w \in Warnings PROVE warned'[w] + Cardinality(MayWrite(w))' <= 1 + lockLost'
    <2>1. CASE warned[w] = 0
      <3>1. MayWrite(w)' \subseteq Orphans \cup {i}
        BY <1>3, <1>6, ReminderAssumption DEF MayWrite, May, Orphans, Orphan
      <3>2. PICK new : new = MayWrite(w)'
        OBVIOUS
      <3>3. Cardinality(new) <= Cardinality(Orphans) + 1 /\ Cardinality(new) \in Nat /\ Cardinality(Orphans) \in Nat
        BY <3>1, <3>2, MayWriteSets, OrphanSets, ReminderAssumption, Counts
      <3>4. Cardinality(Orphans) <= lockLost /\ lockLost \in Nat
        BY ReminderAssumption DEF ReminderInv, OrphansPaid, ReminderTypes
      <3> QED BY <1>4, <2>1, <3>2, <3>3, <3>4
    <2>2. CASE warned[w] # 0
      <3>1. \A j \in Runners : May(runner[j], w)' => May(runner[j], w)
        BY <1>2, <1>4, <1>6, <2>2 DEF May
      <3> QED BY <1>4, <3>1, RepeatsKept
    <2> QED BY <2>1, <2>2
  <1>11. NoticeFirst'
    BY <1>2, <1>4, <1>6, NoticesKept DEF NoRun
  <1>12. CatchesUp'
    BY <1>4 DEF ReminderInv, CatchesUp
  <1> QED BY <1>9, <1>10, <1>11, <1>12 DEF ReminderInv, RepeatsPaid

LEMMA FindCandidatesStep == \A i \in Runners : ReminderInv /\ FindCandidates(i) => ReminderInv'
  <1> SUFFICES ASSUME NEW i \in Runners, ReminderInv, FindCandidates(i)
               PROVE  ReminderInv'
    OBVIOUS
  <1>1. PICK read, due : /\ read = {w \in Warnings : InWindow(w)}
                         /\ due = {w \in Warnings : ExpiresAt[w[1]] > now /\ w[2] \in Threshold(w[1])}
    OBVIOUS
  <1>2. PICK x : x = [runner[i] EXCEPT !.pc = "filter", !.read = read, !.due = due]
    OBVIOUS
  <1>3. x = [pc |-> "filter", due |-> due, cur |-> {}, read |-> read] /\ runner[i].pc = "find" /\ runner[i].cur = {}
    BY <1>2, AtRun DEF FindCandidates, RunState, Running
  <1>4. runner' = [runner EXCEPT ![i] = x]
    <2>1. runner' = [runner EXCEPT ![i] = [runner[i] EXCEPT !.pc = "filter", !.read = {w \in Warnings : InWindow(w)},
                         !.due = {w \in Warnings : ExpiresAt[w[1]] > now /\ w[2] \in Threshold(w[1])}]]
      BY DEF FindCandidates
    <2> QED BY <1>1, <1>2, <2>1, Zenon
  <1>5. UNCHANGED <<now, cronMode, cronLock, warned, mailed, covered, lockLost>>
    BY DEF FindCandidates
  <1>6. now \in Nat
    BY DEF ReminderInv, ReminderTypes
  <1>7. read \subseteq due /\ due \subseteq Warnings
    BY <1>1, <1>6, WindowIsThreshold
  <1>8. x \in RunState /\ Running(x)'
    BY <1>3, <1>7 DEF RunState, Running, NoRun
  <1>9. x.cur \subseteq runner[i].cur /\ \A w \in Warnings : May(x, w)' => May(runner[i], w)
    BY <1>3, <1>5 DEF May
  <1>10. covered' \subseteq Warnings /\ CatchesUp'
    BY <1>5 DEF ReminderInv, CatchesUp, ReminderTypes
  <1>11. /\ HolderRuns' /\ cronLock' \in Runners \cup {"free"}
         /\ \A j \in Runners : Orphan(runner[j], j)' => Orphan(runner[j], j)
    <2>1. x.pc # "idle" /\ runner[i].pc # "idle" /\ UNCHANGED cronLock
      BY <1>3, <1>5
    <2> QED BY <1>4, <2>1, SameHolder
  <1>12. UNCHANGED <<now, cronMode, warned, mailed, lockLost>>
    BY <1>5
  <1> QED BY <1>4, <1>8, <1>9, <1>10, <1>11, <1>12, QuietRun

LEMMA FilterSentStep == \A i \in Runners : ReminderInv /\ FilterSent(i) => ReminderInv'
  <1> SUFFICES ASSUME NEW i \in Runners, ReminderInv, FilterSent(i)
               PROVE  ReminderInv'
    OBVIOUS
  <1>1. PICK due : due = {w \in runner[i].due : warned[w] = 0}
    OBVIOUS
  <1>2. PICK x : x = [runner[i] EXCEPT !.pc = "loop", !.due = due]
    OBVIOUS
  <1>3. /\ x = [pc |-> "loop", due |-> due, cur |-> {}, read |-> runner[i].read]
        /\ runner[i].pc = "filter" /\ runner[i].cur = {} /\ runner[i].read \subseteq runner[i].due
        /\ runner[i].due \subseteq Warnings
    BY <1>2, AtRun DEF FilterSent, RunState, Running
  <1>4. runner' = [runner EXCEPT ![i] = x]
    <2>1. runner' = [runner EXCEPT ![i] = [runner[i] EXCEPT !.pc = "loop",
                         !.due = {w \in runner[i].due : warned[w] = 0}]]
      BY DEF FilterSent
    <2> QED BY <1>1, <1>2, <2>1, Zenon
  <1>5. UNCHANGED <<now, cronMode, cronLock, warned, mailed, covered, lockLost>>
    BY DEF FilterSent
  <1>6. \A w \in Warnings : warned[w] \in Nat
    BY DEF ReminderInv, ReminderTypes
  <1>7. \A w \in runner[i].read : w \in due \/ warned[w] > 0
    BY <1>1, <1>3, <1>6
  <1>8. x \in RunState /\ Running(x)'
    BY <1>1, <1>3, <1>5, <1>7 DEF RunState, Running, NoRun
  <1>9. x.cur \subseteq runner[i].cur /\ \A w \in Warnings : May(x, w)' => May(runner[i], w)
    BY <1>1, <1>3, <1>5 DEF May
  <1>10. covered' \subseteq Warnings /\ CatchesUp'
    BY <1>5 DEF ReminderInv, CatchesUp, ReminderTypes
  <1>11. /\ HolderRuns' /\ cronLock' \in Runners \cup {"free"}
         /\ \A j \in Runners : Orphan(runner[j], j)' => Orphan(runner[j], j)
    <2>1. x.pc # "idle" /\ runner[i].pc # "idle" /\ UNCHANGED cronLock
      BY <1>3, <1>5
    <2> QED BY <1>4, <2>1, SameHolder
  <1>12. UNCHANGED <<now, cronMode, warned, mailed, lockLost>>
    BY <1>5
  <1> QED BY <1>4, <1>8, <1>9, <1>10, <1>11, <1>12, QuietRun

\* The notice written takes the place of the right to write it.
LEMMA WriteNoticeStep == \A i \in Runners, w \in Warnings : ReminderInv /\ WriteNotice(i, w) => ReminderInv'
  <1> SUFFICES ASSUME NEW i \in Runners, NEW c \in Warnings, ReminderInv, WriteNotice(i, c)
               PROVE  ReminderInv'
    OBVIOUS
  <1>1. PICK x : x = [runner[i] EXCEPT !.pc = "mail", !.due = runner[i].due \ {c}, !.cur = {c}]
    OBVIOUS
  <1>2. /\ x = [pc |-> "mail", due |-> runner[i].due \ {c}, cur |-> {c}, read |-> runner[i].read]
        /\ runner[i].pc = "loop" /\ runner[i].cur = {} /\ runner[i].due \subseteq Warnings /\ c \in runner[i].due
        /\ runner[i].read \subseteq Warnings /\ \A v \in runner[i].read : v \in runner[i].due \/ warned[v] > 0
    BY <1>1, AtRun DEF WriteNotice, RunState, Running
  <1>3. runner' = [runner EXCEPT ![i] = x]
    BY <1>1 DEF WriteNotice
  <1>4. UNCHANGED <<now, cronMode, cronLock, mailed, covered, lockLost>>
    BY DEF WriteNotice
  <1>5. warned \in [Warnings -> Nat] /\ mailed \in [Warnings -> Nat] /\ lockLost \in Nat
    BY ReminderAssumption DEF ReminderInv, ReminderTypes
  <1>6. \A v \in Warnings : warned'[v] = IF v = c THEN warned[v] + 1 ELSE warned[v]
    BY <1>5 DEF WriteNotice
  <1>7. warned' \in [Warnings -> Nat] /\ \A v \in Warnings : warned[v] <= warned'[v]
    BY <1>5, <1>6 DEF WriteNotice
  <1>8. \A j \in Runners : runner'[j] = IF j = i THEN x ELSE runner[j]
    BY <1>3, RunnerMoves
  <1>9. x \in RunState
    BY <1>2 DEF RunState
  <1>10. Running(x)'
    <2>1. \A v \in x.read : v \in x.due \/ warned'[v] > 0
      BY <1>2, <1>5, <1>6
    <2> QED BY <1>2, <2>1 DEF Running, NoRun
  <1>11. ReminderTypes' /\ RunnersRun' /\ OrphansPaid'
    <2>1. /\ HolderRuns' /\ cronLock' \in Runners \cup {"free"}
          /\ \A j \in Runners : Orphan(runner[j], j)' => Orphan(runner[j], j)
      <3>1. x.pc # "idle" /\ runner[i].pc # "idle" /\ UNCHANGED cronLock
        BY <1>2, <1>4
      <3> QED BY <1>3, <3>1, SameHolder
    <2>2. UNCHANGED <<now, cronMode, lockLost>>
      BY <1>4
    <2>3. mailed' \in [Warnings -> Nat] /\ covered' \subseteq Warnings
      BY <1>4 DEF ReminderInv, ReminderTypes
    <2> QED BY <1>3, <1>7, <1>9, <1>10, <2>1, <2>2, <2>3, RunStep
  <1>12. ASSUME NEW w \in Warnings PROVE warned'[w] + Cardinality(MayWrite(w))' <= 1 + lockLost'
    <2>1. PICK old, new : old = MayWrite(w) /\ new = MayWrite(w)'
      OBVIOUS
    <2>2. warned[w] + Cardinality(old) <= 1 + lockLost /\ warned[w] \in Nat
      BY <1>5, <2>1 DEF ReminderInv, RepeatsPaid
    <2>3. CASE w = c
      <3>1. i \in old /\ new \subseteq old \ {i}
        BY <1>2, <1>5, <1>6, <1>8, <2>1, <2>3 DEF MayWrite, May
      <3>2. Cardinality(new) <= Cardinality(old) - 1 /\ Cardinality(new) \in Nat /\ Cardinality(old) \in Nat
        BY <2>1, <3>1, MayWriteSets, ReminderAssumption, Counts
      <3> QED BY <1>4, <1>5, <1>6, <2>1, <2>2, <2>3, <3>2
    <2>4. CASE w # c
      <3>1. new \subseteq old
        BY <1>2, <1>5, <1>6, <1>8, <2>1, <2>4 DEF MayWrite, May
      <3>2. Cardinality(new) <= Cardinality(old) /\ Cardinality(new) \in Nat /\ Cardinality(old) \in Nat
        BY <2>1, <3>1, MayWriteSets, ReminderAssumption, Counts
      <3> QED BY <1>4, <1>5, <1>6, <2>1, <2>2, <2>4, <3>2
    <2> QED BY <2>3, <2>4
  <1>13. ASSUME NEW w \in Warnings PROVE mailed'[w] + Cardinality(Posting(w))' <= warned'[w]
    <2>1. PICK old, new : old = Posting(w) /\ new = Posting(w)'
      OBVIOUS
    <2>2. mailed[w] + Cardinality(old) <= warned[w] /\ warned[w] \in Nat /\ mailed[w] \in Nat
      BY <1>5, <2>1 DEF ReminderInv, NoticeFirst
    <2>3. CASE w = c
      <3>1. new \subseteq old \cup {i}
        BY <1>8, <2>1 DEF Posting
      <3>2. Cardinality(new) <= Cardinality(old) + 1 /\ Cardinality(new) \in Nat /\ Cardinality(old) \in Nat
        BY <2>1, <3>1, PostingSets, ReminderAssumption, Counts
      <3> QED BY <1>4, <1>6, <2>1, <2>2, <2>3, <3>2
    <2>4. CASE w # c
      <3>1. new \subseteq old
        BY <1>2, <1>8, <2>1, <2>4 DEF Posting
      <3>2. Cardinality(new) <= Cardinality(old) /\ Cardinality(new) \in Nat /\ Cardinality(old) \in Nat
        BY <2>1, <3>1, PostingSets, ReminderAssumption, Counts
      <3> QED BY <1>4, <1>6, <2>1, <2>2, <2>4, <3>2
    <2> QED BY <2>3, <2>4
  <1>14. CatchesUp'
    BY <1>4, <1>5, <1>6 DEF ReminderInv, CatchesUp, ReminderTypes
  <1> QED BY <1>11, <1>12, <1>13, <1>14 DEF ReminderInv, RepeatsPaid, NoticeFirst

\* A mail sent is one run's, and that run held it.
LEMMA SendMailStep == \A i \in Runners : ReminderInv /\ SendMail(i) => ReminderInv'
  <1> SUFFICES ASSUME NEW i \in Runners, ReminderInv, SendMail(i)
               PROVE  ReminderInv'
    OBVIOUS
  <1>1. PICK x : x = [runner[i] EXCEPT !.pc = "loop", !.cur = {}]
    OBVIOUS
  <1>2. PICK c \in Warnings : runner[i].cur = {c}
    BY AtRun DEF SendMail, Running
  <1>3. /\ x = [pc |-> "loop", due |-> runner[i].due, cur |-> {}, read |-> runner[i].read]
        /\ runner[i].pc = "mail" /\ x \in RunState
        /\ \A v \in runner[i].read : v \in runner[i].due \/ warned[v] > 0
    BY <1>1, AtRun DEF SendMail, RunState, Running
  <1>4. runner' = [runner EXCEPT ![i] = x]
    BY <1>1 DEF SendMail
  <1>5. UNCHANGED <<now, cronMode, cronLock, warned, covered, lockLost>>
    BY DEF SendMail
  <1>6. warned \in [Warnings -> Nat] /\ mailed \in [Warnings -> Nat]
    BY DEF ReminderInv, ReminderTypes
  <1>7. Cardinality({c}) = 1 /\ Cardinality({}) = 0
    BY FS_EmptySet, FS_Singleton
  <1>8. /\ mailed' \in [Warnings -> Nat]
        /\ \A w \in Warnings : mailed'[w] = mailed[w] \/ (w = c /\ mailed'[w] = mailed[w] + 1)
    <2>1. CASE mailed' = mailed
      BY <1>6, <2>1
    <2>2. CASE mailed' # mailed
      <3>1. mailed' = [w \in Warnings |-> mailed[w] + Cardinality({c} \cap {w})]
        BY <1>2, <2>2 DEF SendMail
      <3>2. \A w \in Warnings : Cardinality({c} \cap {w}) = IF w = c THEN 1 ELSE 0
        <4> SUFFICES ASSUME NEW w \in Warnings PROVE Cardinality({c} \cap {w}) = IF w = c THEN 1 ELSE 0
          OBVIOUS
        <4>1. CASE w = c
          <5>1. {c} \cap {w} = {c}
            BY <4>1
          <5> QED BY <1>7, <4>1, <5>1
        <4>2. CASE w # c
          <5>1. {c} \cap {w} = {}
            BY <4>2
          <5> QED BY <1>7, <4>2, <5>1
        <4> QED BY <4>1, <4>2
      <3> QED BY <1>6, <3>1, <3>2
    <2> QED BY <2>1, <2>2
  <1>9. \A j \in Runners : runner'[j] = IF j = i THEN x ELSE runner[j]
    BY <1>4, RunnerMoves
  <1>10. Running(x)'
    BY <1>3, <1>5 DEF Running, NoRun
  <1>11. ReminderTypes' /\ RunnersRun' /\ OrphansPaid'
    <2>1. /\ HolderRuns' /\ cronLock' \in Runners \cup {"free"}
          /\ \A j \in Runners : Orphan(runner[j], j)' => Orphan(runner[j], j)
      <3>1. x.pc # "idle" /\ runner[i].pc # "idle" /\ UNCHANGED cronLock
        BY <1>3, <1>5
      <3> QED BY <1>4, <3>1, SameHolder
    <2>2. UNCHANGED <<now, cronMode, lockLost>>
      BY <1>5
    <2>3. /\ warned' \in [Warnings -> Nat] /\ covered' \subseteq Warnings
          /\ \A w \in Warnings : warned[w] <= warned'[w]
      BY <1>5 DEF ReminderInv, ReminderTypes
    <2> QED BY <1>3, <1>4, <1>8, <1>10, <2>1, <2>2, <2>3, RunStep
  <1>12. \A w \in Warnings, j \in Runners : May(runner[j], w)' => May(runner[j], w)
    BY <1>3, <1>5, <1>9 DEF May
  <1>13. RepeatsPaid'
    BY <1>5, <1>12, RepeatsKept DEF RepeatsPaid
  <1>14. ASSUME NEW w \in Warnings PROVE mailed'[w] + Cardinality(Posting(w))' <= warned'[w]
    <2>1. PICK old, new : old = Posting(w) /\ new = Posting(w)'
      OBVIOUS
    <2>2. mailed[w] + Cardinality(old) <= warned[w] /\ warned[w] \in Nat /\ mailed[w] \in Nat
      BY <1>6, <2>1 DEF ReminderInv, NoticeFirst
    <2>3. CASE w = c
      <3>1. i \in old /\ new \subseteq old \ {i}
        BY <1>2, <1>3, <1>9, <2>1, <2>3 DEF Posting
      <3>2. Cardinality(new) <= Cardinality(old) - 1 /\ Cardinality(new) \in Nat /\ Cardinality(old) \in Nat
        BY <2>1, <3>1, PostingSets, ReminderAssumption, Counts
      <3> QED BY <1>5, <1>8, <2>1, <2>2, <3>2
    <2>4. CASE w # c
      <3>1. new \subseteq old
        BY <1>3, <1>9, <2>1 DEF Posting
      <3>2. Cardinality(new) <= Cardinality(old) /\ Cardinality(new) \in Nat /\ Cardinality(old) \in Nat
        BY <2>1, <3>1, PostingSets, ReminderAssumption, Counts
      <3> QED BY <1>5, <1>8, <2>1, <2>2, <2>4, <3>2
    <2> QED BY <2>3, <2>4
  <1>15. CatchesUp'
    BY <1>5 DEF ReminderInv, CatchesUp
  <1> QED BY <1>11, <1>13, <1>14, <1>15 DEF ReminderInv, NoticeFirst

\* A run that is over leaves nothing behind, and its lock if it has it still.
LEMMA Releases ==
    ASSUME ReminderInv, NEW i \in Runners, Release(i), UNCHANGED <<now, cronMode, warned, mailed, lockLost>>,
           covered' \subseteq Warnings, CatchesUp'
    PROVE  ReminderInv'
  <1>1. PICK x : x = NoRun
    OBVIOUS
  <1>2. runner' = [runner EXCEPT ![i] = x] /\ cronLock' = IF cronLock = i THEN "free" ELSE cronLock
    BY <1>1 DEF Release
  <1>3. x = [pc |-> "idle", due |-> {}, cur |-> {}, read |-> {}]
    BY <1>1 DEF NoRun
  <1>4. x \in RunState /\ Running(x)'
    BY <1>3 DEF RunState, Running, NoRun
  <1>5. x.cur \subseteq runner[i].cur /\ \A w \in Warnings : May(x, w)' => May(runner[i], w)
    BY <1>3 DEF May
  <1>6. \A j \in Runners : runner'[j] = IF j = i THEN x ELSE runner[j]
    BY <1>2, RunnerMoves
  <1>7. cronLock' \in Runners \cup {"free"}
    BY <1>2 DEF ReminderInv, ReminderTypes
  <1>8. HolderRuns'
    BY <1>2, <1>6, <1>7 DEF ReminderInv, OrphansPaid, HolderRuns
  <1>9. \A j \in Runners : Orphan(runner[j], j)' => Orphan(runner[j], j)
    BY <1>2, <1>3, <1>6 DEF Orphan
  <1> QED BY <1>2, <1>4, <1>5, <1>7, <1>8, <1>9, QuietRun

LEMMA FinishStep == \A i \in Runners : ReminderInv /\ Finish(i) => ReminderInv'
  <1> SUFFICES ASSUME NEW i \in Runners, ReminderInv, Finish(i)
               PROVE  ReminderInv'
    OBVIOUS
  <1>1. \A w \in runner[i].read : w \in Warnings /\ warned[w] > 0
    BY AtRun DEF Finish, RunState, Running
  <1>2. covered' \subseteq Warnings /\ CatchesUp'
    BY <1>1 DEF Finish, ReminderInv, ReminderTypes, CatchesUp
  <1>3. Release(i) /\ UNCHANGED <<now, cronMode, warned, mailed, lockLost>>
    BY DEF Finish
  <1> QED BY <1>2, <1>3, Releases

LEMMA RunnerDiesStep == \A i \in Runners : ReminderInv /\ RunnerDies(i) => ReminderInv'
  <1> SUFFICES ASSUME NEW i \in Runners, ReminderInv, RunnerDies(i)
               PROVE  ReminderInv'
    OBVIOUS
  <1>1. covered' \subseteq Warnings /\ CatchesUp'
    BY DEF RunnerDies, ReminderInv, ReminderTypes, CatchesUp
  <1>2. Release(i) /\ UNCHANGED <<now, cronMode, warned, mailed, lockLost>>
    BY DEF RunnerDies
  <1> QED BY <1>1, <1>2, Releases

\* The holder is the one run that loses its lock.
LEMMA LoseLockStep == ReminderInv /\ LoseLock => ReminderInv'
  <1> SUFFICES ASSUME ReminderInv, LoseLock
               PROVE  ReminderInv'
    OBVIOUS
  <1>1. UNCHANGED <<now, cronMode, runner, warned, mailed, covered>> /\ cronLock' = "free" /\ lockLost' = lockLost + 1
    BY DEF LoseLock
  <1>2. lockLost \in Nat /\ lockLost < LockLosses /\ LockLosses \in Nat
    BY ReminderAssumption DEF LoseLock, ReminderInv, ReminderTypes
  <1>3. ReminderTypes'
    BY <1>1, <1>2 DEF ReminderInv, ReminderTypes, Horizon
  <1>4. RunnersRun'
    BY <1>1 DEF ReminderInv, RunnersRun, Running
  <1>5. OrphansPaid'
    <2>1. Orphans' \subseteq Orphans \cup {cronLock}
      BY <1>1 DEF Orphans, Orphan
    <2>2. /\ Cardinality(Orphans') <= Cardinality(Orphans) + 1
          /\ Cardinality(Orphans') \in Nat /\ Cardinality(Orphans) \in Nat
      BY <2>1, OrphanSets, ReminderAssumption, Counts
    <2>3. Cardinality(Orphans) <= lockLost
      BY DEF ReminderInv, OrphansPaid
    <2>4. HolderRuns'
      BY <1>1 DEF HolderRuns
    <2> QED BY <1>1, <1>2, <2>2, <2>3, <2>4 DEF OrphansPaid
  <1>6. ASSUME NEW w \in Warnings PROVE warned'[w] + Cardinality(MayWrite(w))' <= 1 + lockLost'
    <2>1. MayWrite(w)' = MayWrite(w)
      BY <1>1 DEF MayWrite, May
    <2>2. Cardinality(MayWrite(w)) \in Nat
      BY MayWriteSets, ReminderAssumption, Counts
    <2>3. warned[w] \in Nat /\ warned[w] + Cardinality(MayWrite(w)) <= 1 + lockLost
      BY DEF ReminderInv, ReminderTypes, RepeatsPaid
    <2> QED BY <1>1, <1>2, <2>1, <2>2, <2>3
  <1>7. NoticeFirst'
    BY <1>1, NoticesKept
  <1>8. CatchesUp'
    BY <1>1 DEF ReminderInv, CatchesUp
  <1> QED BY <1>3, <1>4, <1>5, <1>6, <1>7, <1>8 DEF ReminderInv, RepeatsPaid

\* A step that touches neither a run nor the lock.
LEMMA RunsStill ==
    ASSUME ReminderInv, UNCHANGED <<cronMode, cronLock, runner, warned, mailed, covered, lockLost>>,
           now' \in Nat, now' <= Horizon
    PROVE  ReminderInv'
  <1>1. ReminderTypes'
    BY DEF ReminderInv, ReminderTypes, Horizon
  <1>2. RunnersRun'
    BY DEF ReminderInv, RunnersRun, Running
  <1>3. OrphansPaid'
    BY DEF ReminderInv, OrphansPaid, Orphans, Orphan, HolderRuns
  <1>4. RepeatsPaid'
    BY DEF ReminderInv, RepeatsPaid, MayWrite, May
  <1>5. NoticeFirst' /\ CatchesUp'
    BY DEF ReminderInv, NoticeFirst, Posting, CatchesUp
  <1> QED BY <1>1, <1>2, <1>3, <1>4, <1>5 DEF ReminderInv

LEMMA RemindersInductive == ReminderInv /\ [ReminderNext]_reminderVars => ReminderInv'
  <1> SUFFICES ASSUME ReminderInv, [ReminderNext]_reminderVars
               PROVE  ReminderInv'
    OBVIOUS
  <1>1. CASE ReminderTick
    <2>1. now \in Nat /\ Horizon \in Nat /\ now < Horizon /\ now' = now + 1
      BY <1>1, HorizonIsLast DEF ReminderTick, ReminderInv, ReminderTypes
    <2>2. now' \in Nat /\ now' <= Horizon
      BY <2>1
    <2>3. UNCHANGED <<cronMode, cronLock, runner, warned, mailed, covered, lockLost>>
      BY <1>1 DEF ReminderTick
    <2> QED BY <2>2, <2>3, RunsStill
  <1>2. CASE UNCHANGED reminderVars
    <2>1. UNCHANGED <<cronMode, cronLock, runner, warned, mailed, covered, lockLost>> /\ now' = now
      BY <1>2 DEF reminderVars
    <2>2. now' \in Nat /\ now' <= Horizon
      BY <2>1 DEF ReminderInv, ReminderTypes
    <2> QED BY <2>1, <2>2, RunsStill
  <1> QED BY <1>1, <1>2, StartStep, FindCandidatesStep, FilterSentStep, WriteNoticeStep, SendMailStep, FinishStep,
             RunnerDiesStep, LoseLockStep DEF ReminderNext, StartInProcess, StartOverHttp

\* However instances start, die and lose their lock: nobody is told twice of
\* one threshold, by the bell or by mail, more often than a connection was
\* lost, and a run that ends well leaves nobody in a window unwarned
\* (SchedulerService.withCronLock and doRenewalReminders).
THEOREM WarningsAreGivenOnce == ReminderSpec => [](ReminderTypeOK /\ WarnedOnce)
  <1>1. ReminderInit => ReminderInv
    <2> SUFFICES ASSUME ReminderInit PROVE ReminderInv
      OBVIOUS
    <2>1. \A i \in Runners : runner[i] = NoRun
      BY DEF ReminderInit
    <2>2. NoRun = [pc |-> "idle", due |-> {}, cur |-> {}, read |-> {}]
      BY DEF NoRun
    <2>3. ReminderTypes
      BY <2>2, HorizonIsLast, ReminderAssumption DEF ReminderInit, ReminderTypes, RunState
    <2>4. RunnersRun
      BY <2>1, <2>2 DEF RunnersRun, Running, NoRun
    <2>5. Cardinality({}) = 0
      BY FS_EmptySet
    <2>6. Orphans = {} /\ \A w \in Warnings : MayWrite(w) = {} /\ Posting(w) = {}
      BY <2>1, <2>2 DEF Orphans, Orphan, MayWrite, May, Posting
    <2>7. OrphansPaid
      BY <2>5, <2>6 DEF ReminderInit, OrphansPaid, HolderRuns
    <2>8. RepeatsPaid /\ NoticeFirst /\ CatchesUp
      BY <2>5, <2>6 DEF ReminderInit, RepeatsPaid, NoticeFirst, CatchesUp
    <2> QED BY <2>3, <2>4, <2>7, <2>8 DEF ReminderInv
  <1>2. ReminderInv => ReminderTypeOK /\ WarnedOnce
    <2> SUFFICES ASSUME ReminderInv PROVE ReminderTypeOK /\ WarnedOnce
      OBVIOUS
    <2>1. ReminderTypeOK
      BY HorizonIsLast, AtRun DEF ReminderInv, ReminderTypes, ReminderTypeOK, RunState
    <2>2. ASSUME NEW w \in Warnings PROVE mailed[w] <= warned[w] /\ warned[w] <= 1 + lockLost
      <3>1. Cardinality(MayWrite(w)) \in Nat /\ Cardinality(Posting(w)) \in Nat
        BY MayWriteSets, PostingSets, ReminderAssumption, Counts
      <3>2. warned[w] \in Nat /\ mailed[w] \in Nat /\ lockLost \in Nat
        BY ReminderAssumption DEF ReminderInv, ReminderTypes
      <3>3. warned[w] + Cardinality(MayWrite(w)) <= 1 + lockLost /\ mailed[w] + Cardinality(Posting(w)) <= warned[w]
        BY DEF ReminderInv, RepeatsPaid, NoticeFirst
      <3> QED BY <3>1, <3>2, <3>3
    <2> QED BY <2>1, <2>2 DEF WarnedOnce, NotTwice, ReminderInv
  <1> QED BY <1>1, <1>2, RemindersInductive, PTL DEF ReminderSpec

-----------------------------------------------------------------------------
(* Consent                                                                 *)

ConsentRecords == [document : Documents, version : 1..MaxVersions, granted : BOOLEAN]

\* A list of n rows, one for each of some documents.
OneEach(rows, n, docs) ==
    /\ \A k \in 1..n : rows[k].document \in docs
    /\ \A d \in docs : \E k \in 1..n :
          rows[k].document = d /\ \A m \in 1..n : rows[m].document = d => m = k

\* One insert writes one row for each document, and nothing else.
LEMMA RowsListed ==
    ASSUME NEW docs \in SUBSET Documents, versions \in [Documents -> 1..MaxVersions]
    PROVE  /\ IsFiniteSet(docs)
           /\ ConsentRows(docs) \in [1..Cardinality(docs) -> ConsentRecords]
           /\ \A k \in 1..Cardinality(docs) :
                 ConsentRows(docs)[k] = Consent(ConsentRows(docs)[k].document, TRUE)
           /\ OneEach(ConsentRows(docs), Cardinality(docs), docs)
  <1>1. IsFiniteSet(Documents)
    BY ConsentAssumption, FS_AddElement DEF Documents
  <1>2. IsFiniteSet(docs)
    BY <1>1, FS_Subset
  <1>3. PICK all : all = {Consent(d, TRUE) : d \in docs}
    OBVIOUS
  <1>4. PICK f : f = [d \in docs |-> Consent(d, TRUE)]
    OBVIOUS
  <1>5. \A d \in docs : Consent(d, TRUE) \in ConsentRecords /\ Consent(d, TRUE).document = d
    BY ConsentAssumption DEF Consent, ConsentRecords
  <1>6. f \in [docs -> all]
    BY <1>3, <1>4
  <1>7. \A y \in all : \E d \in docs : f[d] = y
    BY <1>3, <1>4
  <1>8. \A d, e \in docs : f[d] = f[e] => d = e
    BY <1>4, <1>5
  <1>9. f \in Bijection(docs, all)
    BY <1>6, <1>7, <1>8 DEF Bijection, Injection, Surjection, IsInjective
  <1>10. ExistsBijection(docs, all)
    BY <1>9 DEF ExistsBijection
  <1>11. IsFiniteSet(all) /\ Cardinality(all) = Cardinality(docs)
    BY <1>2, <1>10, FS_Bijection
  <1>12. PICK n : n = Cardinality(docs)
    OBVIOUS
  <1>13. n \in Nat /\ ExistsBijection(1..n, all)
    BY <1>2, <1>11, <1>12, FS_CardinalityType
  <1>14. PICK rows : rows = CHOOSE g \in [1..n -> all] : Seqs!IsInjective(g)
    OBVIOUS
  <1>15. ConsentRows(docs) = rows
    BY <1>3, <1>11, <1>12, <1>14 DEF ConsentRows, Seqs!SetToSeq, Seqs!Cardinality, Cardinality
  <1>16. rows \in [1..n -> all] /\ IsInjective(rows)
    <2>1. PICK g \in Bijection(1..n, all) : TRUE
      BY <1>13 DEF ExistsBijection
    <2>2. g \in [1..n -> all] /\ Seqs!IsInjective(g)
      BY <2>1 DEF Bijection, Injection, IsInjective, Seqs!IsInjective
    <2>3. rows \in [1..n -> all] /\ Seqs!IsInjective(rows)
      BY <1>14, <2>2
    <2> QED BY <2>3 DEF IsInjective, Seqs!IsInjective
  <1>17. rows \in Surjection(1..n, all)
    <2>1. rows \in Injection(1..n, all)
      BY <1>16 DEF Injection
    <2>2. IsFiniteSet(1..n) /\ Cardinality(1..n) = n
      BY <1>13, FS_Interval
    <2>3. Cardinality(1..n) = Cardinality(all)
      BY <1>11, <1>12, <2>2
    <2> QED BY <1>11, <2>1, <2>3, FS_Injection
  <1>18. \A k \in 1..n : rows[k] \in ConsentRecords /\ rows[k] = Consent(rows[k].document, TRUE) /\ rows[k].document \in docs
    <2> SUFFICES ASSUME NEW k \in 1..n
                 PROVE  rows[k] \in ConsentRecords /\ rows[k] = Consent(rows[k].document, TRUE) /\ rows[k].document \in docs
      OBVIOUS
    <2>1. rows[k] \in all
      BY <1>16
    <2>2. PICK d \in docs : rows[k] = Consent(d, TRUE)
      BY <1>3, <2>1
    <2> QED BY <1>5, <2>2
  <1>19. ASSUME NEW d \in docs
         PROVE  \E k \in 1..n : rows[k].document = d /\ \A m \in 1..n : rows[m].document = d => m = k
    <2>1. PICK k \in 1..n : rows[k] = Consent(d, TRUE)
      BY <1>3, <1>17 DEF Surjection
    <2>2. \A m \in 1..n : rows[m].document = d => rows[m] = rows[k]
      BY <1>18, <2>1
    <2>3. \A m \in 1..n : rows[m].document = d => m = k
      BY <1>16, <2>2 DEF IsInjective
    <2> QED BY <1>5, <2>1, <2>3
  <1>20. rows \in [1..n -> ConsentRecords]
    BY <1>16, <1>18
  <1>21. OneEach(rows, n, docs)
    BY <1>18, <1>19 DEF OneEach
  <1> QED BY <1>2, <1>12, <1>15, <1>18, <1>20, <1>21

\* The row of a document that stands in a list of rows.
Newest(rows, d, r) ==
    \E i \in 1..Len(rows) :
        rows[i] = r /\ r.document = d /\ \A n \in (i + 1)..Len(rows) : rows[n].document # d

LEMMA NewestStands ==
    ASSUME consents \in Seq(ConsentRecords)
    PROVE  /\ \A d : d \in OutdatedDocuments <=>
                  d \in Mandatory /\ \A r \in ConsentRecords : Newest(consents, d, r) => r.version # versions[d]
           /\ \A d : IsGranted(d) <=> \E r \in ConsentRecords : Newest(consents, d, r) /\ r.granted
  <1>1. DOMAIN consents = 1..Len(consents) /\ \A i \in 1..Len(consents) : consents[i] \in ConsentRecords
    OBVIOUS
  <1>2. \A d : LatestOf(d) = {i \in 1..Len(consents) : consents[i].document = d
                                /\ \A n \in (i + 1)..Len(consents) : consents[n].document # d}
    BY <1>1 DEF LatestOf
  <1>3. ASSUME NEW d, NEW r PROVE Newest(consents, d, r) <=> \E i \in LatestOf(d) : consents[i] = r
    BY <1>2 DEF Newest
  <1>4. \A d : \A i \in LatestOf(d) : consents[i] \in ConsentRecords
    BY <1>1, <1>2
  <1> QED BY <1>3, <1>4 DEF OutdatedDocuments, IsGranted

\* The new row of each document is the newest.
LastOfEach(old, new, m, docs) ==
    \A d \in docs : \E k \in 1..m :
        new[k].document = d /\ \A r : Newest(old \o new, d, r) <=> r = new[k]

\* Rows that come last stand for their documents, and for no others.
LEMMA RowsAppended ==
    ASSUME NEW old \in Seq(ConsentRecords), NEW m \in Nat, NEW new \in [1..m -> ConsentRecords],
           NEW docs, OneEach(new, m, docs)
    PROVE  /\ old \o new \in Seq(ConsentRecords)
           /\ \A i \in 1..Len(old \o new) : (\E k \in 1..Len(old) : (old \o new)[i] = old[k])
                                                \/ (\E k \in 1..m : (old \o new)[i] = new[k])
           /\ \A d, r : d \notin docs => (Newest(old \o new, d, r) <=> Newest(old, d, r))
           /\ LastOfEach(old, new, m, docs)
  <1>1. new \in Seq(ConsentRecords) /\ Len(new) = m
    OBVIOUS
  <1>2. PICK both : both = old \o new
    OBVIOUS
  <1>3. PICK l : l = Len(old)
    OBVIOUS
  <1>4. /\ both \in Seq(ConsentRecords) /\ Len(both) = l + m /\ l \in Nat
        /\ \A i \in 1..l : both[i] = old[i]
        /\ \A i \in (l + 1)..(l + m) : both[i] = new[i - l]
    <2>1. l \in Nat /\ both \in Seq(ConsentRecords) /\ Len(both) = l + m
      <3>1. Len(old) \in Nat
        OBVIOUS
      <3>2. old \o new \in Seq(ConsentRecords) /\ Len(old \o new) = Len(old) + Len(new)
        BY <1>1, ConcatProperties
      <3> QED BY <1>1, <1>2, <1>3, <3>1, <3>2
    <2>2. \A i \in 1..(l + m) : both[i] = IF i <= l THEN old[i] ELSE new[i - l]
      BY <1>1, <1>2, <1>3, ConcatProperties
    <2>3. \A i \in 1..l : i \in 1..(l + m) /\ i <= l
      BY <2>1
    <2>4. \A i \in (l + 1)..(l + m) : i \in 1..(l + m) /\ ~(i <= l)
      BY <2>1
    <2> QED BY <2>1, <2>2, <2>3, <2>4
  <1>5. \A k \in 1..m : both[l + k] = new[k] /\ l + k \in (l + 1)..(l + m)
    <2> SUFFICES ASSUME NEW k \in 1..m PROVE both[l + k] = new[k] /\ l + k \in (l + 1)..(l + m)
      OBVIOUS
    <2>1. l + k \in (l + 1)..(l + m) /\ (l + k) - l = k
      BY <1>4
    <2> QED BY <1>4, <2>1
  <1>6. \A i \in 1..(l + m) : i \in 1..l \/ (i \in (l + 1)..(l + m) /\ i - l \in 1..m)
    BY <1>4
  <1>7. ASSUME NEW d, NEW r, d \notin docs PROVE Newest(both, d, r) <=> Newest(old, d, r)
    <2>1. ASSUME Newest(old, d, r) PROVE Newest(both, d, r)
      <3>1. PICK i \in 1..l : old[i] = r /\ r.document = d /\ \A n \in (i + 1)..l : old[n].document # d
        BY <1>3, <2>1 DEF Newest
      <3>2. \A n \in (i + 1)..(l + m) : both[n].document # d
        <4> SUFFICES ASSUME NEW n \in (i + 1)..(l + m) PROVE both[n].document # d
          OBVIOUS
        <4>1. CASE n \in 1..l
          BY <1>4, <3>1, <4>1
        <4>2. CASE n \notin 1..l
          <5>1. n \in (l + 1)..(l + m) /\ n - l \in 1..m
            BY <1>4, <4>2
          <5> QED BY <1>4, <1>7, <5>1 DEF OneEach
        <4> QED BY <4>1, <4>2
      <3>3. i \in 1..(l + m) /\ both[i] = r
        BY <1>4, <3>1
      <3> QED BY <1>4, <3>1, <3>2, <3>3 DEF Newest
    <2>2. ASSUME Newest(both, d, r) PROVE Newest(old, d, r)
      <3>1. PICK i \in 1..(l + m) : both[i] = r /\ r.document = d /\ \A n \in (i + 1)..(l + m) : both[n].document # d
        BY <1>4, <2>2 DEF Newest
      <3>2. i \in 1..l
        BY <1>4, <1>6, <1>7, <3>1 DEF OneEach
      <3>3. \A n \in (i + 1)..l : old[n].document # d
        BY <1>4, <3>1, <3>2
      <3> QED BY <1>3, <1>4, <3>1, <3>2, <3>3 DEF Newest
    <2> QED BY <2>1, <2>2
  <1>8. ASSUME NEW d \in docs
        PROVE  \E k \in 1..m : new[k].document = d /\ \A r : Newest(both, d, r) <=> r = new[k]
    <2>1. PICK k \in 1..m : new[k].document = d /\ \A n \in 1..m : new[n].document = d => n = k
      BY DEF OneEach
    <2>2. \A n \in (l + k + 1)..(l + m) : both[n].document # d
      <3> SUFFICES ASSUME NEW n \in (l + k + 1)..(l + m) PROVE both[n].document # d
        OBVIOUS
      <3>1. l \in Nat /\ m \in Nat /\ k \in Nat /\ 1 <= k /\ n \in Nat /\ l + k + 1 <= n /\ n <= l + m
        BY <1>4
      <3>2. n - l \in 1..m /\ n - l # k /\ n \in (l + 1)..(l + m)
        BY <3>1
      <3>3. both[n] = new[n - l]
        BY <1>4, <3>2
      <3> QED BY <2>1, <3>2, <3>3
    <2>3. l + k \in 1..(l + m) /\ both[l + k] = new[k]
      BY <1>4, <1>5
    <2>4. Newest(both, d, new[k])
      BY <1>4, <2>1, <2>2, <2>3 DEF Newest
    <2>5. ASSUME NEW r, Newest(both, d, r) PROVE r = new[k]
      <3>1. PICK i \in 1..(l + m) : both[i] = r /\ r.document = d /\ \A n \in (i + 1)..(l + m) : both[n].document # d
        BY <1>4, <2>5 DEF Newest
      <3>2. ~(i < l + k)
        BY <1>4, <1>5, <2>1, <2>3, <3>1
      <3>3. i \in (l + 1)..(l + m) /\ i - l \in 1..m /\ both[i] = new[i - l]
        BY <1>4, <3>2
      <3>4. i - l = k
        BY <2>1, <3>1, <3>3
      <3> QED BY <3>1, <3>3, <3>4
    <2> QED BY <2>1, <2>4, <2>5
  <1>9. \A i \in 1..(l + m) : (\E k \in 1..l : both[i] = old[k]) \/ (\E k \in 1..m : both[i] = new[k])
    BY <1>4, <1>6
  <1>10. both \in Seq(ConsentRecords) /\ Len(both) = l + m
    BY <1>4
  <1>11. \A i \in 1..Len(both) : (\E k \in 1..Len(old) : both[i] = old[k]) \/ (\E k \in 1..m : both[i] = new[k])
    BY <1>3, <1>9, <1>10
  <1>12. \A d, r : d \notin docs => (Newest(both, d, r) <=> Newest(old, d, r))
    BY <1>7
  <1>13. LastOfEach(old, new, m, docs)
    BY <1>2, <1>8 DEF LastOfEach
  <1> QED BY <1>2, <1>10, <1>11, <1>12, <1>13

\* What the user agreed to is what the newest rows say; nobody is mailed
\* unasked more often than there are senders that had asked before.
ConsentInv ==
    /\ ConsentTypeOK
    /\ \A i \in 1..Len(consents) : consents[i].version <= versions[consents[i].document]
    /\ \A d \in Mandatory :
          d \in agreed <=> \E r \in ConsentRecords : Newest(consents, d, r) /\ r.version = versions[d]
    /\ "marketing" \in agreed <=> \E r \in ConsentRecords : Newest(consents, "marketing", r) /\ r.granted
    /\ "marketing" \in agreed => unwanted = 0
    /\ unwanted + Cardinality({s \in Campaigns : campaign[s] = "asked"}) <= Cardinality(Campaigns)

LEMMA ConsentTypes == ConsentTypeOK => consents \in Seq(ConsentRecords) /\ versions \in [Documents -> 1..MaxVersions]
  BY DEF ConsentTypeOK, ConsentRecords

LEMMA ConsentHolds == ConsentInv => ConsentStands
  <1> SUFFICES ASSUME ConsentInv PROVE ConsentStands
    OBVIOUS
  <1>1. consents \in Seq(ConsentRecords)
    BY ConsentTypes DEF ConsentInv
  <1>2. PromptIsExact
    <2>1. \A d \in Mandatory : d \in OutdatedDocuments <=> d \notin agreed
      BY <1>1, NewestStands DEF ConsentInv
    <2>2. OutdatedDocuments \subseteq Mandatory
      BY DEF OutdatedDocuments
    <2> QED BY <2>1, <2>2 DEF PromptIsExact
  <1>3. WithdrawalStops
    <2>1. IsFiniteSet(Campaigns)
      BY ConsentAssumption
    <2>2. Cardinality({s \in Campaigns : campaign[s] = "asked"}) \in Nat /\ Cardinality(Campaigns) \in Nat
      BY <2>1, FS_Subset, FS_CardinalityType
    <2>3. unwanted \in Nat /\ unwanted + Cardinality({s \in Campaigns : campaign[s] = "asked"}) <= Cardinality(Campaigns)
      BY DEF ConsentInv, ConsentTypeOK
    <2> QED BY <2>2, <2>3 DEF WithdrawalStops
  <1> QED BY <1>2, <1>3 DEF ConsentStands

\* Rows written at the live versions, and what they say agreed to.
LEMMA RowsAgreed ==
    ASSUME ConsentInv, NEW m \in Nat, NEW new \in [1..m -> ConsentRecords], consents' = consents \o new,
           UNCHANGED <<versions, secret, links, campaign>>, unwanted' \in {0, unwanted}, agreed' \subseteq Documents,
           NEW docs, OneEach(new, m, docs),
           \A k \in 1..m : new[k].version = versions[new[k].document],
           \A d \in Documents : d \notin docs => (d \in agreed' <=> d \in agreed),
           \A k \in 1..m : new[k].document \in Mandatory => new[k].document \in agreed',
           \A k \in 1..m : new[k].document = "marketing" => (new[k].granted <=> "marketing" \in agreed'),
           "marketing" \in agreed' => unwanted' = 0
    PROVE  ConsentInv'
  <1>1. consents \in Seq(ConsentRecords) /\ versions \in [Documents -> 1..MaxVersions]
    BY ConsentTypes DEF ConsentInv
  <1>2. PICK both : both = consents \o new
    OBVIOUS
  <1>3. /\ both \in Seq(ConsentRecords)
        /\ \A i \in 1..Len(both) : (\E k \in 1..Len(consents) : both[i] = consents[k])
                                      \/ (\E k \in 1..m : both[i] = new[k])
        /\ \A d, r : d \notin docs => (Newest(both, d, r) <=> Newest(consents, d, r))
        /\ \A d \in docs : \E k \in 1..m :
              new[k].document = d /\ \A r : Newest(both, d, r) <=> r = new[k]
    <2>1. PICK old \in Seq(ConsentRecords) : old = consents
      BY <1>1
    <2>2. /\ old \o new \in Seq(ConsentRecords)
          /\ \A i \in 1..Len(old \o new) : (\E k \in 1..Len(old) : (old \o new)[i] = old[k])
                                               \/ (\E k \in 1..m : (old \o new)[i] = new[k])
          /\ \A d, r : d \notin docs => (Newest(old \o new, d, r) <=> Newest(old, d, r))
          /\ LastOfEach(old, new, m, docs)
      BY RowsAppended
    <2> QED BY <1>2, <2>1, <2>2 DEF LastOfEach
  <1>4. consents' = both /\ versions' = versions /\ campaign' = campaign
    BY <1>2
  <1>5. ConsentTypeOK'
    BY <1>3, <1>4 DEF ConsentInv, ConsentTypeOK, ConsentRecords
  <1>6. \A i \in 1..Len(both) : both[i].version <= versions[both[i].document]
    <2>1. \A k \in 1..Len(consents) : consents[k].version <= versions[consents[k].document]
      BY DEF ConsentInv
    <2>2. \A k \in 1..m : new[k].version <= versions[new[k].document]
      <3> SUFFICES ASSUME NEW k \in 1..m PROVE new[k].version <= versions[new[k].document]
        OBVIOUS
      <3>1. new[k].version = versions[new[k].document] /\ new[k].version \in 1..MaxVersions
        BY DEF ConsentRecords
      <3> QED BY <3>1, ConsentAssumption
    <2> QED BY <1>3, <2>1, <2>2
  <1>7. \A d \in Mandatory :
           d \in agreed' <=> \E r \in ConsentRecords : Newest(both, d, r) /\ r.version = versions[d]
    <2> SUFFICES ASSUME NEW d \in Mandatory
                 PROVE  d \in agreed' <=> \E r \in ConsentRecords : Newest(both, d, r) /\ r.version = versions[d]
      OBVIOUS
    <2>1. CASE d \in docs
      <3>1. PICK k \in 1..m : new[k].document = d /\ \A r : Newest(both, d, r) <=> r = new[k]
        BY <1>3, <2>1
      <3>2. d \in agreed' /\ new[k] \in ConsentRecords /\ new[k].version = versions[d]
        BY <3>1
      <3> QED BY <3>1, <3>2
    <2>2. CASE d \notin docs
      <3>1. d \in agreed <=> \E r \in ConsentRecords : Newest(consents, d, r) /\ r.version = versions[d]
        BY DEF ConsentInv
      <3>2. d \in agreed' <=> d \in agreed
        BY <2>2 DEF Documents
      <3> QED BY <1>3, <2>2, <3>1, <3>2
    <2> QED BY <2>1, <2>2
  <1>8. "marketing" \in agreed' <=> \E r \in ConsentRecords : Newest(both, "marketing", r) /\ r.granted
    <2>1. CASE "marketing" \in docs
      <3>1. PICK k \in 1..m : new[k].document = "marketing" /\ \A r : Newest(both, "marketing", r) <=> r = new[k]
        BY <1>3, <2>1
      <3>2. new[k] \in ConsentRecords /\ (new[k].granted <=> "marketing" \in agreed')
        BY <3>1
      <3> QED BY <3>1, <3>2
    <2>2. CASE "marketing" \notin docs
      <3>1. "marketing" \in agreed <=> \E r \in ConsentRecords : Newest(consents, "marketing", r) /\ r.granted
        BY DEF ConsentInv
      <3>2. "marketing" \in agreed' <=> "marketing" \in agreed
        BY <2>2 DEF Documents
      <3> QED BY <1>3, <2>2, <3>1, <3>2
    <2> QED BY <2>1, <2>2
  <1>9. unwanted' + Cardinality({s \in Campaigns : campaign[s] = "asked"}) <= Cardinality(Campaigns)
    <2>1. IsFiniteSet(Campaigns)
      BY ConsentAssumption
    <2>2. Cardinality({s \in Campaigns : campaign[s] = "asked"}) \in Nat /\ Cardinality(Campaigns) \in Nat
      BY <2>1, FS_Subset, FS_CardinalityType
    <2>3. unwanted \in Nat /\ unwanted + Cardinality({s \in Campaigns : campaign[s] = "asked"}) <= Cardinality(Campaigns)
      BY DEF ConsentInv, ConsentTypeOK
    <2> QED BY <2>2, <2>3
  <1>10. (unwanted + Cardinality({s \in Campaigns : campaign[s] = "asked"}) <= Cardinality(Campaigns))'
    BY <1>4, <1>9
  <1> QED BY <1>4, <1>5, <1>6, <1>7, <1>8, <1>10 DEF ConsentInv

\* One row, for one document.
LEMMA OneRow ==
    ASSUME ConsentInv, NEW d \in Documents, NEW yes \in BOOLEAN, consents' = Append(consents, Consent(d, yes))
    PROVE  \E new \in [1..1 -> ConsentRecords] :
              consents' = consents \o new /\ OneEach(new, 1, {d}) /\ new[1] = Consent(d, yes)
  <1>1. consents \in Seq(ConsentRecords) /\ versions \in [Documents -> 1..MaxVersions]
    BY ConsentTypes DEF ConsentInv
  <1>2. PICK r : r = Consent(d, yes)
    OBVIOUS
  <1>3. r \in ConsentRecords /\ r.document = d
    BY <1>1, <1>2 DEF Consent, ConsentRecords
  <1>4. PICK new : new = <<r>>
    OBVIOUS
  <1>5. new \in [1..1 -> ConsentRecords] /\ new[1] = r
    BY <1>3, <1>4
  <1>6. consents' = consents \o new
    BY <1>1, <1>2, <1>3, <1>4
  <1>7. OneEach(new, 1, {d})
    BY <1>3, <1>5 DEF OneEach
  <1> QED BY <1>2, <1>5, <1>6, <1>7

LEMMA AcceptAgrees ==
    ASSUME ConsentInv, NEW docs \in SUBSET Mandatory, Accept(docs)
    PROVE  ConsentInv'
  <1>1. versions \in [Documents -> 1..MaxVersions] /\ docs \in SUBSET Documents
    BY ConsentTypes DEF ConsentInv, Documents
  <1>2. IsFiniteSet(docs)
    BY <1>1, RowsListed
  <1>3. PICK m \in Nat : m = Cardinality(docs)
    BY <1>2, FS_CardinalityType
  <1>4. PICK new \in [1..m -> ConsentRecords] :
           /\ new = ConsentRows(docs) /\ OneEach(new, m, docs)
           /\ \A k \in 1..m : new[k] = Consent(new[k].document, TRUE)
    BY <1>1, <1>3, RowsListed
  <1>5. \A k \in 1..m : new[k].document \in docs
    BY <1>4 DEF OneEach
  <1>6. /\ consents' = consents \o new /\ agreed' = agreed \cup docs
        /\ UNCHANGED <<versions, secret, links, campaign>> /\ unwanted' \in {0, unwanted}
    BY <1>4 DEF Accept
  <1>7. agreed' \subseteq Documents
    BY <1>1, <1>6 DEF ConsentInv, ConsentTypeOK
  <1>8. \A k \in 1..m : new[k].version = versions[new[k].document]
    BY <1>4 DEF Consent
  <1>9. \A d \in Documents : d \notin docs => (d \in agreed' <=> d \in agreed)
    BY <1>6
  <1>10. \A k \in 1..m : new[k].document \in Mandatory => new[k].document \in agreed'
    BY <1>5, <1>6
  <1>11. \A k \in 1..m : new[k].document = "marketing" => (new[k].granted <=> "marketing" \in agreed')
    BY <1>5, ConsentAssumption
  <1>12. "marketing" \in agreed' => unwanted' = 0
    BY <1>6, ConsentAssumption DEF ConsentInv, Accept
  <1> QED BY <1>4, <1>6, <1>7, <1>8, <1>9, <1>10, <1>11, <1>12, RowsAgreed

\* A word on marketing, and a matching agreement.
LEMMA MarketingAgrees ==
    ASSUME ConsentInv, NEW yes \in BOOLEAN, SetConsent("marketing", yes),
           agreed' = IF yes THEN agreed \cup {"marketing"} ELSE agreed \ {"marketing"},
           unwanted' = IF yes THEN 0 ELSE unwanted,
           UNCHANGED <<versions, secret, links, campaign>>
    PROVE  ConsentInv'
  <1>1. "marketing" \in Documents
    BY DEF Documents
  <1>2. consents' = Append(consents, Consent("marketing", yes))
    BY DEF SetConsent
  <1>3. PICK new \in [1..1 -> ConsentRecords] :
           consents' = consents \o new /\ OneEach(new, 1, {"marketing"}) /\ new[1] = Consent("marketing", yes)
    BY <1>1, <1>2, OneRow
  <1>4. \A k \in 1..1 : new[k].document = "marketing" /\ new[k].version = versions[new[k].document] /\ new[k].granted = yes
    BY <1>3 DEF Consent
  <1>5. agreed' \subseteq Documents
    BY <1>1 DEF ConsentInv, ConsentTypeOK
  <1>6. \A d \in Documents : d \notin {"marketing"} => (d \in agreed' <=> d \in agreed)
    OBVIOUS
  <1>7. \A k \in 1..1 : new[k].document \in Mandatory => new[k].document \in agreed'
    BY <1>4, ConsentAssumption
  <1>8. \A k \in 1..1 : new[k].document = "marketing" => (new[k].granted <=> "marketing" \in agreed')
    BY <1>4
  <1>9. ("marketing" \in agreed' => unwanted' = 0) /\ unwanted' \in {0, unwanted}
    BY DEF ConsentInv
  <1>10. \A k \in 1..1 : new[k].version = versions[new[k].document]
    BY <1>4
  <1>11. 1 \in Nat
    OBVIOUS
  <1> QED BY <1>3, <1>5, <1>6, <1>7, <1>8, <1>9, <1>10, <1>11, RowsAgreed

\* Who has asked is counted before the mail is.
LEMMA MailCounted ==
    ASSUME ConsentInv, NEW s \in Campaigns, AskConsent(s) \/ SendMarketing(s)
    PROVE  ConsentInv'
  <1>1. IsFiniteSet(Campaigns) /\ campaign \in [Campaigns -> {"idle", "asked"}]
    BY ConsentAssumption DEF ConsentInv, ConsentTypeOK
  <1>2. PICK asked, askedNow : /\ asked = {c \in Campaigns : campaign[c] = "asked"}
                               /\ askedNow = {c \in Campaigns : campaign'[c] = "asked"}
    OBVIOUS
  <1>3. IsFiniteSet(asked) /\ Cardinality(asked) \in Nat /\ Cardinality(askedNow) <= Cardinality(Campaigns)
           /\ Cardinality(askedNow) \in Nat /\ Cardinality(Campaigns) \in Nat
    BY <1>1, <1>2, FS_Subset, FS_CardinalityType
  <1>4. unwanted \in Nat /\ unwanted + Cardinality(asked) <= Cardinality(Campaigns)
           /\ ("marketing" \in agreed => unwanted = 0)
    BY <1>2 DEF ConsentInv, ConsentTypeOK
  <1>5. CASE AskConsent(s)
    <2>1. consents \in Seq(ConsentRecords)
      BY ConsentTypes DEF ConsentInv
    <2>2. "marketing" \in agreed
      BY <1>5, <2>1, NewestStands DEF AskConsent, ConsentInv
    <2>3. unwanted' + Cardinality(askedNow) <= Cardinality(Campaigns)
      BY <1>3, <1>4, <1>5, <2>2 DEF AskConsent
    <2> QED BY <1>1, <1>2, <1>5, <2>3 DEF AskConsent, ConsentInv, ConsentTypeOK
  <1>6. CASE SendMarketing(s)
    <2>1. askedNow = asked \ {s} /\ s \in asked
      BY <1>1, <1>2, <1>6 DEF SendMarketing
    <2>2. Cardinality(askedNow) = Cardinality(asked) - 1
      BY <1>3, <2>1, FS_RemoveElement
    <2>3. unwanted' \in {unwanted, unwanted + 1} /\ ("marketing" \in agreed => unwanted' = unwanted)
      BY <1>6 DEF SendMarketing
    <2>4. unwanted' + Cardinality(askedNow) <= Cardinality(Campaigns)
      BY <1>3, <1>4, <2>2, <2>3
    <2>5. UNCHANGED <<consents, versions, secret, agreed>> /\ links' \subseteq links \cup {secret}
             /\ campaign' \in [Campaigns -> {"idle", "asked"}]
      BY <1>1, <1>6 DEF SendMarketing
    <2>6. ConsentTypeOK'
      BY <1>4, <2>3, <2>5 DEF ConsentInv, ConsentTypeOK
    <2>7. "marketing" \in agreed' => unwanted' = 0
      BY <1>4, <2>3, <2>5
    <2> QED BY <1>2, <2>4, <2>5, <2>6, <2>7 DEF ConsentInv
  <1> QED BY <1>5, <1>6

\* No row was written at a wording that is still to come.
LEMMA RewordAsks ==
    ASSUME ConsentInv, NEW d \in Documents, Reword(d)
    PROVE  ConsentInv'
  <1>1. consents \in Seq(ConsentRecords) /\ versions \in [Documents -> 1..MaxVersions]
    BY ConsentTypes DEF ConsentInv
  <1>2. PICK v : v \in Nat /\ v = versions[d] /\ v < MaxVersions
    BY <1>1, ConsentAssumption DEF Reword
  <1>3. /\ \A e \in Documents : versions'[e] = IF e = d THEN v + 1 ELSE versions[e]
        /\ versions' \in [Documents -> 1..MaxVersions]
    BY <1>1, <1>2, ConsentAssumption DEF Reword
  <1>4. UNCHANGED <<consents, secret, links, campaign, unwanted>> /\ agreed' = agreed \ ({d} \cap Mandatory)
    BY DEF Reword
  <1>5. \A i \in 1..Len(consents) : consents[i].document \in Documents /\ consents[i].version \in Nat
    <2> SUFFICES ASSUME NEW i \in 1..Len(consents)
                 PROVE  consents[i].document \in Documents /\ consents[i].version \in Nat
      OBVIOUS
    <2>1. consents[i] \in ConsentRecords
      BY <1>1
    <2> QED BY <2>1, ConsentAssumption DEF ConsentRecords
  <1>6. \A i \in 1..Len(consents) : consents[i].version <= versions'[consents[i].document]
    <2> SUFFICES ASSUME NEW i \in 1..Len(consents) PROVE consents[i].version <= versions'[consents[i].document]
      OBVIOUS
    <2>1. consents[i].version <= versions[consents[i].document]
      BY DEF ConsentInv
    <2> QED BY <1>2, <1>3, <1>5, <2>1
  <1>7. \A e, r : Newest(consents, e, r) => r.document = e /\ \E i \in 1..Len(consents) : r = consents[i]
    BY DEF Newest
  <1>8. \A r : Newest(consents, d, r) => r.version # v + 1
    <2> SUFFICES ASSUME NEW r, Newest(consents, d, r) PROVE r.version # v + 1
      OBVIOUS
    <2>1. PICK i \in 1..Len(consents) : r = consents[i] /\ consents[i].document = d
      BY <1>7
    <2>2. consents[i].version <= v
      BY <1>2, <2>1 DEF ConsentInv
    <2> QED BY <1>2, <1>5, <2>1, <2>2
  <1>9. \A e \in Mandatory :
           e \in agreed' <=> \E r \in ConsentRecords : Newest(consents, e, r) /\ r.version = versions'[e]
    <2> SUFFICES ASSUME NEW e \in Mandatory
                 PROVE  e \in agreed' <=> \E r \in ConsentRecords : Newest(consents, e, r) /\ r.version = versions'[e]
      OBVIOUS
    <2>1. e \in Documents
      BY DEF Documents
    <2>2. CASE e = d
      BY <1>3, <1>4, <1>8, <2>2
    <2>3. CASE e # d
      <3>1. versions'[e] = versions[e] /\ (e \in agreed' <=> e \in agreed)
        BY <1>3, <1>4, <2>1, <2>3
      <3>2. e \in agreed <=> \E r \in ConsentRecords : Newest(consents, e, r) /\ r.version = versions[e]
        BY DEF ConsentInv
      <3> QED BY <3>1, <3>2
    <2> QED BY <2>2, <2>3
  <1>10. "marketing" \in agreed' <=> "marketing" \in agreed
    BY <1>4, ConsentAssumption
  <1>11. ConsentTypeOK'
    BY <1>3, <1>4 DEF ConsentInv, ConsentTypeOK
  <1> QED BY <1>4, <1>6, <1>9, <1>10, <1>11 DEF ConsentInv

LEMMA ConsentInductive == ConsentInv /\ [ConsentNext]_consentVars => ConsentInv'
  <1> SUFFICES ASSUME ConsentInv, [ConsentNext]_consentVars PROVE ConsentInv'
    OBVIOUS
  <1>1. ASSUME NEW docs \in SUBSET Mandatory, Accept(docs) PROVE ConsentInv'
    BY <1>1, AcceptAgrees
  <1>2. ASSUME NEW yes \in BOOLEAN, SetMarketing(yes) PROVE ConsentInv'
    BY <1>2, MarketingAgrees DEF SetMarketing
  <1>3. ASSUME UNCHANGED <<consents, versions, campaign, agreed, unwanted>>,
               secret' \in 1..MaxSecrets, links' \subseteq 1..MaxSecrets
        PROVE  ConsentInv'
    BY <1>3 DEF ConsentInv, ConsentTypeOK
  <1>4. ASSUME NEW key \in 1..MaxSecrets, Unsubscribe(key) PROVE ConsentInv'
    <2>1. CASE key = secret
      <3>1. SetConsent("marketing", FALSE) /\ agreed' = agreed \ {"marketing"}
               /\ UNCHANGED <<versions, secret, links, campaign, unwanted>>
        BY <1>4, <2>1 DEF Unsubscribe
      <3> QED BY <3>1, MarketingAgrees
    <2>2. CASE key # secret
      BY <1>3, <1>4, <2>2 DEF Unsubscribe, ConsentInv, ConsentTypeOK
    <2> QED BY <2>1, <2>2
  <1>5. ASSUME NEW s \in Campaigns, AskConsent(s) \/ SendMarketing(s) PROVE ConsentInv'
    BY <1>5, MailCounted
  <1>6. ASSUME NEW d \in Documents, Reword(d) PROVE ConsentInv'
    BY <1>6, RewordAsks
  <1>7. CASE RotateSecret
    BY <1>3, <1>7, ConsentAssumption DEF RotateSecret, ConsentInv, ConsentTypeOK
  <1>8. CASE UNCHANGED consentVars
    BY <1>3, <1>8 DEF consentVars, ConsentInv, ConsentTypeOK
  <1> QED BY <1>1, <1>2, <1>4, <1>5, <1>6, <1>7, <1>8 DEF ConsentNext

LEMMA ConsentStarts == ConsentInit => ConsentInv
  <1> SUFFICES ASSUME ConsentInit PROVE ConsentInv
    OBVIOUS
  <1>1. /\ versions = [document \in Documents |-> 1] /\ secret = 1 /\ links = {}
        /\ campaign = [sender \in Campaigns |-> "idle"] /\ unwanted = 0
    BY DEF ConsentInit
  <1>2. PICK docs \in SUBSET Documents : /\ docs \in {{}, Mandatory, Documents}
                                         /\ consents = ConsentRows(docs) /\ agreed = docs
    BY DEF ConsentInit, Documents
  <1>3. versions \in [Documents -> 1..MaxVersions]
    BY <1>1, ConsentAssumption
  <1>4. IsFiniteSet(docs)
    BY <1>3, RowsListed
  <1>5. PICK m \in Nat : m = Cardinality(docs)
    BY <1>4, FS_CardinalityType
  <1>6. PICK new \in [1..m -> ConsentRecords] :
           /\ new = ConsentRows(docs) /\ OneEach(new, m, docs)
           /\ \A k \in 1..m : new[k] = Consent(new[k].document, TRUE)
    BY <1>3, <1>5, RowsListed
  <1>7. consents \in Seq(ConsentRecords) /\ Len(consents) = m /\ consents = new
    BY <1>2, <1>6
  <1>8. \A k \in 1..m : /\ new[k] \in ConsentRecords /\ new[k].granted /\ new[k].document \in docs
                        /\ new[k].version = versions[new[k].document] /\ new[k].version = 1
    BY <1>1, <1>6 DEF Consent, OneEach
  <1>9. ASSUME NEW d, NEW r PROVE Newest(new, d, r) <=> \E k \in 1..m : new[k] = r /\ r.document = d
    <2>1. Newest(new, d, r) => \E k \in 1..m : new[k] = r /\ r.document = d
      BY <1>7 DEF Newest
    <2>2. ASSUME NEW k \in 1..m, new[k] = r, r.document = d PROVE Newest(new, d, r)
      <3>1. d \in docs
        BY <1>8, <2>2
      <3>2. \A n \in 1..m : new[n].document = d => n = k
        BY <1>6, <2>2, <3>1 DEF OneEach
      <3>3. \A n \in (k + 1)..Len(new) : new[n].document # d
        BY <1>7, <3>2
      <3> QED BY <1>7, <2>2, <3>3 DEF Newest
    <2> QED BY <2>1, <2>2
  <1>10. ASSUME NEW d
         PROVE  d \in docs <=> \E r \in ConsentRecords : Newest(new, d, r)
    <2>1. ASSUME d \in docs PROVE \E r \in ConsentRecords : Newest(new, d, r)
      <3>1. PICK k \in 1..m : new[k].document = d
        BY <1>6, <2>1 DEF OneEach
      <3> QED BY <1>8, <1>9, <3>1
    <2>2. ASSUME NEW r \in ConsentRecords, Newest(new, d, r) PROVE d \in docs
      BY <1>8, <1>9, <2>2
    <2> QED BY <2>1, <2>2
  <1>11. ASSUME NEW d, NEW r, Newest(new, d, r) PROVE r.granted /\ (d \in Documents => r.version = versions[d])
    BY <1>8, <1>9, <1>11
  <1>12. ConsentTypeOK
    BY <1>1, <1>2, <1>3, <1>7, ConsentAssumption DEF ConsentTypeOK, ConsentRecords
  <1>13. \A i \in 1..Len(consents) : consents[i].version <= versions[consents[i].document]
    <2> SUFFICES ASSUME NEW i \in 1..m PROVE new[i].version <= versions[new[i].document]
      BY <1>7
    <2>1. new[i].version = 1 /\ versions[new[i].document] = 1
      BY <1>8
    <2> QED BY <2>1
  <1>14. \A d \in Mandatory :
            d \in agreed <=> \E r \in ConsentRecords : Newest(consents, d, r) /\ r.version = versions[d]
    BY <1>2, <1>7, <1>10, <1>11 DEF Documents
  <1>15. "marketing" \in agreed <=> \E r \in ConsentRecords : Newest(consents, "marketing", r) /\ r.granted
    BY <1>2, <1>7, <1>10, <1>11
  <1>16. unwanted + Cardinality({s \in Campaigns : campaign[s] = "asked"}) <= Cardinality(Campaigns)
    <2>1. {s \in Campaigns : campaign[s] = "asked"} = {}
      BY <1>1
    <2>2. Cardinality(Campaigns) \in Nat
      BY ConsentAssumption, FS_CardinalityType
    <2>3. Cardinality({s \in Campaigns : campaign[s] = "asked"}) = 0
      BY <2>1, FS_EmptySet
    <2> QED BY <1>1, <2>2, <2>3
  <1> QED BY <1>1, <1>12, <1>13, <1>14, <1>15, <1>16 DEF ConsentInv

\* What the user agreed to is what is acted on, for every set of documents and
\* of senders: the prompt asks for exactly the mandatory documents whose
\* present wording was not accepted, and after a withdrawal each sender sends
\* at most the one mail for which it had read the consent before
\* (ConsentService, and EmailService.sendMarketingEmail).
THEOREM ConsentIsWhatWasSaid == ConsentSpec => [](ConsentTypeOK /\ ConsentStands)
  <1>1. ConsentInv => ConsentTypeOK /\ ConsentStands
    BY ConsentHolds DEF ConsentInv
  <1> QED BY <1>1, ConsentStarts, ConsentInductive, PTL DEF ConsentSpec

-----------------------------------------------------------------------------
(* Rate limiting                                                           *)

\* The counted calls of the window that is running, and of the one before.
ThisWindow == {c \in admitted : c.age <= Ttl - hits.ttl}
WindowBefore == {c \in admitted : c.age > Ttl - hits.ttl}

\* The call that opens a window is a window old when the next one can open,
\* which is why two windows never both count in full.
ThrottleInv ==
    /\ ThrottleTypeOK
    /\ RetryAfterHonest
    /\ hits.n = 0 <=> hits.ttl = 0
    /\ hits.n = 0 => Cardinality(admitted) < Limit /\ \A c \in admitted : c.age > 0
    /\ hits.n > 0 => /\ [age |-> Ttl - hits.ttl, n |-> 1] \in admitted
                     /\ \A c \in ThisWindow : c.n <= hits.n
                     /\ Cardinality(ThisWindow) <= hits.n
                     /\ Cardinality(ThisWindow) <= Limit
                     /\ Cardinality(WindowBefore) < Limit

\* Rounding up to seconds never promises too early a return.
LEMMA RoundedUp == \A t \in Nat : InSeconds(t) \in Nat /\ InSeconds(t) >= t
  <1> SUFFICES ASSUME NEW t \in Nat PROVE InSeconds(t) \in Nat /\ InSeconds(t) >= t
    OBVIOUS
  <1>1. Second \in Nat /\ Second >= 1
    BY ThrottleAssumption
  <1>2. PICK a \in Nat : a = t + Second - 1
    BY <1>1
  <1>3. PICK q, r : q = a \div Second /\ r = a % Second
    OBVIOUS
  <1>4. q \in Nat /\ r \in 0..(Second - 1) /\ a = Second * q + r
    BY <1>1, <1>2, <1>3
  <1>5. InSeconds(t) = q * Second
    BY <1>2, <1>3 DEF InSeconds
  <1>6. Second * q = q * Second /\ q * Second \in Nat
    BY <1>1, <1>4
  <1>7. q * Second >= t
    BY <1>1, <1>2, <1>4, <1>6
  <1> QED BY <1>5, <1>6, <1>7

LEMMA CallsCounted ==
    ASSUME ThrottleInv
    PROVE  /\ IsFiniteSet(ThisWindow) /\ IsFiniteSet(WindowBefore)
           /\ Cardinality(ThisWindow) \in Nat /\ Cardinality(WindowBefore) \in Nat /\ Cardinality(admitted) \in Nat
           /\ Cardinality(admitted) <= Cardinality(ThisWindow) + Cardinality(WindowBefore)
  <1>1. IsFiniteSet(admitted)
    BY DEF ThrottleInv, ThrottleTypeOK
  <1>2. IsFiniteSet(ThisWindow) /\ IsFiniteSet(WindowBefore)
    BY <1>1, FS_Subset DEF ThisWindow, WindowBefore
  <1>3. ThisWindow \cup WindowBefore = admitted /\ ThisWindow \cap WindowBefore = {}
    <2> SUFFICES ASSUME NEW c \in admitted PROVE (c.age <= Ttl - hits.ttl) <=> ~(c.age > Ttl - hits.ttl)
      BY DEF ThisWindow, WindowBefore
    <2>1. c.age \in Int /\ Ttl - hits.ttl \in Int
      BY ThrottleAssumption DEF ThrottleInv, ThrottleTypeOK, Ages
    <2> QED BY <2>1
  <1>4. Cardinality(ThisWindow \cap WindowBefore) = 0
    BY <1>3, FS_EmptySet
  <1>5. Cardinality(admitted) = Cardinality(ThisWindow) + Cardinality(WindowBefore)
                                   - Cardinality(ThisWindow \cap WindowBefore)
    BY <1>2, <1>3, FS_Union
  <1>6. Cardinality(ThisWindow) \in Nat /\ Cardinality(WindowBefore) \in Nat /\ Cardinality(admitted) \in Nat
    BY <1>1, <1>2, FS_CardinalityType
  <1> QED BY <1>2, <1>4, <1>5, <1>6

LEMMA ThrottleHolds == ThrottleInv => LimitIsFair
  <1> SUFFICES ASSUME ThrottleInv PROVE UnderTwiceTheLimit
    BY DEF ThrottleInv, LimitIsFair
  <1>1. Limit \in Nat \ {0} /\ hits.n \in Nat
    BY ThrottleAssumption DEF ThrottleInv, ThrottleTypeOK
  <1>2. CASE hits.n = 0
    BY <1>1, <1>2, CallsCounted DEF ThrottleInv, UnderTwiceTheLimit
  <1>3. CASE hits.n > 0
    <2>1. Cardinality(ThisWindow) <= Limit /\ Cardinality(WindowBefore) < Limit
      BY <1>3 DEF ThrottleInv
    <2> QED BY <1>1, <2>1, CallsCounted DEF UnderTwiceTheLimit
  <1> QED BY <1>1, <1>2, <1>3

\* Being sent away again promises no more than the block that stands.
LEMMA BlockedAgain ==
    ASSUME ThrottleInv, CallBlocked
    PROVE  ThrottleInv'
  <1>1. block \in Nat /\ promised \in Nat /\ InSeconds(block) \in Nat /\ InSeconds(block) >= block
    BY RoundedUp, ThrottleAssumption DEF ThrottleInv, ThrottleTypeOK
  <1>2. promised >= block /\ hits.ttl <= block
    BY DEF CallBlocked, ThrottleInv, RetryAfterHonest
  <1>3. promised' \in Nat /\ promised' >= block
    BY <1>1, <1>2 DEF CallBlocked, SentAway
  <1>4. UNCHANGED <<hits, block, redisUp, admitted>>
    BY DEF CallBlocked
  <1>5. ThrottleTypeOK' /\ RetryAfterHonest'
    BY <1>2, <1>3, <1>4 DEF ThrottleInv, ThrottleTypeOK, RetryAfterHonest
  <1>6. ThisWindow' = ThisWindow /\ WindowBefore' = WindowBefore
    BY <1>4 DEF ThisWindow, WindowBefore
  <1> QED BY <1>4, <1>5, <1>6 DEF ThrottleInv

\* What a counted call does to the count.
LEMMA HitCounted ==
    ASSUME ThrottleInv, CallCounted
    PROVE  /\ hits' \in [n : Nat, ttl : 0..Ttl] /\ hits'.n = hits.n + 1 /\ hits.n \in Nat
           /\ hits'.ttl = IF hits.n = 0 THEN Ttl ELSE hits.ttl
           /\ hits'.ttl # 0 /\ hits'.ttl <= BlockDuration
  <1>1. hits \in [n : Nat, ttl : 0..Ttl] /\ (hits.n = 0 <=> hits.ttl = 0)
    BY DEF ThrottleInv, ThrottleTypeOK
  <1>2. hits' = [n |-> hits.n + 1, ttl |-> IF hits.n + 1 = 1 \/ hits.ttl = 0 THEN Ttl ELSE hits.ttl]
    BY DEF CallCounted, HitsWith
  <1>3. hits.n + 1 = 1 <=> hits.n = 0
    BY <1>1
  <1>4. hits' = [n |-> hits.n + 1, ttl |-> IF hits.n = 0 THEN Ttl ELSE hits.ttl]
    BY <1>1, <1>2, <1>3
  <1> QED BY <1>1, <1>4, ThrottleAssumption

\* The limit holds a window's calls.
LEMMA CallAdmitted ==
    ASSUME ThrottleInv, CallCounted, WithinLimit(hits.n + 1)
    PROVE  ThrottleInv'
  <1>1. PICK new : new = [age |-> 0, n |-> hits.n + 1]
    OBVIOUS
  <1>2. /\ admitted' = admitted \cup {new} /\ UNCHANGED <<block, promised, redisUp>>
        /\ block = 0 /\ hits.n + 1 <= Limit
    BY <1>1 DEF CallCounted, WithinLimit
  <1>3. /\ hits' \in [n : Nat, ttl : 0..Ttl] /\ hits'.n = hits.n + 1 /\ hits.n \in Nat
        /\ hits'.ttl = IF hits.n = 0 THEN Ttl ELSE hits.ttl
        /\ hits'.ttl # 0
    BY HitCounted
  <1>4. Ttl \in Nat \ {0} /\ Limit \in Nat \ {0} /\ hits.ttl \in 0..Ttl
    BY ThrottleAssumption DEF ThrottleInv, ThrottleTypeOK
  <1>5. admitted \subseteq [age : Ages, n : Nat] /\ IsFiniteSet(admitted) /\ \A c \in admitted : c.age \in 0..(Ttl - 1)
    BY DEF ThrottleInv, ThrottleTypeOK, Ages
  <1>6. new \in [age : Ages, n : Nat] /\ new.age = 0 /\ new.n = hits.n + 1
    BY <1>1, <1>3, <1>4 DEF Ages
  <1>7. ThrottleTypeOK'
    <2>1. IsFiniteSet(admitted')
      BY <1>2, <1>5, FS_AddElement
    <2> QED BY <1>2, <1>3, <1>5, <1>6, <2>1 DEF ThrottleInv, ThrottleTypeOK
  <1>8. RetryAfterHonest'
    BY <1>2 DEF RetryAfterHonest
  <1>9. CASE hits.n = 0
    <2>1. hits'.ttl = Ttl /\ hits'.n = 1 /\ \A c \in admitted : c.age > 0
      BY <1>3, <1>9 DEF ThrottleInv
    <2>2. ThisWindow' = {new}
      BY <1>2, <1>4, <1>5, <1>6, <2>1 DEF ThisWindow
    <2>3. WindowBefore' = admitted
      BY <1>2, <1>4, <1>5, <1>6, <2>1 DEF WindowBefore
    <2>4. Cardinality(ThisWindow') = 1
      BY <2>2, FS_Singleton
    <2>5. Cardinality(WindowBefore') < Limit
      BY <1>9, <2>3 DEF ThrottleInv
    <2>6. [age |-> Ttl - hits'.ttl, n |-> 1] = new
      BY <1>1, <1>4, <1>9, <2>1
    <2> QED BY <1>2, <1>3, <1>4, <1>6, <1>7, <1>8, <2>1, <2>2, <2>4, <2>5, <2>6 DEF ThrottleInv
  <1>10. CASE hits.n > 0
    <2>1. hits'.ttl = hits.ttl /\ hits.ttl # 0
      BY <1>3, <1>10
    <2>2. ThisWindow' = ThisWindow \cup {new}
      BY <1>2, <1>4, <1>6, <2>1 DEF ThisWindow
    <2>3. WindowBefore' = WindowBefore
      BY <1>2, <1>4, <1>6, <2>1 DEF WindowBefore
    <2>4. /\ [age |-> Ttl - hits.ttl, n |-> 1] \in admitted
          /\ \A c \in ThisWindow : c.n <= hits.n
          /\ Cardinality(ThisWindow) <= hits.n
          /\ Cardinality(WindowBefore) < Limit
      BY <1>10 DEF ThrottleInv
    <2>5. \A c \in ThisWindow' : c.n <= hits.n + 1
      <3>1. \A c \in ThisWindow : c.n \in Nat
        BY <1>5 DEF ThisWindow
      <3> QED BY <1>3, <1>6, <2>2, <2>4, <3>1
    <2>6. IsFiniteSet(ThisWindow) /\ Cardinality(ThisWindow) \in Nat
      BY CallsCounted
    <2>7. Cardinality(ThisWindow') <= Cardinality(ThisWindow) + 1 /\ Cardinality(ThisWindow') \in Nat
      <3>1. Cardinality(ThisWindow \cup {new}) = IF new \in ThisWindow THEN Cardinality(ThisWindow)
                                                 ELSE Cardinality(ThisWindow) + 1
        BY <2>6, FS_AddElement
      <3> QED BY <2>2, <2>6, <3>1
    <2>8. Cardinality(ThisWindow') <= hits.n + 1 /\ Cardinality(ThisWindow') <= Limit
      BY <1>2, <1>3, <1>4, <2>4, <2>6, <2>7
    <2> QED BY <1>2, <1>3, <1>7, <1>8, <2>1, <2>3, <2>4, <2>5, <2>8 DEF ThrottleInv
  <1> QED BY <1>3, <1>9, <1>10

\* One over the limit starts the block, which outlasts the count.
LEMMA CallRefused ==
    ASSUME ThrottleInv, CallCounted, ~WithinLimit(hits.n + 1)
    PROVE  ThrottleInv'
  <1>1. /\ block' = BlockDuration /\ SentAway(BlockDuration, 0) /\ UNCHANGED <<admitted, redisUp>>
        /\ ~(hits.n + 1 <= Limit)
    BY DEF CallCounted, WithinLimit
  <1>2. /\ hits' \in [n : Nat, ttl : 0..Ttl] /\ hits'.n = hits.n + 1 /\ hits.n \in Nat
        /\ hits'.ttl = IF hits.n = 0 THEN Ttl ELSE hits.ttl
        /\ hits'.ttl # 0 /\ hits'.ttl <= BlockDuration
    BY HitCounted
  <1>3. Limit \in Nat \ {0} /\ BlockDuration \in Nat
    BY ThrottleAssumption
  <1>4. hits.n > 0 /\ hits'.ttl = hits.ttl
    BY <1>1, <1>2, <1>3
  <1>5. promised' = InSeconds(BlockDuration)
    BY <1>1 DEF SentAway
  <1>6. promised' \in Nat /\ promised' >= BlockDuration
    BY <1>3, <1>5, RoundedUp
  <1>7. ThrottleTypeOK' /\ RetryAfterHonest'
    BY <1>1, <1>2, <1>3, <1>6 DEF ThrottleInv, ThrottleTypeOK, RetryAfterHonest
  <1>8. ThisWindow' = ThisWindow /\ WindowBefore' = WindowBefore
    BY <1>1, <1>4 DEF ThisWindow, WindowBefore
  <1>9. /\ [age |-> Ttl - hits.ttl, n |-> 1] \in admitted
        /\ \A c \in ThisWindow : c.n <= hits.n
        /\ Cardinality(ThisWindow) <= hits.n
        /\ Cardinality(ThisWindow) <= Limit
        /\ Cardinality(WindowBefore) < Limit
    BY <1>4 DEF ThrottleInv
  <1>10. \A c \in ThisWindow : c.n <= hits.n + 1
    <2>1. \A c \in ThisWindow : c.n \in Nat
      BY DEF ThisWindow, ThrottleInv, ThrottleTypeOK
    <2> QED BY <1>2, <1>9, <2>1
  <1>11. Cardinality(ThisWindow) <= hits.n + 1
    BY <1>2, <1>9, CallsCounted
  <1> QED BY <1>1, <1>2, <1>4, <1>7, <1>8, <1>9, <1>10, <1>11 DEF ThrottleInv

Aged(calls) == {[c EXCEPT !.age = @ + 1] : c \in calls}

LEMMA AgedCount ==
    ASSUME NEW calls, IsFiniteSet(calls)
    PROVE  IsFiniteSet(Aged(calls)) /\ Cardinality(Aged(calls)) <= Cardinality(calls)
  <1>1. PICK f : f = [c \in calls |-> [c EXCEPT !.age = @ + 1]]
    OBVIOUS
  <1>2. f \in Surjection(calls, Aged(calls))
    BY <1>1 DEF Aged, Surjection
  <1> QED BY <1>2, FS_Surjection

\* A tick takes the opening call out of the last window no later than the
\* count.
LEMMA ThrottleAges ==
    ASSUME ThrottleInv, ThrottleTick
    PROVE  ThrottleInv'
  <1>1. /\ Ttl \in Nat \ {0} /\ Limit \in Nat \ {0} /\ BlockDuration \in Nat /\ block \in 0..BlockDuration
        /\ hits \in [n : Nat, ttl : 0..Ttl] /\ promised \in Nat
        /\ admitted \subseteq [age : Ages, n : Nat] /\ IsFiniteSet(admitted)
    BY ThrottleAssumption DEF ThrottleInv, ThrottleTypeOK
  <1>2. PICK kept : kept = {d \in admitted : d.age + 1 \in Ages}
    OBVIOUS
  <1>3. admitted' = Aged(kept) /\ kept \subseteq admitted /\ IsFiniteSet(kept)
    BY <1>1, <1>2, FS_Subset DEF ThrottleTick, Aged
  <1>4. hits' = IF hits.ttl > 1 THEN [n |-> hits.n, ttl |-> hits.ttl - 1] ELSE [n |-> 0, ttl |-> 0]
    BY <1>1 DEF ThrottleTick
  <1>5. \A c \in admitted : c = [age |-> c.age, n |-> c.n] /\ c.age \in 0..(Ttl - 1) /\ c.n \in Nat
    BY <1>1 DEF Ages
  <1>6. \A c \in kept : /\ [c EXCEPT !.age = @ + 1] = [age |-> c.age + 1, n |-> c.n]
                        /\ c.age + 1 \in Ages /\ c.age \in Nat /\ c.n \in Nat
    BY <1>2, <1>5
  <1>7. \A e \in admitted' : \E c \in kept :
           e = [c EXCEPT !.age = @ + 1] /\ e.age = c.age + 1 /\ e.n = c.n /\ c.age \in Nat
    <2> SUFFICES ASSUME NEW e \in admitted'
                 PROVE  \E c \in kept :
                           e = [c EXCEPT !.age = @ + 1] /\ e.age = c.age + 1 /\ e.n = c.n /\ c.age \in Nat
      OBVIOUS
    <2>1. PICK c \in kept : e = [c EXCEPT !.age = @ + 1]
      BY <1>3 DEF Aged
    <2>2. e = [age |-> c.age + 1, n |-> c.n] /\ c.age \in Nat
      BY <1>6, <2>1
    <2> QED BY <2>1, <2>2
  <1>8. IsFiniteSet(admitted')
    BY <1>3, AgedCount
  <1>9. admitted' \subseteq [age : Ages, n : Nat]
    BY <1>3, <1>6 DEF Aged
  <1>10. ThrottleTypeOK'
    <2>1. hits' \in [n : Nat, ttl : 0..Ttl]
      BY <1>1, <1>4
    <2>2. block' \in 0..BlockDuration /\ promised' \in Nat
      BY <1>1 DEF ThrottleTick
    <2> QED BY <1>8, <1>9, <2>1, <2>2 DEF ThrottleInv, ThrottleTypeOK, ThrottleTick
  <1>11. RetryAfterHonest'
    <2> SUFFICES ASSUME block' > 0 PROVE promised' >= block' /\ hits'.ttl <= block'
      BY DEF RetryAfterHonest
    <2>1. block > 0 /\ block' = block - 1 /\ block > 1
      BY <1>1 DEF ThrottleTick
    <2>2. promised >= block /\ hits.ttl <= block
      BY <2>1 DEF ThrottleInv, RetryAfterHonest
    <2>3. promised' = promised - 1
      BY <1>1, <2>1, <2>2 DEF ThrottleTick
    <2>4. hits'.ttl <= block - 1
      BY <1>1, <1>4, <2>1, <2>2
    <2> QED BY <1>1, <2>1, <2>2, <2>3, <2>4
  <1>12. \A c \in admitted' : c.age > 0
    <2> SUFFICES ASSUME NEW e \in admitted' PROVE e.age > 0
      OBVIOUS
    <2>1. PICK c \in kept : e.age = c.age + 1 /\ c.age \in Nat
      BY <1>7
    <2> QED BY <2>1
  <1>13. CASE hits.ttl > 1
    <2>1. hits'.ttl = hits.ttl - 1 /\ hits'.n = hits.n /\ hits.n > 0 /\ hits.ttl \in Nat /\ Ttl \in Nat
      BY <1>1, <1>4, <1>13 DEF ThrottleInv
    <2>2. /\ [age |-> Ttl - hits.ttl, n |-> 1] \in admitted
          /\ \A c \in ThisWindow : c.n <= hits.n
          /\ Cardinality(ThisWindow) <= hits.n
          /\ Cardinality(ThisWindow) <= Limit
          /\ Cardinality(WindowBefore) < Limit
      BY <2>1 DEF ThrottleInv
    <2>3. [age |-> Ttl - hits'.ttl, n |-> 1] \in admitted'
      <3>1. PICK c \in admitted : c = [age |-> Ttl - hits.ttl, n |-> 1]
        BY <2>2
      <3>2. c.age + 1 \in Ages
        BY <1>1, <1>13, <3>1 DEF Ages
      <3>3. c \in kept
        BY <1>2, <3>2
      <3>4. [c EXCEPT !.age = @ + 1] = [age |-> Ttl - hits'.ttl, n |-> 1]
        BY <1>1, <2>1, <3>1
      <3> QED BY <1>3, <3>3, <3>4 DEF Aged
    <2>4. ThisWindow' \subseteq Aged(ThisWindow)
      <3> SUFFICES ASSUME NEW e \in ThisWindow' PROVE e \in Aged(ThisWindow)
        OBVIOUS
      <3>1. e \in admitted' /\ e.age <= Ttl - hits'.ttl
        BY DEF ThisWindow
      <3>2. PICK c \in kept : e = [c EXCEPT !.age = @ + 1] /\ e.age = c.age + 1 /\ c.age \in Nat
        BY <1>7, <3>1
      <3>3. c.age <= Ttl - hits.ttl
        BY <2>1, <3>1, <3>2
      <3>4. c \in ThisWindow
        BY <1>3, <3>3 DEF ThisWindow
      <3> QED BY <3>2, <3>4 DEF Aged
    <2>5. WindowBefore' \subseteq Aged(WindowBefore)
      <3> SUFFICES ASSUME NEW e \in WindowBefore' PROVE e \in Aged(WindowBefore)
        OBVIOUS
      <3>1. e \in admitted' /\ e.age > Ttl - hits'.ttl
        BY DEF WindowBefore
      <3>2. PICK c \in kept : e = [c EXCEPT !.age = @ + 1] /\ e.age = c.age + 1 /\ c.age \in Nat
        BY <1>7, <3>1
      <3>3. c.age > Ttl - hits.ttl
        BY <2>1, <3>1, <3>2
      <3>4. c \in WindowBefore
        BY <1>3, <3>3 DEF WindowBefore
      <3> QED BY <3>2, <3>4 DEF Aged
    <2>6. Cardinality(ThisWindow') <= Cardinality(ThisWindow) /\ Cardinality(ThisWindow') \in Nat
      <3>1. IsFiniteSet(Aged(ThisWindow)) /\ Cardinality(Aged(ThisWindow)) <= Cardinality(ThisWindow)
        BY CallsCounted, AgedCount
      <3>2. IsFiniteSet(ThisWindow') /\ Cardinality(ThisWindow') <= Cardinality(Aged(ThisWindow))
        BY <2>4, <3>1, FS_Subset
      <3>3. Cardinality(ThisWindow') \in Nat /\ Cardinality(Aged(ThisWindow)) \in Nat
        BY <3>1, <3>2, FS_CardinalityType
      <3> QED BY <3>1, <3>2, <3>3, CallsCounted
    <2>7. Cardinality(WindowBefore') <= Cardinality(WindowBefore) /\ Cardinality(WindowBefore') \in Nat
      <3>1. IsFiniteSet(Aged(WindowBefore)) /\ Cardinality(Aged(WindowBefore)) <= Cardinality(WindowBefore)
        BY CallsCounted, AgedCount
      <3>2. IsFiniteSet(WindowBefore') /\ Cardinality(WindowBefore') <= Cardinality(Aged(WindowBefore))
        BY <2>5, <3>1, FS_Subset
      <3>3. Cardinality(WindowBefore') \in Nat /\ Cardinality(Aged(WindowBefore)) \in Nat
        BY <3>1, <3>2, FS_CardinalityType
      <3> QED BY <3>1, <3>2, <3>3, CallsCounted
    <2>8. \A e \in ThisWindow' : e.n <= hits.n
      <3> SUFFICES ASSUME NEW e \in ThisWindow' PROVE e.n <= hits.n
        OBVIOUS
      <3>1. e \in admitted' /\ e.age <= Ttl - hits'.ttl
        BY DEF ThisWindow
      <3>2. PICK c \in kept : e.age = c.age + 1 /\ e.n = c.n /\ c.age \in Nat
        BY <1>7, <3>1
      <3>3. c.age <= Ttl - hits.ttl
        BY <2>1, <3>1, <3>2
      <3>4. c \in ThisWindow
        BY <1>3, <3>3 DEF ThisWindow
      <3> QED BY <2>2, <3>2, <3>4
    <2>9. Cardinality(ThisWindow') <= hits.n /\ Cardinality(ThisWindow') <= Limit /\ Cardinality(WindowBefore') < Limit
      BY <1>1, <2>2, <2>6, <2>7, CallsCounted
    <2> QED BY <1>1, <1>10, <1>11, <1>13, <2>1, <2>3, <2>8, <2>9 DEF ThrottleInv
  <1>14. CASE ~(hits.ttl > 1)
    <2>1. hits'.n = 0 /\ hits'.ttl = 0
      BY <1>4, <1>14
    <2>2. Cardinality(admitted') < Limit
      <3>1. Cardinality(admitted') <= Cardinality(kept) /\ Cardinality(admitted') \in Nat /\ Cardinality(kept) \in Nat
        BY <1>3, <1>8, AgedCount, FS_CardinalityType
      <3>2. CASE hits.n = 0
        <4>1. Cardinality(kept) <= Cardinality(admitted)
          BY <1>1, <1>3, FS_Subset
        <4>2. Cardinality(admitted) < Limit
          BY <3>2 DEF ThrottleInv
        <4> QED BY <1>1, <3>1, <4>1, <4>2, CallsCounted
      <3>3. CASE hits.n > 0
        <4>1. hits.ttl = 1
          BY <1>1, <1>14, <3>3 DEF ThrottleInv
        <4>2. PICK first : first = [age |-> Ttl - 1, n |-> 1]
          OBVIOUS
        <4>3. first \in admitted /\ Cardinality(ThisWindow) <= Limit
          BY <3>3, <4>1, <4>2 DEF ThrottleInv
        <4>4. ThisWindow = admitted
          BY <1>1, <1>5, <4>1 DEF ThisWindow
        <4>5. first \notin kept
          BY <1>1, <1>2, <4>2 DEF Ages
        <4>6. kept \subseteq admitted \ {first}
          BY <1>3, <4>5
        <4>7. IsFiniteSet(admitted \ {first}) /\ Cardinality(admitted \ {first}) = Cardinality(admitted) - 1
          BY <1>1, <4>3, FS_RemoveElement
        <4>8. Cardinality(kept) <= Cardinality(admitted \ {first})
          BY <4>6, <4>7, FS_Subset
        <4> QED BY <1>1, <3>1, <4>3, <4>4, <4>7, <4>8, CallsCounted
      <3> QED BY <1>1, <3>2, <3>3
    <2> QED BY <1>10, <1>11, <1>12, <2>1, <2>2 DEF ThrottleInv
  <1> QED BY <1>13, <1>14

LEMMA ThrottleInductive == ThrottleInv /\ [ThrottleNext]_throttleVars => ThrottleInv'
  <1> SUFFICES ASSUME ThrottleInv, [ThrottleNext]_throttleVars PROVE ThrottleInv'
    OBVIOUS
  <1>1. CASE CallBlocked
    BY <1>1, BlockedAgain
  <1>2. CASE CallCounted
    BY <1>2, CallAdmitted, CallRefused
  <1>3. CASE ThrottleTick
    BY <1>3, ThrottleAges
  <1>4. ASSUME UNCHANGED <<hits, block, admitted, promised>>, redisUp' \in BOOLEAN PROVE ThrottleInv'
    <2>1. ThisWindow' = ThisWindow /\ WindowBefore' = WindowBefore
      BY <1>4 DEF ThisWindow, WindowBefore
    <2> QED BY <1>4, <2>1 DEF ThrottleInv, ThrottleTypeOK, RetryAfterHonest
  <1>5. CASE CallUncounted \/ RedisFails \/ UNCHANGED throttleVars
    BY <1>4, <1>5 DEF CallUncounted, RedisFails, throttleVars, ThrottleInv, ThrottleTypeOK
  <1> QED BY <1>1, <1>2, <1>3, <1>5 DEF ThrottleNext

LEMMA ThrottleStarts == ThrottleInit => ThrottleInv
  <1> SUFFICES ASSUME ThrottleInit PROVE ThrottleInv
    OBVIOUS
  <1>1. hits = [n |-> 0, ttl |-> 0] /\ block = 0 /\ redisUp = TRUE /\ admitted = {} /\ promised = 0
    BY DEF ThrottleInit
  <1>2. Cardinality(admitted) = 0 /\ IsFiniteSet(admitted)
    BY <1>1, FS_EmptySet
  <1>3. ThrottleTypeOK /\ RetryAfterHonest
    BY <1>1, <1>2, ThrottleAssumption DEF ThrottleTypeOK, RetryAfterHonest
  <1> QED BY <1>1, <1>2, <1>3, ThrottleAssumption DEF ThrottleInv

\* For every limit, window and clock: no stretch of time as long as the window
\* lets twice the limit of counted calls through, and whoever is sent away with
\* a time to come back is neither blocked any more then nor counted with the
\* old calls (RedisThrottlerStorage and its script).
THEOREM LimitsAreFair == ThrottleSpec => [](ThrottleTypeOK /\ LimitIsFair)
  <1>1. ThrottleInv => ThrottleTypeOK /\ LimitIsFair
    BY ThrottleHolds DEF ThrottleInv
  <1> QED BY <1>1, ThrottleStarts, ThrottleInductive, PTL DEF ThrottleSpec

-----------------------------------------------------------------------------
(* One-time codes                                                          *)

\* The handlers that may still give a wrong answer, those that may still reset
\* the counter, and those about to count a wrong answer for a code.
Free == {v \in Verifiers : verifier[v].pc \notin {"phone", "mark", "del"}}
Late == {v \in Verifiers : verifier[v].pc = "delTries"}
Pending(c) == {v \in Verifiers : verifier[v].pc = "record" /\ verifier[v].code = c}

\* Wrong answers that the counter lets through before the next one is the last.
TriesLeft == IF otpTries.n < MaxOtpAttempts THEN MaxOtpAttempts - 1 - otpTries.n ELSE 0

\* Whether the counter, started for an earlier code, expires before this one.
EarlyExpiry == IF 0 < otpTries.ttl /\ otpTries.ttl < otpCode.ttl THEN 1 ELSE 0

\* Wrong answers that the stored code can still have: what is left of this
\* count, a count for every reset, and a last one of every handler.
Ahead == Cardinality(Free) + TriesLeft + (MaxOtpAttempts - 1) * (Cardinality(Late) + EarlyExpiry)
Budget == (Cardinality(Verifiers) + 1) * MaxOtpAttempts - 2 + otpLost

OtpShape ==
    /\ OtpTypeOK
    /\ otpCode.id = 0 <=> otpCode.ttl = 0
    /\ otpTries.ttl > 0 => otpTries.n > 0
    /\ \A v \in Verifiers : verifier[v].pc = "record" =>
                                verifier[v].code \in Codes /\ wrongAnswers[verifier[v].code] # -1
    /\ \E k \in 0..MaxCodes : \A c \in Codes : wrongAnswers[c] # -1 <=> c <= k
    /\ otpCode.id # 0 => wrongAnswers[otpCode.id] # -1

\* When every handler is on its way to a reset nobody has answered yet.
ThisCode ==
    otpCode.id # 0 => IF Late = Verifiers THEN wrongAnswers[otpCode.id] = 0
                      ELSE wrongAnswers[otpCode.id] + Ahead <= Budget

PastCodes == \A c \in Codes : c # otpCode.id => wrongAnswers[c] + Cardinality(Pending(c)) <= Budget

OtpInv == OtpShape /\ ThisCode /\ PastCodes

LEMMA Multiples ==
    ASSUME NEW m \in Nat
    PROVE  /\ \A d \in Nat : m * d \in Nat /\ m * (d + 1) = m * d + m
           /\ \A a, b \in Nat : a <= b => m * a <= m * b
  <1>1. \A d \in Nat : m * d \in Nat /\ m * (d + 1) = m * d + m
    OBVIOUS
  <1>2. ASSUME NEW a \in Nat, NEW b \in Nat, a <= b PROVE m * a <= m * b
    <2>1. PICK c \in Nat : b = a + c
      BY <1>2
    <2>2. m * b = m * a + m * c /\ m * c \in Nat /\ m * a \in Nat
      BY <2>1
    <2> QED BY <2>2
  <1> QED BY <1>1, <1>2

\* What can come of a code that has had no answer yet, when not every handler
\* is on its way to a reset.
LEMMA FreshBudget ==
    ASSUME NEW n \in Nat, NEW f \in Nat, NEW d \in Nat, NEW t \in Nat, NEW e \in {0, 1}, NEW m \in Nat, m >= 2,
           f <= n, d < n, t <= m - 1, e = 1 => t <= m - 2
    PROVE  f + t + (m - 1) * (d + e) <= (n + 1) * m - 2
  <1>1. PICK k \in Nat : k = m - 1 /\ k >= 1
    OBVIOUS
  <1>2. PICK l \in Nat : n = l + 1
    OBVIOUS
  <1>3. k * (d + e) <= k * (l + e)
    BY <1>1, <1>2, Multiples
  <1>4. (n + 1) * m - 2 = k * l + 2 * k + l
    <2>1. (n + 1) * m = (l + 2) * (k + 1)
      BY <1>1, <1>2
    <2>2. (l + 2) * (k + 1) = k * l + 2 * k + l + 2
      OBVIOUS
    <2> QED BY <2>1, <2>2
  <1>5. k * l \in Nat
    OBVIOUS
  <1>6. CASE e = 0
    BY <1>1, <1>2, <1>3, <1>4, <1>5, <1>6
  <1>7. CASE e = 1
    <2>1. k * (l + 1) = k * l + k
      BY Multiples
    <2>2. k * (d + e) <= k * l + k /\ t <= k - 1 /\ k * (d + e) \in Nat
      BY <1>1, <1>3, <1>7, <2>1
    <2> QED BY <1>1, <1>2, <1>4, <1>5, <2>2
  <1> QED BY <1>6, <1>7

LEMMA OtpNumbers ==
    ASSUME OtpShape
    PROVE  /\ IsFiniteSet(Verifiers) /\ Cardinality(Verifiers) \in Nat
           /\ IsFiniteSet(Free) /\ Cardinality(Free) \in Nat /\ Cardinality(Free) <= Cardinality(Verifiers)
           /\ IsFiniteSet(Late) /\ Cardinality(Late) \in Nat /\ Cardinality(Late) <= Cardinality(Verifiers)
           /\ Late # Verifiers => Cardinality(Late) < Cardinality(Verifiers)
           /\ \A c : IsFiniteSet(Pending(c)) /\ Cardinality(Pending(c)) \in Nat
                        /\ Pending(c) \subseteq Free /\ Cardinality(Pending(c)) <= Cardinality(Free)
           /\ TriesLeft \in Nat /\ TriesLeft <= MaxOtpAttempts - 1
           /\ EarlyExpiry \in {0, 1} /\ (EarlyExpiry = 1 => TriesLeft <= MaxOtpAttempts - 2)
           /\ MaxOtpAttempts \in Nat /\ MaxOtpAttempts >= 2 /\ otpLost \in Nat
  <1>1. IsFiniteSet(Verifiers) /\ MaxOtpAttempts \in Nat /\ MaxOtpAttempts >= 2
    BY OtpAssumption
  <1>2. otpTries \in [n : Nat, ttl : 0..OtpLife] /\ otpLost \in Nat /\ (otpTries.ttl > 0 => otpTries.n > 0)
    BY OtpAssumption DEF OtpShape, OtpTypeOK
  <1>3. Free \subseteq Verifiers /\ Late \subseteq Verifiers /\ \A c : Pending(c) \subseteq Free
    BY DEF Free, Late, Pending
  <1>4. Cardinality(Verifiers) \in Nat
    BY <1>1, FS_CardinalityType
  <1>5. IsFiniteSet(Free) /\ Cardinality(Free) <= Cardinality(Verifiers) /\ IsFiniteSet(Late)
           /\ Cardinality(Late) <= Cardinality(Verifiers)
           /\ (Cardinality(Late) = Cardinality(Verifiers) => Late = Verifiers)
    BY <1>1, <1>3, FS_Subset
  <1>6. Cardinality(Free) \in Nat /\ Cardinality(Late) \in Nat
    BY <1>5, FS_CardinalityType
  <1>7. ASSUME NEW c
        PROVE  IsFiniteSet(Pending(c)) /\ Cardinality(Pending(c)) \in Nat
                  /\ Cardinality(Pending(c)) <= Cardinality(Free)
    BY <1>3, <1>5, FS_Subset, FS_CardinalityType
  <1>8. TriesLeft \in Nat /\ TriesLeft <= MaxOtpAttempts - 1 /\ (otpTries.n > 0 => TriesLeft <= MaxOtpAttempts - 2)
    BY <1>1, <1>2 DEF TriesLeft
  <1>9. EarlyExpiry \in {0, 1} /\ (EarlyExpiry = 1 => otpTries.n > 0)
    BY <1>2 DEF EarlyExpiry
  <1> QED BY <1>1, <1>2, <1>3, <1>4, <1>5, <1>6, <1>7, <1>8, <1>9

\* The bound with what is pending, for the stored code as for the past ones.
LEMMA AnyCode ==
    ASSUME OtpInv, NEW c \in Codes
    PROVE  wrongAnswers[c] + Cardinality(Pending(c)) <= Budget
  <1>1. OtpShape /\ wrongAnswers[c] \in Nat \cup {-1}
    BY DEF OtpInv, OtpShape, OtpTypeOK
  <1>2. CASE c # otpCode.id
    BY <1>2 DEF OtpInv, PastCodes
  <1>3. CASE c = otpCode.id
    <2>1. c # 0
      BY OtpAssumption DEF Codes
    <2>2. CASE Late = Verifiers
      <3>1. Pending(c) = {}
        BY <2>2 DEF Late, Pending
      <3>2. Cardinality(Pending(c)) = 0
        BY <3>1, FS_EmptySet
      <3>3. wrongAnswers[c] = 0
        BY <1>3, <2>1, <2>2 DEF OtpInv, ThisCode
      <3>4. PICK m \in Nat, n \in Nat : m = MaxOtpAttempts /\ n = Cardinality(Verifiers) /\ m >= 2
        BY <1>1, OtpNumbers
      <3>5. (n + 1) * m = m * n + m /\ m * n \in Nat
        BY Multiples
      <3>6. Budget >= 0
        BY <1>1, <3>4, <3>5, OtpNumbers DEF Budget
      <3> QED BY <3>2, <3>3, <3>6
    <2>3. CASE Late # Verifiers
      <3>1. wrongAnswers[c] + Ahead <= Budget
        BY <1>3, <2>1, <2>3 DEF OtpInv, ThisCode
      <3>2. PICK k \in Nat, f \in Nat, d \in Nat, t \in Nat, e \in Nat :
               /\ k = MaxOtpAttempts - 1 /\ f = Cardinality(Free) /\ d = Cardinality(Late)
               /\ t = TriesLeft /\ e = EarlyExpiry
        BY <1>1, OtpNumbers
      <3>3. k * (d + e) \in Nat /\ Ahead = f + t + k * (d + e)
        BY <3>2 DEF Ahead
      <3>4. Cardinality(Pending(c)) \in Nat /\ Cardinality(Pending(c)) <= f
        BY <1>1, <3>2, OtpNumbers
      <3>5. PICK b : b = Budget /\ b \in Int
        <4>1. PICK m \in Nat, n \in Nat : m = MaxOtpAttempts /\ n = Cardinality(Verifiers)
          BY <1>1, OtpNumbers
        <4>2. (n + 1) * m \in Nat
          OBVIOUS
        <4> QED BY <1>1, <4>1, <4>2, OtpNumbers DEF Budget
      <3> QED BY <1>1, <3>1, <3>2, <3>3, <3>4, <3>5
    <2> QED BY <2>2, <2>3
  <1> QED BY <1>2, <1>3

LEMMA OtpHolds == OtpInv => OtpTypeOK /\ GuessBudget
  <1> SUFFICES ASSUME OtpInv PROVE OtpTypeOK /\ GuessBudget
    OBVIOUS
  <1>1. OtpShape
    BY DEF OtpInv
  <1>2. ASSUME NEW c \in Codes
        PROVE  wrongAnswers[c] <= (Cardinality(Verifiers) + 1) * MaxOtpAttempts - 2 + otpLost
    <2>1. wrongAnswers[c] + Cardinality(Pending(c)) <= Budget
      BY AnyCode
    <2>2. Cardinality(Pending(c)) \in Nat /\ wrongAnswers[c] \in Int
      BY <1>1, OtpNumbers DEF OtpShape, OtpTypeOK
    <2>3. PICK m \in Nat, n \in Nat : m = MaxOtpAttempts /\ n = Cardinality(Verifiers)
      BY <1>1, OtpNumbers
    <2>4. (n + 1) * m \in Nat
      OBVIOUS
    <2> QED BY <1>1, <2>1, <2>2, <2>3, <2>4, OtpNumbers DEF Budget
  <1> QED BY <1>1, <1>2 DEF OtpShape, GuessBudget

HandlerState == [pc : {"idle", "record", "expire", "phone", "mark", "del", "delTries"}, code : 0..MaxCodes]

\* One handler moves.
LEMMA HandlerMoves ==
    ASSUME OtpShape, NEW v \in Verifiers, NEW h \in HandlerState, verifier' = [verifier EXCEPT ![v] = h]
    PROVE  /\ verifier' \in [Verifiers -> HandlerState]
           /\ \A u \in Verifiers : verifier'[u] = IF u = v THEN h ELSE verifier[u]
           /\ Free' = IF h.pc \in {"phone", "mark", "del"} THEN Free \ {v} ELSE Free \cup {v}
           /\ Late' = IF h.pc = "delTries" THEN Late \cup {v} ELSE Late \ {v}
           /\ \A c : Pending(c)' = IF h.pc = "record" /\ h.code = c THEN Pending(c) \cup {v}
                                                                    ELSE Pending(c) \ {v}
  <1>1. verifier \in [Verifiers -> HandlerState]
    BY DEF OtpShape, OtpTypeOK, HandlerState
  <1>2. \A u \in Verifiers : verifier'[u] = IF u = v THEN h ELSE verifier[u]
    BY <1>1
  <1>3. verifier' \in [Verifiers -> HandlerState]
    BY <1>1
  <1>4. Free' = IF h.pc \in {"phone", "mark", "del"} THEN Free \ {v} ELSE Free \cup {v}
    BY <1>2 DEF Free
  <1>5. Late' = IF h.pc = "delTries" THEN Late \cup {v} ELSE Late \ {v}
    BY <1>2 DEF Late
  <1>6. ASSUME NEW c
        PROVE  Pending(c)' = IF h.pc = "record" /\ h.code = c THEN Pending(c) \cup {v} ELSE Pending(c) \ {v}
    BY <1>2 DEF Pending
  <1> QED BY <1>2, <1>3, <1>4, <1>5, <1>6

\* Where the counter of one handler's kind goes when that handler moves.
LEMMA OneMore ==
    ASSUME NEW S, NEW x, IsFiniteSet(S)
    PROVE  /\ Cardinality(S) \in Nat
           /\ Cardinality(S \cup {x}) \in Nat /\ Cardinality(S \ {x}) \in Nat
           /\ Cardinality(S \ {x}) <= Cardinality(S) /\ Cardinality(S \cup {x}) <= Cardinality(S) + 1
           /\ x \in S => Cardinality(S \ {x}) = Cardinality(S) - 1 /\ Cardinality(S \cup {x}) = Cardinality(S)
           /\ x \notin S => Cardinality(S \ {x}) = Cardinality(S) /\ Cardinality(S \cup {x}) = Cardinality(S) + 1
  <1>1. IsFiniteSet(S \cup {x}) /\ IsFiniteSet(S \ {x})
    BY FS_AddElement, FS_RemoveElement
  <1>2. Cardinality(S) \in Nat /\ Cardinality(S \cup {x}) \in Nat /\ Cardinality(S \ {x}) \in Nat
    BY <1>1, FS_CardinalityType
  <1>3. Cardinality(S \cup {x}) = IF x \in S THEN Cardinality(S) ELSE Cardinality(S) + 1
    BY FS_AddElement
  <1>4. Cardinality(S \ {x}) = IF x \in S THEN Cardinality(S) - 1 ELSE Cardinality(S)
    BY FS_RemoveElement
  <1> QED BY <1>2, <1>3, <1>4

\* The numbers the bound is made of, before and after a step.
OtpMeasured ==
    /\ Cardinality(Free) \in Nat /\ Cardinality(Late) \in Nat
    /\ TriesLeft \in Nat /\ TriesLeft <= MaxOtpAttempts - 1 /\ EarlyExpiry \in {0, 1}

LEMMA OtpMeasures == OtpShape => OtpMeasured
  BY OtpNumbers DEF OtpMeasured

LEMMA OtpMeasuresNext == OtpShape' => OtpMeasured'
  BY OtpMeasures, PTL

\* The stored code is safe after a step that puts no handler on its way to a
\* reset, when what it adds to the answers it takes from what lies ahead: a
\* reset pays for a new count.
LEMMA CodeSafe ==
    ASSUME OtpInv, OtpShape', otpCode'.id = otpCode.id, otpCode.id # 0, Late # Verifiers, Late' # Verifiers,
           NEW g \in Int, g = wrongAnswers'[otpCode.id] - wrongAnswers[otpCode.id] - (otpLost' - otpLost),
           NEW r \in {0, 1},
           Cardinality(Late') + EarlyExpiry' + r <= Cardinality(Late) + EarlyExpiry,
           g + Cardinality(Free') + TriesLeft'
              <= Cardinality(Free) + TriesLeft + (IF r = 1 THEN MaxOtpAttempts - 1 ELSE 0)
    PROVE  ThisCode'
  <1>1. OtpShape /\ OtpShape'
    BY DEF OtpInv
  <1>2. PICK m \in Nat, n \in Nat, k \in Nat :
           m = MaxOtpAttempts /\ n = Cardinality(Verifiers) /\ k = MaxOtpAttempts - 1
    BY <1>1, OtpNumbers
  <1>3. otpCode.id \in Codes
    <2>1. otpCode.id \in 0..MaxCodes
      BY <1>1 DEF OtpShape, OtpTypeOK
    <2> QED BY <2>1, OtpAssumption DEF Codes
  <1>4. PICK w \in Int, x \in Int : w = wrongAnswers[otpCode.id] /\ x = wrongAnswers'[otpCode.id]
    BY <1>1, <1>3 DEF OtpShape, OtpTypeOK
  <1>5. otpLost \in Nat /\ otpLost' \in Nat
    BY <1>1, OtpAssumption DEF OtpShape, OtpTypeOK
  <1>6. PICK b \in Nat : b = (n + 1) * m
    OBVIOUS
  <1>7. Budget = b - 2 + otpLost /\ Budget' = b - 2 + otpLost'
    BY <1>2, <1>6 DEF Budget
  <1>8. w + Ahead <= Budget
    BY <1>4 DEF OtpInv, ThisCode
  <1>9. PICK f \in Nat, d \in Nat, t \in Nat, e \in Nat :
           f = Cardinality(Free) /\ d = Cardinality(Late) /\ t = TriesLeft /\ e = EarlyExpiry
    BY <1>1, OtpNumbers
  <1>10. PICK ff \in Nat, dd \in Nat, tt \in Nat, ee \in Nat :
            ff = Cardinality(Free') /\ dd = Cardinality(Late') /\ tt = TriesLeft' /\ ee = EarlyExpiry'
    BY <1>1, OtpMeasuresNext DEF OtpMeasured
  <1>11. Ahead = f + t + k * (d + e) /\ Ahead' = ff + tt + k * (dd + ee)
    BY <1>2, <1>9, <1>10 DEF Ahead
  <1>12. PICK p \in Nat, q \in Nat : p = k * (d + e) /\ q = k * (dd + ee)
    OBVIOUS
  <1>13. q + (IF r = 1 THEN k ELSE 0) <= p
    <2>1. CASE r = 0
      <3>1. dd + ee <= d + e /\ dd + ee \in Nat /\ d + e \in Nat
        BY <1>9, <1>10, <2>1
      <3> QED BY <1>12, <2>1, <3>1, Multiples
    <2>2. CASE r = 1
      <3>1. dd + ee + 1 <= d + e /\ dd + ee \in Nat /\ dd + ee + 1 \in Nat /\ d + e \in Nat
        BY <1>9, <1>10, <2>2
      <3>2. k * ((dd + ee) + 1) = q + k
        BY <1>12, <3>1, Multiples
      <3>3. k * ((dd + ee) + 1) <= p
        BY <1>12, <3>1, Multiples
      <3> QED BY <2>2, <3>2, <3>3
    <2> QED BY <2>1, <2>2
  <1>14. g + ff + tt <= f + t + (IF r = 1 THEN k ELSE 0)
    BY <1>2, <1>9, <1>10
  <1>15. w + f + t + p <= b - 2 + otpLost
    BY <1>7, <1>8, <1>11, <1>12
  <1>16. g = x - w - (otpLost' - otpLost)
    BY <1>4
  <1>17. x + ff + tt + q <= b - 2 + otpLost'
    <2>1. PICK y \in Nat, z \in Nat : y = otpLost /\ z = otpLost'
      BY <1>5
    <2>2. PICK c \in Nat : c = IF r = 1 THEN k ELSE 0
      OBVIOUS
    <2>3. q + c <= p /\ g + ff + tt <= f + t + c
      BY <1>13, <1>14, <2>2
    <2>4. w + f + t + p <= b - 2 + y /\ g = x - w - (z - y)
      BY <1>15, <1>16, <2>1
    <2>5. x + ff + tt + q <= b - 2 + z
      BY <2>3, <2>4
    <2> QED BY <2>1, <2>5
  <1>18. x + Ahead' <= Budget'
    BY <1>7, <1>11, <1>12, <1>17
  <1> QED BY <1>4, <1>18 DEF ThisCode

\* A code that nobody has answered is safe.
Unanswered == otpCode.id # 0 => wrongAnswers[otpCode.id] = 0

LEMMA FreshSafe == OtpShape /\ Unanswered => ThisCode
  <1> SUFFICES ASSUME OtpShape, otpCode.id # 0, wrongAnswers[otpCode.id] = 0 PROVE ThisCode
    BY DEF Unanswered, ThisCode
  <1>1. CASE Late = Verifiers
    BY <1>1 DEF ThisCode
  <1>2. CASE Late # Verifiers
    <2>1. PICK m \in Nat, n \in Nat, f \in Nat, d \in Nat, t \in Nat, e \in {0, 1} :
             /\ m = MaxOtpAttempts /\ n = Cardinality(Verifiers) /\ f = Cardinality(Free)
             /\ d = Cardinality(Late) /\ t = TriesLeft /\ e = EarlyExpiry
      BY OtpNumbers
    <2>2. f <= n /\ d < n /\ t <= m - 1 /\ m >= 2 /\ (e = 1 => t <= m - 2)
      BY <1>2, <2>1, OtpNumbers
    <2>3. f + t + (m - 1) * (d + e) <= (n + 1) * m - 2
      BY <2>2, FreshBudget
    <2>4. (m - 1) * (d + e) \in Nat /\ (n + 1) * m \in Nat
      <3>1. m - 1 \in Nat /\ d + e \in Nat
        BY <2>2
      <3> QED BY <3>1
    <2>5. 0 + Ahead <= Budget
      BY <2>1, <2>3, <2>4, OtpNumbers DEF Ahead, Budget
    <2> QED BY <1>2, <2>5 DEF ThisCode
  <1> QED BY <1>1, <1>2

LEMMA FreshSafeNext == OtpShape' /\ Unanswered' => ThisCode'
  BY FreshSafe, PTL

LEMMA OtpTypes ==
    OtpShape => /\ otpCode \in [id : 0..MaxCodes, ttl : 0..OtpLife] /\ otpTries \in [n : Nat, ttl : 0..OtpLife]
                /\ verifier \in [Verifiers -> HandlerState] /\ wrongAnswers \in [Codes -> Nat \cup {-1}]
                /\ otpLost \in Nat /\ OtpLife \in Nat /\ MaxCodes \in Nat
                /\ Codes = {c \in 0..MaxCodes : c # 0}
  <1> SUFFICES ASSUME OtpShape
               PROVE  /\ otpCode \in [id : 0..MaxCodes, ttl : 0..OtpLife] /\ otpTries \in [n : Nat, ttl : 0..OtpLife]
                      /\ verifier \in [Verifiers -> HandlerState] /\ wrongAnswers \in [Codes -> Nat \cup {-1}]
                      /\ otpLost \in Nat /\ OtpLife \in Nat /\ MaxCodes \in Nat
                      /\ Codes = {c \in 0..MaxCodes : c # 0}
    OBVIOUS
  <1>1. Codes = {c \in 0..MaxCodes : c # 0}
    BY OtpAssumption DEF Codes
  <1>2. otpLost \in Nat
    BY OtpAssumption DEF OtpShape, OtpTypeOK
  <1> QED BY <1>1, <1>2, OtpAssumption DEF OtpShape, OtpTypeOK, HandlerState

\* A step of a handler that counts no answer and leaves the code alone.
LEMMA QuietShape ==
    ASSUME OtpShape, NEW v \in Verifiers, NEW h \in HandlerState, verifier' = [verifier EXCEPT ![v] = h],
           UNCHANGED <<otpCode, otpDelivered, wrongAnswers>>,
           otpTries' \in [n : Nat, ttl : 0..OtpLife], otpTries'.ttl > 0 => otpTries'.n > 0,
           phoneOf' \in [Verifiers -> {"none", "written", "verified"}], otpLost' \in 0..OtpDeaths,
           h.pc = "record" => h.code \in Codes /\ wrongAnswers[h.code] # -1
    PROVE  OtpShape'
  <1>1. /\ verifier' \in [Verifiers -> HandlerState]
        /\ \A u \in Verifiers : verifier'[u] = IF u = v THEN h ELSE verifier[u]
    BY HandlerMoves
  <1>2. OtpTypeOK'
    BY <1>1 DEF OtpShape, OtpTypeOK, HandlerState
  <1>3. \A u \in Verifiers : verifier'[u].pc = "record" =>
                                verifier'[u].code \in Codes /\ wrongAnswers[verifier'[u].code] # -1
    BY <1>1 DEF OtpShape
  <1> QED BY <1>2, <1>3 DEF OtpShape

LEMMA QuietPast ==
    ASSUME OtpInv, NEW v \in Verifiers, NEW h \in HandlerState, verifier' = [verifier EXCEPT ![v] = h],
           UNCHANGED wrongAnswers, otpLost' \in Nat, otpLost' >= otpLost,
           NEW new, otpCode'.id = new, h.pc = "record" => h.code = new
    PROVE  PastCodes'
  <1>1. OtpShape
    BY DEF OtpInv
  <1>2. ASSUME NEW c \in Codes, c # new
        PROVE  wrongAnswers[c] + Cardinality(Pending(c)') <= Budget'
    <2>1. Pending(c)' = Pending(c) \ {v}
      BY <1>1, <1>2, HandlerMoves
    <2>2. PICK p \in Nat, q \in Nat : p = Cardinality(Pending(c)) /\ q = Cardinality(Pending(c)') /\ q <= p
      <3>1. IsFiniteSet(Pending(c))
        BY <1>1, OtpNumbers
      <3>2. PICK all : all = Pending(c)
        OBVIOUS
      <3>3. Cardinality(all) \in Nat /\ Cardinality(all \ {v}) \in Nat /\ Cardinality(all \ {v}) <= Cardinality(all)
        BY <3>1, <3>2, OneMore
      <3> QED BY <2>1, <3>2, <3>3
    <2>3. wrongAnswers[c] + p <= Budget
      BY <2>2, AnyCode
    <2>4. PICK b \in Nat : b = (Cardinality(Verifiers) + 1) * MaxOtpAttempts
      <3>1. PICK m \in Nat, n \in Nat : m = MaxOtpAttempts /\ n = Cardinality(Verifiers)
        BY <1>1, OtpNumbers
      <3>2. (n + 1) * m \in Nat
        OBVIOUS
      <3> QED BY <3>1, <3>2
    <2>5. Budget = b - 2 + otpLost /\ Budget' = b - 2 + otpLost'
      BY <2>4 DEF Budget
    <2>6. wrongAnswers[c] \in Int /\ otpLost \in Nat
      BY <1>1, OtpTypes
    <2> QED BY <2>2, <2>3, <2>5, <2>6
  <1> QED BY <1>2 DEF PastCodes

LEMMA ReadSafe ==
    ASSUME OtpInv, NEW v \in Verifiers, ReadOtp(v)
    PROVE  OtpInv'
  <1>1. OtpShape
    BY DEF OtpInv
  <1>2. PICK pc \in {"record", "phone"} : verifier' = [verifier EXCEPT ![v] = [pc |-> pc, code |-> otpCode.id]]
    BY DEF ReadOtp
  <1>3. PICK h : h = [pc |-> pc, code |-> otpCode.id]
    OBVIOUS
  <1>4. /\ otpCode.id \in Codes /\ wrongAnswers[otpCode.id] # -1 /\ otpCode.id # 0
        /\ h \in HandlerState /\ h.code = otpCode.id
    <2>1. otpCode \in [id : 0..MaxCodes, ttl : 0..OtpLife] /\ Codes = {c \in 0..MaxCodes : c # 0}
      BY <1>1, OtpTypes
    <2>2. otpCode.id # 0
      BY <1>1, <2>1 DEF ReadOtp, NoCode, OtpShape
    <2> QED BY <1>1, <1>3, <2>1, <2>2 DEF OtpShape, HandlerState
  <1>5. /\ UNCHANGED <<otpCode, otpTries, otpDelivered, wrongAnswers, phoneOf, otpLost>>
        /\ verifier' = [verifier EXCEPT ![v] = h] /\ verifier[v].pc = "idle"
    BY <1>2, <1>3 DEF ReadOtp, At
  <1>6. OtpShape'
    BY <1>1, <1>4, <1>5, QuietShape DEF OtpShape, OtpTypeOK
  <1>7. PastCodes'
    <2>1. otpLost' \in Nat /\ otpLost' >= otpLost
      BY <1>1, <1>5, OtpTypes
    <2>2. otpCode'.id = otpCode.id
      BY <1>5
    <2> QED BY <1>4, <1>5, <2>1, <2>2, QuietPast
  <1>8. v \in Free /\ v \notin Late /\ Late # Verifiers
    BY <1>5 DEF Free, Late
  <1>9. Free' \in {Free \ {v}, Free} /\ Late' = Late
    <2>1. /\ Free' = IF h.pc \in {"phone", "mark", "del"} THEN Free \ {v} ELSE Free \cup {v}
          /\ Late' = IF h.pc = "delTries" THEN Late \cup {v} ELSE Late \ {v}
      BY <1>1, <1>4, <1>5, HandlerMoves
    <2> QED BY <1>3, <1>8, <2>1
  <1>10. Cardinality(Free') <= Cardinality(Free) /\ Cardinality(Free') \in Nat /\ Cardinality(Free) \in Nat
    <2>1. IsFiniteSet(Free) /\ Cardinality(Free) \in Nat
      BY <1>1, OtpNumbers
    <2>2. Cardinality(Free \ {v}) \in Nat /\ Cardinality(Free \ {v}) <= Cardinality(Free)
      BY <2>1, OneMore
    <2> QED BY <1>9, <2>1, <2>2
  <1>11. TriesLeft' = TriesLeft /\ EarlyExpiry' = EarlyExpiry
    BY <1>5 DEF TriesLeft, EarlyExpiry
  <1>12. ThisCode'
    <2>1. PICK f \in Nat, d \in Nat, t \in Nat, e \in Nat :
             f = Cardinality(Free) /\ d = Cardinality(Late) /\ t = TriesLeft /\ e = EarlyExpiry
      BY <1>1, OtpNumbers
    <2>2. 0 = wrongAnswers'[otpCode.id] - wrongAnswers[otpCode.id] - (otpLost' - otpLost)
      <3>1. wrongAnswers[otpCode.id] \in Int /\ otpLost \in Int
        BY <1>1, <1>4, OtpTypes
      <3> QED BY <1>5, <3>1
    <2>3. Cardinality(Late') + EarlyExpiry' + 0 <= Cardinality(Late) + EarlyExpiry
      BY <1>9, <1>11, <2>1
    <2>4. 0 + Cardinality(Free') + TriesLeft' <= Cardinality(Free) + TriesLeft + (IF 0 = 1 THEN MaxOtpAttempts - 1 ELSE 0)
      BY <1>10, <1>11, <2>1
    <2>5. otpCode'.id = otpCode.id /\ Late' # Verifiers
      BY <1>5, <1>8, <1>9
    <2>6. 0 \in Int /\ 0 \in {0, 1}
      OBVIOUS
    <2> QED BY <1>4, <1>6, <1>8, <2>2, <2>3, <2>4, <2>5, <2>6, CodeSafe
  <1> QED BY <1>6, <1>7, <1>12 DEF OtpInv

LEMMA HandlerCounts ==
    ASSUME OtpShape, NEW v \in Verifiers, NEW h \in HandlerState, verifier' = [verifier EXCEPT ![v] = h],
           h.pc # "delTries"
    PROVE  /\ Cardinality(Free') \in Nat /\ Cardinality(Late') \in Nat /\ Late' # Verifiers
           /\ Cardinality(Free') <= Cardinality(Free) + 1
           /\ v \in Free \/ h.pc \in {"phone", "mark", "del"} => Cardinality(Free') <= Cardinality(Free)
           /\ v \in Free /\ h.pc \in {"phone", "mark", "del"} => Cardinality(Free') = Cardinality(Free) - 1
           /\ Cardinality(Late') <= Cardinality(Late)
           /\ v \in Late => Cardinality(Late') = Cardinality(Late) - 1
  <1>1. /\ Free' = IF h.pc \in {"phone", "mark", "del"} THEN Free \ {v} ELSE Free \cup {v}
        /\ Late' = Late \ {v}
    BY HandlerMoves
  <1>2. IsFiniteSet(Free) /\ IsFiniteSet(Late)
    BY OtpNumbers
  <1>3. /\ Cardinality(Free) \in Nat
        /\ Cardinality(Free \cup {v}) \in Nat /\ Cardinality(Free \ {v}) \in Nat
        /\ Cardinality(Free \ {v}) <= Cardinality(Free) /\ Cardinality(Free \cup {v}) <= Cardinality(Free) + 1
        /\ v \in Free => Cardinality(Free \ {v}) = Cardinality(Free) - 1 /\ Cardinality(Free \cup {v}) = Cardinality(Free)
    BY <1>2, OneMore
  <1>4. /\ Cardinality(Late \ {v}) \in Nat /\ Cardinality(Late \ {v}) <= Cardinality(Late)
        /\ v \in Late => Cardinality(Late \ {v}) = Cardinality(Late) - 1
    BY <1>2, OneMore
  <1>5. Cardinality(Free') \in Nat
    BY <1>1, <1>3
  <1>6. Cardinality(Free') <= Cardinality(Free) + 1
    BY <1>1, <1>3
  <1>7. v \in Free \/ h.pc \in {"phone", "mark", "del"} => Cardinality(Free') <= Cardinality(Free)
    BY <1>1, <1>3
  <1>8. v \in Free /\ h.pc \in {"phone", "mark", "del"} => Cardinality(Free') = Cardinality(Free) - 1
    BY <1>1, <1>3
  <1> QED BY <1>1, <1>4, <1>5, <1>6, <1>7, <1>8

\* A handler that counts nothing and resets nothing.
LEMMA StepSafe ==
    ASSUME OtpInv, NEW v \in Verifiers, NEW h \in HandlerState, verifier' = [verifier EXCEPT ![v] = h],
           UNCHANGED <<otpCode, otpDelivered, wrongAnswers, otpLost>>, h.pc \notin {"record", "delTries"},
           v \notin Late, v \in Free \/ h.pc \in {"phone", "mark", "del"},
           otpTries' \in [n : Nat, ttl : 0..OtpLife], otpTries'.n = otpTries.n, otpTries'.ttl > 0 => otpTries'.n > 0,
           otpTries'.ttl \in {otpTries.ttl, OtpLife}, phoneOf' \in [Verifiers -> {"none", "written", "verified"}]
    PROVE  OtpInv'
  <1>1. OtpShape
    BY DEF OtpInv
  <1>2. OtpShape'
    <2>1. otpLost' \in 0..OtpDeaths
      BY <1>1 DEF OtpShape, OtpTypeOK
    <2> QED BY <1>1, <2>1, QuietShape
  <1>3. otpLost \in Nat /\ otpCode.ttl \in 0..OtpLife /\ OtpLife \in Nat /\ otpTries.ttl \in 0..OtpLife
    BY <1>1, OtpTypes
  <1>4. PastCodes'
    <2>1. otpLost' \in Nat /\ otpLost' >= otpLost /\ otpCode'.id = otpCode.id
      BY <1>3
    <2> QED BY <2>1, QuietPast
  <1>5. TriesLeft' = TriesLeft
    BY DEF TriesLeft
  <1>6. EarlyExpiry' \in {0, EarlyExpiry}
    BY <1>3 DEF EarlyExpiry
  <1>7. /\ Cardinality(Free') \in Nat /\ Cardinality(Late') \in Nat /\ Late' # Verifiers
        /\ Cardinality(Free') <= Cardinality(Free) /\ Cardinality(Late') <= Cardinality(Late)
    BY <1>1, HandlerCounts
  <1>8. Late # Verifiers
    OBVIOUS
  <1>9. ASSUME otpCode.id # 0 PROVE ThisCode'
    <2>1. PICK f \in Nat, d \in Nat, t \in Nat, e \in {0, 1} :
             f = Cardinality(Free) /\ d = Cardinality(Late) /\ t = TriesLeft /\ e = EarlyExpiry
      BY <1>1, OtpNumbers
    <2>2. 0 = wrongAnswers'[otpCode.id] - wrongAnswers[otpCode.id] - (otpLost' - otpLost)
      <3>1. otpCode.id \in Codes /\ wrongAnswers \in [Codes -> Nat \cup {-1}]
        BY <1>1, <1>9, OtpTypes
      <3>2. wrongAnswers[otpCode.id] \in Int
        BY <3>1
      <3> QED BY <1>3, <3>2
    <2>3. Cardinality(Late') + EarlyExpiry' + 0 <= Cardinality(Late) + EarlyExpiry
      BY <1>6, <1>7, <2>1
    <2>4. 0 + Cardinality(Free') + TriesLeft' <= Cardinality(Free) + TriesLeft + (IF 0 = 1 THEN MaxOtpAttempts - 1 ELSE 0)
      BY <1>5, <1>7, <2>1
    <2>5. otpCode'.id = otpCode.id /\ 0 \in Int /\ 0 \in {0, 1}
      OBVIOUS
    <2> QED BY <1>2, <1>7, <1>8, <1>9, <2>2, <2>3, <2>4, <2>5, CodeSafe
  <1>10. ASSUME otpCode.id = 0 PROVE ThisCode'
    BY <1>10 DEF ThisCode
  <1> QED BY <1>2, <1>4, <1>9, <1>10 DEF OtpInv

LEMMA ExpireSafe ==
    ASSUME OtpInv, NEW v \in Verifiers, ExpireTries(v)
    PROVE  OtpInv'
  <1>1. OtpShape
    BY DEF OtpInv
  <1>2. PICK h : h = NoVerifier
    OBVIOUS
  <1>3. /\ verifier' = [verifier EXCEPT ![v] = h] /\ h \in HandlerState /\ h.pc = "idle"
        /\ UNCHANGED <<otpCode, otpDelivered, wrongAnswers, phoneOf, otpLost>> /\ verifier[v].pc = "expire"
    BY <1>1, <1>2, OtpTypes DEF ExpireTries, Return, NoVerifier, HandlerState, At
  <1>4. v \in Free /\ v \notin Late
    BY <1>3 DEF Free, Late
  <1>5. /\ otpTries' \in [n : Nat, ttl : 0..OtpLife] /\ otpTries'.n = otpTries.n
        /\ otpTries'.ttl > 0 => otpTries'.n > 0
        /\ otpTries'.ttl \in {otpTries.ttl, OtpLife}
    <2>1. otpTries \in [n : Nat, ttl : 0..OtpLife] /\ OtpLife \in Nat /\ (otpTries.ttl > 0 => otpTries.n > 0)
      BY <1>1, OtpTypes DEF OtpShape
    <2>2. CASE otpTries.n = 0
      BY <2>1, <2>2 DEF ExpireTries
    <2>3. CASE otpTries.n # 0
      BY <2>1, <2>3 DEF ExpireTries
    <2> QED BY <2>2, <2>3
  <1>6. phoneOf' \in [Verifiers -> {"none", "written", "verified"}]
    BY <1>1, <1>3 DEF OtpShape, OtpTypeOK
  <1>7. h.pc \notin {"record", "delTries"}
    BY <1>3
  <1> QED BY <1>3, <1>4, <1>5, <1>6, <1>7, StepSafe

LEMMA PhoneSafe ==
    ASSUME OtpInv, NEW v \in Verifiers, UpdatePhone(v) \/ MarkPhoneVerified(v)
    PROVE  OtpInv'
  <1>1. OtpShape /\ verifier \in [Verifiers -> HandlerState]
    BY OtpTypes DEF OtpInv
  <1>2. PICK pc \in {"mark", "del"} : verifier' = [verifier EXCEPT ![v].pc = pc]
    BY DEF UpdatePhone, MarkPhoneVerified, Goto
  <1>3. PICK h : h = [verifier[v] EXCEPT !.pc = pc]
    OBVIOUS
  <1>4. verifier' = [verifier EXCEPT ![v] = h] /\ h \in HandlerState /\ h.pc = pc
    BY <1>1, <1>2, <1>3 DEF HandlerState
  <1>5. UNCHANGED <<otpCode, otpTries, otpDelivered, wrongAnswers, otpLost>> /\ verifier[v].pc \in {"phone", "mark"}
    BY DEF UpdatePhone, MarkPhoneVerified, At
  <1>6. phoneOf' \in [Verifiers -> {"none", "written", "verified"}]
    BY <1>1 DEF UpdatePhone, MarkPhoneVerified, OtpShape, OtpTypeOK
  <1>7. v \notin Late /\ h.pc \in {"phone", "mark", "del"} /\ h.pc \notin {"record", "delTries"}
    BY <1>4, <1>5 DEF Late
  <1>8. /\ otpTries' \in [n : Nat, ttl : 0..OtpLife] /\ otpTries'.n = otpTries.n
        /\ otpTries'.ttl > 0 => otpTries'.n > 0
        /\ otpTries'.ttl \in {otpTries.ttl, OtpLife}
    BY <1>1, <1>5, OtpTypes DEF OtpShape
  <1>9. UNCHANGED <<otpCode, otpDelivered, wrongAnswers, otpLost>>
    BY <1>5
  <1>10. v \in Free \/ h.pc \in {"phone", "mark", "del"}
    BY <1>7
  <1> QED BY <1>4, <1>6, <1>7, <1>8, <1>9, <1>10, StepSafe

\* A wrong answer is paid for by the count, or is its handler's last.
LEMMA RecordSafe ==
    ASSUME OtpInv, NEW v \in Verifiers, RecordOtpFailure(v)
    PROVE  OtpInv'
  <1>1. OtpShape
    BY DEF OtpInv
  <1>2. /\ verifier \in [Verifiers -> HandlerState] /\ otpTries \in [n : Nat, ttl : 0..OtpLife]
        /\ wrongAnswers \in [Codes -> Nat \cup {-1}] /\ otpLost \in Nat
    BY <1>1, OtpTypes
  <1>3. PICK c : c = verifier[v].code
    OBVIOUS
  <1>4. verifier[v].pc = "record" /\ c \in Codes /\ wrongAnswers[c] # -1
    BY <1>1, <1>3 DEF RecordOtpFailure, At, OtpShape
  <1>5. PICK n \in Nat : n = otpTries.n
    BY <1>2
  <1>6. otpTries' = [n |-> n + 1, ttl |-> otpTries.ttl]
    BY <1>2, <1>5 DEF RecordOtpFailure
  <1>7. /\ \A x \in Codes : wrongAnswers'[x] = IF x = c THEN wrongAnswers[x] + 1 ELSE wrongAnswers[x]
        /\ wrongAnswers' \in [Codes -> Nat \cup {-1}]
    BY <1>2, <1>3, <1>4 DEF RecordOtpFailure
  <1>8. UNCHANGED <<otpCode, otpDelivered, phoneOf, otpLost>>
    BY DEF RecordOtpFailure
  <1>9. otpTries'.n = n + 1
    BY <1>6
  <1>10. PICK h \in HandlerState :
            /\ verifier' = [verifier EXCEPT ![v] = h]
            /\ \/ h.pc = "expire" /\ n + 1 = 1
               \/ h.pc = "del" /\ n + 1 >= MaxOtpAttempts
               \/ h.pc = "idle" /\ n + 1 < MaxOtpAttempts
    <2>1. PICK a, b, i : /\ a = [verifier[v] EXCEPT !.pc = "expire"] /\ b = [verifier[v] EXCEPT !.pc = "del"]
                         /\ i = NoVerifier
      OBVIOUS
    <2>2. a \in HandlerState /\ b \in HandlerState /\ i \in HandlerState /\ a.pc = "expire" /\ b.pc = "del" /\ i.pc = "idle"
      BY <1>1, <1>2, <2>1, OtpTypes DEF HandlerState, NoVerifier
    <2>3. \/ n + 1 = 1 /\ verifier' = [verifier EXCEPT ![v] = a]
          \/ n + 1 >= MaxOtpAttempts /\ verifier' = [verifier EXCEPT ![v] = b]
          \/ n + 1 < MaxOtpAttempts /\ verifier' = [verifier EXCEPT ![v] = i]
      BY <1>9, <2>1 DEF RecordOtpFailure, Goto, Return
    <2> QED BY <2>2, <2>3
  <1>11. v \in Free /\ v \notin Late /\ Late # Verifiers
    BY <1>4 DEF Free, Late
  <1>12. /\ verifier' \in [Verifiers -> HandlerState]
         /\ \A u \in Verifiers : verifier'[u] = IF u = v THEN h ELSE verifier[u]
         /\ \A x : Pending(x)' = Pending(x) \ {v}
    BY <1>1, <1>10, HandlerMoves
  <1>13. OtpShape'
    <2>1. OtpTypeOK'
      BY <1>1, <1>2, <1>6, <1>7, <1>8, <1>12 DEF OtpShape, OtpTypeOK, HandlerState
    <2>2. \A x \in Codes : wrongAnswers'[x] # -1 <=> wrongAnswers[x] # -1
      BY <1>2, <1>4, <1>7
    <2>3. \A u \in Verifiers : verifier'[u].pc = "record" =>
                                  verifier'[u].code \in Codes /\ wrongAnswers'[verifier'[u].code] # -1
      BY <1>1, <1>10, <1>12, <2>2 DEF OtpShape
    <2>4. \E k \in 0..MaxCodes : \A x \in Codes : wrongAnswers'[x] # -1 <=> x <= k
      BY <1>1, <2>2 DEF OtpShape
    <2>5. otpCode'.id # 0 => wrongAnswers'[otpCode'.id] # -1
      <3>1. otpCode.id # 0 => otpCode.id \in Codes /\ wrongAnswers[otpCode.id] # -1
        BY <1>1, OtpTypes DEF OtpShape
      <3> QED BY <1>8, <2>2, <3>1
    <2>6. otpTries'.ttl > 0 => otpTries'.n > 0
      BY <1>5, <1>6
    <2>7. otpCode'.id = 0 <=> otpCode'.ttl = 0
      BY <1>1, <1>8 DEF OtpShape
    <2> QED BY <2>1, <2>3, <2>4, <2>5, <2>6, <2>7 DEF OtpShape
  <1>14. PastCodes'
    <2>1. Budget' = Budget
      BY <1>8 DEF Budget
    <2>2. ASSUME NEW x \in Codes, x # otpCode.id
          PROVE  wrongAnswers'[x] + Cardinality(Pending(x)') <= Budget'
      <3>1. PICK all : all = Pending(x) /\ IsFiniteSet(all)
        BY <1>1, OtpNumbers
      <3>2. /\ Cardinality(all) \in Nat /\ Cardinality(all \ {v}) \in Nat /\ Cardinality(all \ {v}) <= Cardinality(all)
            /\ v \in all => Cardinality(all \ {v}) = Cardinality(all) - 1
        BY <3>1, OneMore
      <3>3. wrongAnswers[x] + Cardinality(all) <= Budget /\ wrongAnswers[x] \in Int
        BY <1>2, <3>1, AnyCode
      <3>4. Pending(x)' = all \ {v} /\ (x = c => v \in all)
        BY <1>3, <1>4, <1>12, <3>1 DEF Pending
      <3>5. PICK p \in Nat, q \in Nat : p = Cardinality(all) /\ q = Cardinality(all \ {v}) /\ q <= p
                                         /\ (x = c => q = p - 1)
        BY <3>2, <3>4
      <3>6. PICK w \in Int, ww \in Int : w = wrongAnswers[x] /\ ww = wrongAnswers'[x] /\ ww = IF x = c THEN w + 1 ELSE w
        BY <1>7, <3>3
      <3>7. ww + q <= w + p
        BY <3>5, <3>6
      <3>8. PICK b \in Int : b = Budget
        <4>1. PICK k \in Nat, m \in Nat : k = MaxOtpAttempts /\ m = Cardinality(Verifiers)
          BY <1>1, OtpNumbers
        <4>2. (m + 1) * k \in Nat
          OBVIOUS
        <4> QED BY <1>2, <4>1, <4>2 DEF Budget
      <3>9. w + p <= b
        BY <3>3, <3>5, <3>6, <3>8
      <3>10. ww + q <= b
        BY <3>7, <3>8, <3>9
      <3> QED BY <2>1, <3>4, <3>5, <3>6, <3>8, <3>10
    <2> QED BY <1>8, <2>2 DEF PastCodes
  <1>15. ASSUME otpCode.id # 0 PROVE ThisCode'
    <2>1. PICK f \in Nat, d \in Nat, t \in Nat, e \in {0, 1}, m \in Nat :
             /\ f = Cardinality(Free) /\ d = Cardinality(Late) /\ t = TriesLeft /\ e = EarlyExpiry
             /\ m = MaxOtpAttempts /\ m >= 2
      BY <1>1, OtpNumbers
    <2>2. PICK ff \in Nat, dd \in Nat : ff = Cardinality(Free') /\ dd = Cardinality(Late')
      BY <1>13, OtpMeasuresNext DEF OtpMeasured
    <2>3. /\ ff <= f /\ dd <= d /\ Late' # Verifiers
          /\ h.pc = "del" => ff = f - 1
      BY <1>1, <1>10, <1>11, <2>1, <2>2, HandlerCounts
    <2>4. EarlyExpiry' = EarlyExpiry
      BY <1>6, <1>8 DEF EarlyExpiry
    <2>5. /\ t = IF n < m THEN m - 1 - n ELSE 0
          /\ TriesLeft' = IF n + 1 < m THEN m - 1 - (n + 1) ELSE 0
      BY <1>5, <1>9, <2>1 DEF TriesLeft
    <2>6. PICK tt \in Nat : tt = TriesLeft' /\ 1 + ff + tt <= f + t
      <3>1. CASE n + 1 < m
        BY <2>1, <2>3, <2>5, <3>1
      <3>2. CASE ~(n + 1 < m)
        <4>1. h.pc = "del"
          BY <1>10, <2>1, <3>2
        <4> QED BY <2>1, <2>3, <2>5, <3>2, <4>1
      <3> QED BY <3>1, <3>2
    <2>7. PICK g \in {0, 1} : g = wrongAnswers'[otpCode.id] - wrongAnswers[otpCode.id] - (otpLost' - otpLost)
      <3>1. otpCode.id \in Codes
        BY <1>1, <1>15, OtpTypes
      <3>2. wrongAnswers[otpCode.id] \in Int
        BY <1>2, <3>1
      <3> QED BY <1>2, <1>7, <1>8, <3>1, <3>2
    <2>8. g + Cardinality(Free') + TriesLeft' <= Cardinality(Free) + TriesLeft + (IF 0 = 1 THEN MaxOtpAttempts - 1 ELSE 0)
      BY <2>1, <2>2, <2>6
    <2>9. Cardinality(Late') + EarlyExpiry' + 0 <= Cardinality(Late) + EarlyExpiry
      BY <2>1, <2>2, <2>3, <2>4
    <2>10. otpCode'.id = otpCode.id /\ g \in Int /\ 0 \in {0, 1}
      BY <1>8
    <2> QED BY <1>11, <1>13, <1>15, <2>3, <2>7, <2>8, <2>9, <2>10, CodeSafe
  <1>16. ASSUME otpCode.id = 0 PROVE ThisCode'
    BY <1>8, <1>16 DEF ThisCode
  <1> QED BY <1>13, <1>14, <1>15, <1>16 DEF OtpInv

\* The code goes, whichever it is; what was pending for it still counts.
LEMMA DeleteSafe ==
    ASSUME OtpInv, NEW v \in Verifiers, DeleteOtp(v)
    PROVE  OtpInv'
  <1>1. OtpShape /\ verifier \in [Verifiers -> HandlerState]
    BY OtpTypes DEF OtpInv
  <1>2. PICK h : h = [verifier[v] EXCEPT !.pc = "delTries"]
    OBVIOUS
  <1>3. /\ verifier' = [verifier EXCEPT ![v] = h] /\ h \in HandlerState /\ h.pc = "delTries" /\ verifier[v].pc = "del"
        /\ UNCHANGED <<otpTries, otpDelivered, wrongAnswers, phoneOf, otpLost>> /\ otpCode' = [id |-> 0, ttl |-> 0]
    BY <1>1, <1>2 DEF DeleteOtp, Goto, At, HandlerState, NoCode
  <1>4. /\ verifier' \in [Verifiers -> HandlerState]
        /\ \A u \in Verifiers : verifier'[u] = IF u = v THEN h ELSE verifier[u]
        /\ \A c : Pending(c)' = Pending(c) \ {v}
    BY <1>1, <1>3, HandlerMoves
  <1>5. OtpShape'
    <2>1. OtpTypeOK'
      BY <1>1, <1>3, <1>4, OtpAssumption DEF OtpShape, OtpTypeOK, HandlerState
    <2>2. \A u \in Verifiers : verifier'[u].pc = "record" =>
                                  verifier'[u].code \in Codes /\ wrongAnswers'[verifier'[u].code] # -1
      BY <1>1, <1>3, <1>4 DEF OtpShape
    <2> QED BY <1>1, <1>3, <2>1, <2>2 DEF OtpShape
  <1>6. PastCodes'
    <2>1. ASSUME NEW c \in Codes PROVE wrongAnswers'[c] + Cardinality(Pending(c)') <= Budget'
      <3>1. Pending(c)' = Pending(c)
        BY <1>3, <1>4 DEF Pending
      <3>2. wrongAnswers[c] + Cardinality(Pending(c)) <= Budget
        BY AnyCode
      <3>3. Budget' = Budget
        BY <1>3 DEF Budget
      <3> QED BY <1>3, <3>1, <3>2, <3>3
    <2> QED BY <2>1 DEF PastCodes
  <1>7. ThisCode'
    BY <1>3 DEF ThisCode
  <1> QED BY <1>5, <1>6, <1>7 DEF OtpInv

\* A late reset pays for the new count it allows.
LEMMA ResetSafe ==
    ASSUME OtpInv, NEW v \in Verifiers, DeleteOtpTries(v)
    PROVE  OtpInv'
  <1>1. OtpShape
    BY DEF OtpInv
  <1>2. PICK h : h = NoVerifier
    OBVIOUS
  <1>3. /\ verifier' = [verifier EXCEPT ![v] = h] /\ h \in HandlerState /\ h.pc = "idle" /\ verifier[v].pc = "delTries"
        /\ UNCHANGED <<otpCode, otpDelivered, wrongAnswers, phoneOf, otpLost>> /\ otpTries' = [n |-> 0, ttl |-> 0]
    BY <1>1, <1>2, OtpTypes DEF DeleteOtpTries, Return, NoVerifier, HandlerState, At, NoTries
  <1>4. v \in Free /\ v \in Late
    BY <1>3 DEF Free, Late
  <1>5. otpLost \in Nat /\ otpLost \in 0..OtpDeaths /\ OtpLife \in Nat
    BY <1>1, OtpTypes DEF OtpShape, OtpTypeOK
  <1>6. OtpShape'
    <2>1. otpTries' \in [n : Nat, ttl : 0..OtpLife] /\ ~(otpTries'.ttl > 0)
      BY <1>3, <1>5
    <2>2. phoneOf' \in [Verifiers -> {"none", "written", "verified"}]
      BY <1>1, <1>3 DEF OtpShape, OtpTypeOK
    <2>3. UNCHANGED <<otpCode, otpDelivered, wrongAnswers>> /\ otpLost' \in 0..OtpDeaths
      BY <1>3, <1>5
    <2> QED BY <1>1, <1>3, <2>1, <2>2, <2>3, QuietShape
  <1>7. PastCodes'
    <2>1. otpLost' \in Nat /\ otpLost' >= otpLost /\ otpCode'.id = otpCode.id /\ UNCHANGED wrongAnswers
      BY <1>3, <1>5
    <2> QED BY <1>3, <2>1, QuietPast
  <1>8. CASE Late = Verifiers
    <2>1. Unanswered'
      BY <1>3, <1>8 DEF OtpInv, ThisCode, Unanswered
    <2> QED BY <1>6, <1>7, <2>1, FreshSafeNext DEF OtpInv
  <1>9. CASE Late # Verifiers
    <2>1. ASSUME otpCode.id # 0 PROVE ThisCode'
      <3>1. PICK f \in Nat, d \in Nat, t \in Nat, e \in {0, 1}, m \in Nat :
               /\ f = Cardinality(Free) /\ d = Cardinality(Late) /\ t = TriesLeft /\ e = EarlyExpiry
               /\ m = MaxOtpAttempts /\ m >= 2
        BY <1>1, OtpNumbers
      <3>2. /\ Cardinality(Free') \in Nat /\ Cardinality(Free') <= f
            /\ Cardinality(Late') = d - 1 /\ Late' # Verifiers
        BY <1>1, <1>3, <1>4, <3>1, HandlerCounts
      <3>3. TriesLeft' = m - 1 /\ EarlyExpiry' = 0
        BY <1>3, <3>1 DEF TriesLeft, EarlyExpiry
      <3>4. 0 = wrongAnswers'[otpCode.id] - wrongAnswers[otpCode.id] - (otpLost' - otpLost)
        <4>1. otpCode.id \in Codes /\ wrongAnswers \in [Codes -> Nat \cup {-1}]
          BY <1>1, <2>1, OtpTypes
        <4>2. wrongAnswers[otpCode.id] \in Int
          BY <4>1
        <4> QED BY <1>3, <1>5, <4>2
      <3>5. Cardinality(Late') + EarlyExpiry' + 1 <= Cardinality(Late) + EarlyExpiry
        BY <3>1, <3>2, <3>3
      <3>6. 0 + Cardinality(Free') + TriesLeft' <= Cardinality(Free) + TriesLeft + (IF 1 = 1 THEN MaxOtpAttempts - 1 ELSE 0)
        BY <3>1, <3>2, <3>3
      <3>7. otpCode'.id = otpCode.id /\ 0 \in Int /\ 1 \in {0, 1}
        BY <1>3
      <3> QED BY <1>6, <1>9, <2>1, <3>2, <3>4, <3>5, <3>6, <3>7, CodeSafe
    <2>2. ASSUME otpCode.id = 0 PROVE ThisCode'
      BY <1>3, <2>2 DEF ThisCode
    <2> QED BY <1>6, <1>7, <2>1, <2>2 DEF OtpInv
  <1> QED BY <1>8, <1>9

\* A handler that dies may come back for one more answer.
LEMMA DeathSafe ==
    ASSUME OtpInv, NEW v \in Verifiers, VerifierDies(v)
    PROVE  OtpInv'
  <1>1. OtpShape
    BY DEF OtpInv
  <1>2. PICK h : h = NoVerifier
    OBVIOUS
  <1>3. /\ verifier' = [verifier EXCEPT ![v] = h] /\ h \in HandlerState /\ h.pc = "idle"
        /\ UNCHANGED <<otpCode, otpTries, otpDelivered, wrongAnswers, phoneOf>>
        /\ otpLost' = otpLost + 1 /\ otpLost < OtpDeaths
    BY <1>1, <1>2, OtpTypes DEF VerifierDies, Return, NoVerifier, HandlerState
  <1>4. otpLost \in Nat /\ otpLost' \in Nat /\ otpLost' \in 0..OtpDeaths
    BY <1>1, <1>3, OtpTypes, OtpAssumption
  <1>5. OtpShape'
    <2>1. otpTries' \in [n : Nat, ttl : 0..OtpLife] /\ (otpTries'.ttl > 0 => otpTries'.n > 0)
      BY <1>1, <1>3, OtpTypes DEF OtpShape
    <2>2. phoneOf' \in [Verifiers -> {"none", "written", "verified"}]
      BY <1>1, <1>3 DEF OtpShape, OtpTypeOK
    <2>3. UNCHANGED <<otpCode, otpDelivered, wrongAnswers>>
      BY <1>3
    <2> QED BY <1>1, <1>3, <1>4, <2>1, <2>2, <2>3, QuietShape
  <1>6. PastCodes'
    <2>1. otpLost' \in Nat /\ otpLost' >= otpLost /\ otpCode'.id = otpCode.id /\ UNCHANGED wrongAnswers
      BY <1>3, <1>4
    <2> QED BY <1>3, <2>1, QuietPast
  <1>7. CASE Late = Verifiers
    <2>1. Unanswered'
      BY <1>3, <1>7 DEF OtpInv, ThisCode, Unanswered
    <2> QED BY <1>5, <1>6, <2>1, FreshSafeNext DEF OtpInv
  <1>8. CASE Late # Verifiers
    <2>1. ASSUME otpCode.id # 0 PROVE ThisCode'
      <3>1. PICK f \in Nat, d \in Nat, t \in Nat, e \in {0, 1} :
               f = Cardinality(Free) /\ d = Cardinality(Late) /\ t = TriesLeft /\ e = EarlyExpiry
        BY <1>1, OtpNumbers
      <3>2. /\ Cardinality(Free') \in Nat /\ Cardinality(Free') <= f + 1
            /\ Cardinality(Late') \in Nat /\ Cardinality(Late') <= d /\ Late' # Verifiers
        BY <1>1, <1>3, <3>1, HandlerCounts
      <3>3. TriesLeft' = TriesLeft /\ EarlyExpiry' = EarlyExpiry
        BY <1>3 DEF TriesLeft, EarlyExpiry
      <3>4. -1 = wrongAnswers'[otpCode.id] - wrongAnswers[otpCode.id] - (otpLost' - otpLost)
        <4>1. otpCode.id \in Codes /\ wrongAnswers \in [Codes -> Nat \cup {-1}]
          BY <1>1, <2>1, OtpTypes
        <4>2. wrongAnswers[otpCode.id] \in Int
          BY <4>1
        <4> QED BY <1>3, <1>4, <4>2
      <3>5. Cardinality(Late') + EarlyExpiry' + 0 <= Cardinality(Late) + EarlyExpiry
        BY <3>1, <3>2, <3>3
      <3>6. -1 + Cardinality(Free') + TriesLeft' <= Cardinality(Free) + TriesLeft + (IF 0 = 1 THEN MaxOtpAttempts - 1 ELSE 0)
        BY <3>1, <3>2, <3>3
      <3>7. otpCode'.id = otpCode.id /\ -1 \in Int /\ 0 \in {0, 1}
        BY <1>3
      <3> QED BY <1>5, <1>8, <2>1, <3>2, <3>4, <3>5, <3>6, <3>7, CodeSafe
    <2>2. ASSUME otpCode.id = 0 PROVE ThisCode'
      BY <1>3, <2>2 DEF ThisCode
    <2> QED BY <1>5, <1>6, <2>1, <2>2 DEF OtpInv
  <1> QED BY <1>7, <1>8

\* Both keys age.  A counter that runs out under the code it is counting for
\* was started for an earlier one, and that was paid for.
LEMMA TickSafe ==
    ASSUME OtpInv, OtpTick
    PROVE  OtpInv'
  <1>1. /\ OtpShape /\ otpCode \in [id : 0..MaxCodes, ttl : 0..OtpLife] /\ otpTries \in [n : Nat, ttl : 0..OtpLife]
        /\ wrongAnswers \in [Codes -> Nat \cup {-1}] /\ otpLost \in Nat /\ OtpLife \in Nat
        /\ Codes = {c \in 0..MaxCodes : c # 0} /\ MaxCodes \in Nat
    BY OtpTypes DEF OtpInv
  <1>2. UNCHANGED <<otpDelivered, verifier, wrongAnswers, phoneOf, otpLost>>
    BY DEF OtpTick
  <1>3. /\ Free' = Free /\ Late' = Late /\ Budget' = Budget
        /\ \A c : Pending(c)' = Pending(c)
    BY <1>2 DEF Free, Late, Budget, Pending
  <1>4. PICK i \in 0..MaxCodes, l \in 0..OtpLife : i = otpCode.id /\ l = otpCode.ttl
    BY <1>1
  <1>5. PICK n \in Nat, s \in 0..OtpLife : n = otpTries.n /\ s = otpTries.ttl /\ (s > 0 => n > 0)
    BY <1>1 DEF OtpShape
  <1>6. otpCode' = IF l > 1 THEN [id |-> i, ttl |-> l - 1] ELSE [id |-> 0, ttl |-> 0]
    BY <1>1, <1>4 DEF OtpTick, NoCode
  <1>7. otpTries' = IF s = 0 THEN [n |-> n, ttl |-> 0] ELSE IF s = 1 THEN [n |-> 0, ttl |-> 0]
                                                           ELSE [n |-> n, ttl |-> s - 1]
    <2>0. otpTries = [n |-> n, ttl |-> s] /\ s \in Nat
      BY <1>1, <1>5
    <2>1. CASE s = 0
      BY <2>0, <2>1 DEF OtpTick
    <2>2. CASE s = 1
      BY <2>0, <2>2 DEF OtpTick, NoTries
    <2>3. CASE s # 0 /\ s # 1
      BY <2>0, <2>3 DEF OtpTick
    <2> QED BY <2>1, <2>2, <2>3
  <1>8. OtpShape'
    <2>1. otpCode' \in [id : 0..MaxCodes, ttl : 0..OtpLife]
      BY <1>1, <1>4, <1>6
    <2>2. otpTries' \in [n : Nat, ttl : 0..OtpLife] /\ (otpTries'.ttl > 0 => otpTries'.n > 0)
      BY <1>1, <1>5, <1>7
    <2>3. otpCode'.id = 0 <=> otpCode'.ttl = 0
      BY <1>1, <1>4, <1>6 DEF OtpShape
    <2>4. otpCode'.id # 0 => wrongAnswers[otpCode'.id] # -1
      BY <1>1, <1>4, <1>6 DEF OtpShape
    <2> QED BY <1>1, <1>2, <2>1, <2>2, <2>3, <2>4 DEF OtpShape, OtpTypeOK
  <1>9. PastCodes'
    <2>1. ASSUME NEW c \in Codes PROVE wrongAnswers'[c] + Cardinality(Pending(c)') <= Budget'
      BY <1>2, <1>3, AnyCode
    <2> QED BY <2>1 DEF PastCodes
  <1>10. CASE otpCode'.id = 0
    BY <1>8, <1>9, <1>10 DEF OtpInv, ThisCode
  <1>11. CASE otpCode'.id # 0
    <2>1. l > 1 /\ otpCode'.id = i /\ i # 0 /\ otpCode'.ttl = l - 1
      BY <1>4, <1>6, <1>11
    <2>2. CASE Late = Verifiers
      <3>1. Unanswered'
        BY <1>2, <1>4, <2>1, <2>2 DEF OtpInv, ThisCode, Unanswered
      <3> QED BY <1>8, <1>9, <3>1, FreshSafeNext DEF OtpInv
    <2>3. CASE Late # Verifiers
      <3>1. PICK f \in Nat, d \in Nat, t \in Nat, e \in {0, 1}, m \in Nat :
               /\ f = Cardinality(Free) /\ d = Cardinality(Late) /\ t = TriesLeft /\ e = EarlyExpiry
               /\ m = MaxOtpAttempts /\ m >= 2
        BY <1>1, OtpNumbers
      <3>2. e = IF 0 < s /\ s < l THEN 1 ELSE 0
        BY <1>4, <1>5, <3>1 DEF EarlyExpiry
      <3>3. EarlyExpiry' = IF s > 1 /\ s < l THEN 1 ELSE 0
        <4>1. EarlyExpiry' = IF 0 < otpTries'.ttl /\ otpTries'.ttl < otpCode'.ttl THEN 1 ELSE 0
          BY DEF EarlyExpiry
        <4>2. otpTries'.ttl = IF s > 1 THEN s - 1 ELSE 0
          BY <1>5, <1>7
        <4>3. l \in Nat /\ s \in Nat
          BY <1>1
        <4> QED BY <2>1, <4>1, <4>2, <4>3
      <3>4. TriesLeft' = IF s = 1 THEN m - 1 ELSE t
        <4>1. otpTries'.n = IF s = 1 THEN 0 ELSE n
          BY <1>7
        <4> QED BY <1>5, <3>1, <4>1 DEF TriesLeft
      <3>5. 0 = wrongAnswers'[otpCode.id] - wrongAnswers[otpCode.id] - (otpLost' - otpLost)
        <4>1. otpCode.id \in Codes
          BY <1>1, <1>4, <2>1
        <4>2. wrongAnswers[otpCode.id] \in Int
          BY <1>1, <4>1
        <4> QED BY <1>1, <1>2, <4>2
      <3>6. PICK r \in {0, 1} : r = IF s = 1 THEN 1 ELSE 0
        OBVIOUS
      <3>7. Cardinality(Late') + EarlyExpiry' + r <= Cardinality(Late) + EarlyExpiry
        <4>1. EarlyExpiry' + r <= e
          BY <1>5, <2>1, <3>2, <3>3, <3>6
        <4>2. PICK ee \in {0, 1} : ee = EarlyExpiry'
          BY <3>3
        <4>3. Cardinality(Late') = d
          BY <1>3, <3>1
        <4>4. ee + r <= e
          BY <4>1, <4>2
        <4>5. r \in Int /\ ee \in Int /\ e \in Int /\ d \in Int
          OBVIOUS
        <4>6. d + ee + r <= d + e
          BY <4>4, <4>5
        <4> QED BY <3>1, <4>2, <4>3, <4>6
      <3>8. 0 + Cardinality(Free') + TriesLeft' <= Cardinality(Free) + TriesLeft + (IF r = 1 THEN MaxOtpAttempts - 1 ELSE 0)
        BY <1>3, <3>1, <3>4, <3>6
      <3>9. otpCode'.id = otpCode.id /\ otpCode.id # 0 /\ Late' # Verifiers /\ 0 \in Int
        BY <1>3, <1>4, <2>1, <2>3
      <3>10. ThisCode'
        BY <1>8, <2>3, <3>5, <3>7, <3>8, <3>9, CodeSafe
      <3> QED BY <1>8, <1>9, <3>10 DEF OtpInv
    <2> QED BY <2>2, <2>3
  <1> QED BY <1>10, <1>11

LEMMA SendSafe ==
    ASSUME OtpInv, SendOtp
    PROVE  OtpInv'
  <1>1. /\ OtpShape /\ verifier \in [Verifiers -> HandlerState]
        /\ wrongAnswers \in [Codes -> Nat \cup {-1}] /\ otpLost \in Nat /\ OtpLife \in Nat \ {0}
        /\ Codes = {c \in 0..MaxCodes : c # 0} /\ MaxCodes \in Nat
    BY OtpTypes, OtpAssumption DEF OtpInv
  <1>2. PICK k \in 0..MaxCodes : \A c \in Codes : wrongAnswers[c] # -1 <=> c <= k
    BY <1>1 DEF OtpShape
  <1>3. Issued = k
    <2>1. {c \in Codes : wrongAnswers[c] # -1} = 1..k
      BY <1>1, <1>2
    <2>2. Cardinality(1..k) = k
      <3>1. Cardinality(1..k) = IF 1 > k THEN 0 ELSE k - 1 + 1
        BY <1>1, FS_Interval
      <3> QED BY <1>1, <3>1
    <2> QED BY <2>1, <2>2 DEF Issued
  <1>4. PICK new : new = k + 1 /\ new \in Codes /\ new \in 1..MaxCodes /\ wrongAnswers[new] = -1
    <2>1. k < MaxCodes
      BY <1>3 DEF SendOtp
    <2>2. k + 1 \in Codes /\ k + 1 \in 1..MaxCodes /\ ~(k + 1 <= k)
      BY <1>1, <2>1
    <2> QED BY <1>2, <2>2
  <1>5. /\ otpCode' = [id |-> new, ttl |-> OtpLife] /\ wrongAnswers' = [wrongAnswers EXCEPT ![new] = 0]
        /\ UNCHANGED <<otpTries, otpDelivered, verifier, phoneOf, otpLost>>
    BY <1>3, <1>4 DEF SendOtp
  <1>6. /\ wrongAnswers' \in [Codes -> Nat \cup {-1}]
        /\ \A c \in Codes : wrongAnswers'[c] = IF c = new THEN 0 ELSE wrongAnswers[c]
    BY <1>1, <1>4, <1>5
  <1>7. OtpShape'
    <2>1. otpCode' \in [id : 0..MaxCodes, ttl : 0..OtpLife]
      BY <1>1, <1>4, <1>5
    <2>2. OtpTypeOK'
      BY <1>1, <1>5, <1>6, <2>1 DEF OtpShape, OtpTypeOK
    <2>3. \A v \in Verifiers : verifier[v].pc = "record" =>
                                  verifier[v].code \in Codes /\ wrongAnswers'[verifier[v].code] # -1
      BY <1>1, <1>6 DEF OtpShape
    <2>4. \A c \in Codes : wrongAnswers'[c] # -1 <=> c <= k + 1
      BY <1>1, <1>2, <1>4, <1>6
    <2>5. k + 1 \in 0..MaxCodes
      BY <1>4
    <2>6. otpCode'.id = new /\ wrongAnswers'[new] # -1 /\ otpCode'.ttl = OtpLife /\ new # 0
      BY <1>1, <1>4, <1>5, <1>6
    <2>7. otpTries'.ttl > 0 => otpTries'.n > 0
      BY <1>1, <1>5 DEF OtpShape
    <2>8. otpCode'.id = 0 <=> otpCode'.ttl = 0
      BY <1>1, <2>6
    <2>9. \E j \in 0..MaxCodes : \A c \in Codes : wrongAnswers'[c] # -1 <=> c <= j
      BY <2>4, <2>5
    <2> QED BY <1>5, <2>2, <2>3, <2>6, <2>7, <2>8, <2>9 DEF OtpShape
  <1>8. PastCodes'
    <2>1. ASSUME NEW c \in Codes, c # new PROVE wrongAnswers'[c] + Cardinality(Pending(c)') <= Budget'
      <3>1. Pending(c)' = Pending(c) /\ Budget' = Budget
        BY <1>5 DEF Pending, Budget
      <3> QED BY <1>6, <2>1, <3>1, AnyCode
    <2> QED BY <1>5, <2>1 DEF PastCodes
  <1>9. Unanswered'
    BY <1>4, <1>5, <1>6 DEF Unanswered
  <1> QED BY <1>7, <1>8, <1>9, FreshSafeNext DEF OtpInv

\* A step that touches neither the codes nor the handlers.
LEMMA AsideSafe ==
    ASSUME OtpInv, SendWhatsAppOtp \/ UNCHANGED otpVars
    PROVE  OtpInv'
  <1>1. UNCHANGED <<otpCode, otpTries, verifier, wrongAnswers, phoneOf, otpLost>>
    BY DEF SendWhatsAppOtp, otpVars
  <1>2. OtpShape
    BY DEF OtpInv
  <1>3. otpDelivered' \subseteq Codes
    <2>1. CASE SendWhatsAppOtp
      <3>1. PICK k \in 0..MaxCodes : \A c \in Codes : wrongAnswers[c] # -1 <=> c <= k
        BY <1>2 DEF OtpShape
      <3>2. {c \in Codes : wrongAnswers[c] # -1} = 1..k
        BY <3>1, OtpAssumption DEF Codes
      <3>3. Issued = k
        <4>1. k \in Int /\ k >= 0
          BY OtpAssumption
        <4>2. Cardinality(1..k) = IF 1 > k THEN 0 ELSE k - 1 + 1
          BY <4>1, FS_Interval
        <4>3. Cardinality(1..k) = k
          BY <4>1, <4>2
        <4> QED BY <3>2, <4>3 DEF Issued
      <3> QED BY <1>2, <2>1, <3>3, OtpAssumption DEF SendWhatsAppOtp, OtpShape, OtpTypeOK, Codes
    <2>2. CASE UNCHANGED otpVars
      BY <1>2, <2>2 DEF otpVars, OtpShape, OtpTypeOK
    <2> QED BY <2>1, <2>2
  <1>4. OtpShape'
    BY <1>1, <1>2, <1>3 DEF OtpShape, OtpTypeOK
  <1>5. /\ Free' = Free /\ Late' = Late /\ Budget' = Budget /\ TriesLeft' = TriesLeft /\ EarlyExpiry' = EarlyExpiry
        /\ \A c : Pending(c)' = Pending(c)
    BY <1>1 DEF Free, Late, Budget, Pending, TriesLeft, EarlyExpiry
  <1>6. Ahead' = Ahead
    BY <1>5 DEF Ahead
  <1>7. ThisCode'
    BY <1>1, <1>5, <1>6 DEF OtpInv, ThisCode
  <1>8. PastCodes'
    BY <1>1, <1>5 DEF OtpInv, PastCodes
  <1> QED BY <1>4, <1>7, <1>8 DEF OtpInv

LEMMA OtpStarts == OtpInit => OtpInv
  <1> SUFFICES ASSUME OtpInit PROVE OtpInv
    OBVIOUS
  <1>1. /\ \A c \in Codes : wrongAnswers[c] = -1
        /\ wrongAnswers \in [Codes -> Nat \cup {-1}]
    BY DEF OtpInit
  <1>2. Codes = 1..MaxCodes /\ MaxCodes \in Nat /\ OtpLife \in Nat /\ OtpDeaths \in Nat
    BY OtpAssumption DEF Codes
  <1>3. OtpShape
    <2>1. OtpTypeOK
      BY <1>1, <1>2 DEF OtpInit, OtpTypeOK, NoCode, NoTries, NoVerifier
    <2>2. \A v \in Verifiers : verifier[v].pc # "record"
      BY DEF OtpInit, NoVerifier
    <2>3. \A c \in Codes : wrongAnswers[c] # -1 <=> c <= 0
      BY <1>1, <1>2
    <2>4. 0 \in 0..MaxCodes
      BY <1>2
    <2> QED BY <2>1, <2>2, <2>3, <2>4 DEF OtpShape, OtpInit, NoCode, NoTries
  <1>4. ThisCode
    BY DEF OtpInit, NoCode, ThisCode
  <1>5. PastCodes
    <2>1. PICK n \in Nat, m \in Nat : n = Cardinality(Verifiers) /\ m = MaxOtpAttempts /\ m >= 2
      BY <1>3, OtpNumbers
    <2>2. (n + 1) * m = m * n + m /\ m * n \in Nat
      BY Multiples
    <2>3. Budget >= 0 /\ Budget \in Int
      BY <2>1, <2>2 DEF Budget, OtpInit
    <2>4. ASSUME NEW c \in Codes PROVE Cardinality(Pending(c)) = 0
      <3>1. Pending(c) = {}
        BY DEF Pending, OtpInit, NoVerifier
      <3> QED BY <3>1, FS_EmptySet
    <2> QED BY <1>1, <2>3, <2>4 DEF PastCodes
  <1> QED BY <1>3, <1>4, <1>5 DEF OtpInv

LEMMA OtpInductive == OtpInv /\ [OtpNext]_otpVars => OtpInv'
  <1> SUFFICES ASSUME OtpInv, [OtpNext]_otpVars PROVE OtpInv'
    OBVIOUS
  <1>1. CASE SendOtp
    BY <1>1, SendSafe
  <1>2. CASE SendWhatsAppOtp \/ UNCHANGED otpVars
    BY <1>2, AsideSafe
  <1>3. CASE OtpTick
    BY <1>3, TickSafe
  <1>4. ASSUME NEW v \in Verifiers,
               \/ ReadOtp(v) \/ RecordOtpFailure(v) \/ ExpireTries(v)
               \/ UpdatePhone(v) \/ MarkPhoneVerified(v)
               \/ DeleteOtp(v) \/ DeleteOtpTries(v) \/ VerifierDies(v)
        PROVE  OtpInv'
    BY <1>4, ReadSafe, RecordSafe, ExpireSafe, PhoneSafe, DeleteSafe, ResetSafe, DeathSafe
  <1> QED BY <1>1, <1>2, <1>3, <1>4 DEF OtpNext

\* AuthService.verifyOtp over RedisService.recordOtpFailure and deleteOtp: for
\* any number of concurrent handlers, any limit of two or more and any number of
\* codes, no code takes more than a fixed number of wrong answers.  What a code
\* has had plus what can still come, one last answer of every handler that is
\* free, what is left of the count, and a count for every late reset and for the
\* counter's early expiry, never exceeds it.
THEOREM GuessesAreCapped == OtpSpec => [](OtpTypeOK /\ GuessBudget)
  <1>1. OtpInit => OtpInv
    BY OtpStarts
  <1>2. OtpInv /\ [OtpNext]_otpVars => OtpInv'
    BY OtpInductive
  <1>3. OtpInv => OtpTypeOK /\ GuessBudget
    BY OtpHolds
  <1> QED BY <1>1, <1>2, <1>3, PTL DEF OtpSpec

-----------------------------------------------------------------------------
(* Side by side                                                            *)

\* In what MCParts checks each part does its own steps or rests, whichever was
\* chosen to move: no part is given a state it would not reach alone.
LEMMA EachMovesAlone ==
    [Next]_partsVars =>
        /\ [BookingStep \/ Complete]_bookingVars
        /\ [OtpNext]_otpVars
        /\ [ThrottleNext]_throttleVars
        /\ [MediaNext]_mediaVars
        /\ [ReminderNext]_reminderVars
        /\ [AccountNext]_accountVars
        /\ [SessionNext]_sessionVars
        /\ [DirectoryNext]_directoryVars
        /\ [CatalogNext]_catalogVars
        /\ [ConsentNext]_consentVars
        /\ [SupportNext]_supportVars
  BY DEF Next, partsVars

Bk == INSTANCE BookingsProofs

\* The bookings' proofs speak of an instance of theirs, which is that of MCParts.
LEMMA SameBookings ==
    /\ BookingInit => Bk!BookingInit
    /\ [BookingStep \/ Complete]_bookingVars => [Bk!BookingStep \/ Bk!Complete]_Bk!bookingVars
    /\ Bk!BookingTypeOK /\ Bk!ToldTheTruth => BookingTypeOK /\ ToldTheTruth
    /\ Bk!Promised!Init => Promised!Init
    /\ Bk!Promised!Next => Promised!Next
  BY DEF BookingInit, Bk!BookingInit, BookingStep, Bk!BookingStep, Complete, Bk!Complete, bookingVars,
         Bk!bookingVars, BookingTypeOK, Bk!BookingTypeOK, ToldTheTruth, Bk!ToldTheTruth, CreateCheckBlocks,
         Bk!CreateCheckBlocks, CreateCheckConflict, Bk!CreateCheckConflict, CreateInsert, Bk!CreateInsert,
         StartSwap, Bk!StartSwap, Respond, Bk!Respond, Cancel, Bk!Cancel, SwapMatches, Bk!SwapMatches, Swap,
         Bk!Swap, Notify, Bk!Notify, RequestDies, Bk!RequestDies, SetBlock, Bk!SetBlock, DatePasses,
         Bk!DatePasses, Completable, Bk!Completable, MarkCompleted, Bk!MarkCompleted, Live, Bk!Live, Final,
         Bk!Final, Idle, Bk!Idle, Promised!Init, Bk!Promised!Init, Promised!Next, Bk!Promised!Next,
         Promised!Turns, Bk!Promised!Turns, Promised!Propose, Bk!Promised!Propose, Promised!Accept,
         Bk!Promised!Accept, Promised!Decline, Bk!Promised!Decline, Promised!CallOff, Bk!Promised!CallOff,
         Promised!Hold, Bk!Promised!Hold, Promised!Tell, Bk!Promised!Tell

LEMMA BookingsHold == Spec => []Bk!IInv
  <1>1. Init => Bk!IInv
    BY BookingAssumption, SameBookings, Bk!Initially DEF Init
  <1>2. Bk!IInv /\ [Next]_partsVars => Bk!IInv'
    BY BookingAssumption, EachMovesAlone, SameBookings, Bk!Inductive
  <1> QED BY <1>1, <1>2, PTL DEF Spec

\* Bookings, one-time codes, the rate limit, galleries, reminders, sign-ups,
\* sessions, the directory, the catalog, consents and tickets keep each what was
\* proved of them alone: they share no row and no key, and a step of one is none
\* of another.  So what MCParts checks of small instances side by side holds for
\* every value of the constants.
THEOREM PartsHoldSideBySide ==
    Spec => /\ [](PartsTypeOK /\ ToldTheTruth /\ GuessBudget /\ LimitIsFair /\ GalleryInOrder /\ WarnedOnce)
            /\ [](SignUpWhole /\ EndedStaysEnded /\ OnlyTheEdgeSeparates /\ PickerIsComplete /\ ConsentStands)
            /\ []TablesFirst
            /\ KeepsItsWord
  <1>1. Init => BookingInit /\ OtpInit /\ ThrottleInit /\ MediaInit /\ ReminderInit /\ AccountInit
                /\ SessionInit /\ DirectoryInit /\ CatalogInit /\ ConsentInit /\ SupportInit
    BY DEF Init
  <1>2. Spec => /\ OtpSpec /\ ThrottleSpec /\ MediaSpec /\ ReminderSpec /\ AccountSpec
                /\ SessionSpec /\ DirectorySpec /\ CatalogSpec /\ ConsentSpec /\ SupportSpec
    BY <1>1, EachMovesAlone, PTL
    DEF Spec, OtpSpec, ThrottleSpec, MediaSpec, ReminderSpec, AccountSpec, SessionSpec, DirectorySpec,
        CatalogSpec, ConsentSpec, SupportSpec
  <1>3. Bk!IInv => BookingTypeOK /\ ToldTheTruth
    BY BookingAssumption, SameBookings, Bk!Shown
  <1>4. Spec => KeepsItsWord
    <2>1. Init => Promised!Init
      BY <1>1 DEF BookingInit, Promised!Init
    <2>2. Bk!IInv /\ [Next]_partsVars => [Promised!Next]_<<booking, told>>
      BY BookingAssumption, EachMovesAlone, SameBookings, Bk!StepKeepsWord
    <2> QED BY <2>1, <2>2, BookingsHold, PTL DEF Spec, KeepsItsWord, Promised!Spec
  <1>5. /\ BookingTypeOK /\ OtpTypeOK /\ ThrottleTypeOK /\ MediaTypeOK /\ ReminderTypeOK /\ AccountTypeOK
        /\ SessionTypeOK /\ DirectoryTypeOK /\ CatalogTypeOK /\ ConsentTypeOK /\ SupportTypeOK
        => PartsTypeOK
    BY DEF PartsTypeOK
  <1> QED
    BY <1>2, <1>3, <1>4, <1>5, BookingsHold, EndedSessionsStayEnded, NoCategoryIsLost, OnlyEdgesTellCardsApart,
       TheTablesComeFirst, SignUpsLeaveWholeAccounts, GalleriesStayInOrder, WarningsAreGivenOnce,
       ConsentIsWhatWasSaid, LimitsAreFair, GuessesAreCapped, PTL
=============================================================================
