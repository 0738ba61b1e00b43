------------------------------ MODULE Sessions ------------------------------
(***************************************************************************)
(* Passwords and sessions of one account: login, the social sign-in,       *)
(* refresh, logout, the reset link, the change of password, the deletion   *)
(* of the account and the reset an administrator makes.                    *)
(*                                                                         *)
(* Redis keeps one refresh token per account.  Handlers read, write the    *)
(* row and write Redis one step at a time, so a login may be half-way when *)
(* a reset ends the sessions.  A refresh token is a JWT of the user's row  *)
(* and of the second it is signed in, without an id of its own: here it is *)
(* that second, and two sign-ins within one second get the same token (the *)
(* code's differ if the row changed between).  Passwords are numbered in   *)
(* the order they are set.                                                 *)
(***************************************************************************)
EXTENDS Naturals

CONSTANTS
    Callers,        \* slots for concurrent handlers
    ResetLinks,     \* links that may be mailed
    MaxSeconds,     \* bound on the seconds in which tokens are signed
    MaxPasswords,   \* bound on the passwords set
    SessionDeaths   \* bound on the handlers that die half-way

ASSUME SessionAssumption == SessionDeaths \in Nat /\ {MaxSeconds, MaxPasswords} \subseteq Nat \ {0}

VARIABLES
    standing,    \* the account: its status, and whether it was deleted
    password,    \* the current one
    refreshKey,  \* the stored refresh token, 0 when there is none
    second,      \* the clock, as far as `iat` tells it
    signed,      \* refresh tokens signed so far
    twins,       \* those that more than one sign-in signed
    out,         \* those that were stored, and answered to somebody
    ended,       \* those that were out when a call that ends sessions succeeded
    access,      \* an access token not yet expired is in somebody's hands
    resetLink,   \* per link "unsent", "live" or "spent"
    caller,      \* handlers in progress
    callersLost

tokenVars == <<second, signed, twins, out, ended>>
sessionVars == <<standing, password, refreshKey, tokenVars, access, resetLink, caller, callersLost>>

NoCaller == [pc |-> "idle", link |-> "none", token |-> 0]

CallerAt(h, pc) == caller[h].pc = pc
CallerGoto(h, pc) == caller' = [caller EXCEPT ![h].pc = pc]
Answered(h) == caller' = [caller EXCEPT ![h] = NoCaller]
Begin(h, pc) == caller[h] = NoCaller /\ CallerGoto(h, pc)

Allowed == standing.status \notin {"suspended", "banned"}

\* JwtStrategy.validate, on every guarded route: a token, and the account as
\* it stands now.
Authenticated == access /\ Allowed

-----------------------------------------------------------------------------
\* validateLocalUser compares the password, login looks at the same row.
Login(h) ==
    /\ Allowed /\ ~standing.deleted
    /\ Begin(h, "issue")
    /\ UNCHANGED <<standing, password, refreshKey, tokenVars, access, resetLink, callersLost>>

\* loginOAuthUser does not ask for the account's standing.
LoginOAuthUser(h) ==
    /\ Begin(h, "issue")
    /\ UNCHANGED <<standing, password, refreshKey, tokenVars, access, resetLink, callersLost>>

\* issueTokens signs the token of this second, ...
IssueTokens(h) ==
    /\ CallerAt(h, "issue")
    /\ signed' = signed \cup {second}
    /\ twins' = twins \cup (signed \cap {second})
    /\ caller' = [caller EXCEPT ![h].pc = "store", ![h].token = second]
    /\ UNCHANGED <<standing, password, refreshKey, second, out, ended, access, resetLink, callersLost>>

\* ... and stores its hash: the one refresh token there was is forgotten.
StoreRefreshToken(h) ==
    /\ CallerAt(h, "store")
    /\ refreshKey' = caller[h].token
    /\ out' = out \cup {caller[h].token}
    /\ access' = TRUE
    /\ Answered(h)
    /\ UNCHANGED <<standing, password, second, signed, twins, ended, resetLink, callersLost>>

\* refresh: the stored token is compared, the user fetched, whatever its
\* standing, and a new access token signed.
Refresh(h) ==
    /\ refreshKey # 0
    /\ Begin(h, "sign")
    /\ UNCHANGED <<standing, password, refreshKey, tokenVars, access, resetLink, callersLost>>

SignAccessToken(h) ==
    /\ CallerAt(h, "sign")
    /\ access' = TRUE
    /\ Answered(h)
    /\ UNCHANGED <<standing, password, refreshKey, tokenVars, resetLink, callersLost>>

Logout(h) ==
    /\ Authenticated
    /\ Begin(h, "end")
    /\ UNCHANGED <<standing, password, refreshKey, tokenVars, access, resetLink, callersLost>>

-----------------------------------------------------------------------------
\* forgotPassword stores a token of its own for each request; the address of
\* a deleted account finds nobody.
ForgotPassword(l) ==
    /\ resetLink[l] = "unsent"
    /\ ~standing.deleted
    /\ resetLink' = [resetLink EXCEPT ![l] = "live"]
    /\ UNCHANGED <<standing, password, refreshKey, tokenVars, access, caller, callersLost>>

ResetLinkExpires(l) ==
    /\ resetLink[l] = "live"
    /\ resetLink' = [resetLink EXCEPT ![l] = "spent"]
    /\ UNCHANGED <<standing, password, refreshKey, tokenVars, access, caller, callersLost>>

\* resetPassword: the token is read, the password written, the token
\* deleted and only then the session ended.
ResetPassword(h, l) ==
    /\ resetLink[l] = "live"
    /\ caller[h] = NoCaller
    /\ caller' = [caller EXCEPT ![h] = [NoCaller EXCEPT !.pc = "write", !.link = l]]
    /\ UNCHANGED <<standing, password, refreshKey, tokenVars, access, resetLink, callersLost>>

SpendResetLink(h) ==
    /\ CallerAt(h, "spend")
    /\ resetLink' = [resetLink EXCEPT ![caller[h].link] = "spent"]
    /\ CallerGoto(h, "end")
    /\ UNCHANGED <<standing, password, refreshKey, tokenVars, access, callersLost>>

\* changePassword: the current password is compared; the session stays.
ChangePassword(h) ==
    /\ Authenticated
    /\ Begin(h, "write")
    /\ UNCHANGED <<standing, password, refreshKey, tokenVars, access, resetLink, callersLost>>

UpdatePassword(h) ==
    /\ CallerAt(h, "write")
    /\ password < MaxPasswords
    /\ password' = password + 1
    /\ IF caller[h].link \in ResetLinks THEN CallerGoto(h, "spend") ELSE Answered(h)
    /\ UNCHANGED <<standing, refreshKey, tokenVars, access, resetLink, callersLost>>

\* AdminService.resetUserPassword: one transaction, sessions left alone.
ResetUserPassword ==
    /\ password < MaxPasswords
    /\ password' = password + 1
    /\ UNCHANGED <<standing, refreshKey, tokenVars, access, resetLink, caller, callersLost>>

-----------------------------------------------------------------------------
\* deleteAccount: the password compared, the row closed, the session ended.
DeleteOwnAccount(h) ==
    /\ Authenticated
    /\ Begin(h, "close")
    /\ UNCHANGED <<standing, password, refreshKey, tokenVars, access, resetLink, callersLost>>

CloseAccount(h) ==
    /\ CallerAt(h, "close")
    /\ standing' = [status |-> "banned", deleted |-> TRUE]
    /\ CallerGoto(h, "end")
    /\ UNCHANGED <<password, refreshKey, tokenVars, access, resetLink, callersLost>>

\* (mutant: logout, reset and deletion clear the cookies and leave Redis be)
KeepRefreshToken(h) ==
    /\ CallerAt(h, "end")
    /\ ended' = ended \cup out
    /\ Answered(h)
    /\ UNCHANGED <<standing, password, refreshKey, second, signed, twins, out, access, resetLink, callersLost>>

\* deleteRefreshToken, the last step of logout, resetPassword and deleteAccount.
DeleteRefreshToken(h) ==
    /\ CallerAt(h, "end")
    /\ refreshKey' = 0
    /\ ended' = ended \cup out
    /\ Answered(h)
    /\ UNCHANGED <<standing, password, second, signed, twins, out, access, resetLink, callersLost>>

\* AdminService.updateUserStatus, of deleted accounts too.
SetStanding(s) ==
    /\ standing.status # s
    /\ standing' = [standing EXCEPT !.status = s]
    /\ UNCHANGED <<password, refreshKey, tokenVars, access, resetLink, caller, callersLost>>

\* A second passes; fifteen minutes; thirty days.
SecondPasses == second < MaxSeconds /\ second' = second + 1
    /\ UNCHANGED <<standing, password, refreshKey, signed, twins, out, ended, access, resetLink, caller, callersLost>>
AccessExpires == access /\ access' = FALSE
    /\ UNCHANGED <<standing, password, refreshKey, tokenVars, resetLink, caller, callersLost>>
RefreshExpires == refreshKey # 0 /\ refreshKey' = 0
    /\ UNCHANGED <<standing, password, tokenVars, access, resetLink, caller, callersLost>>

CallerDies(h) ==
    /\ caller[h] # NoCaller
    /\ callersLost < SessionDeaths
    /\ callersLost' = callersLost + 1
    /\ Answered(h)
    /\ UNCHANGED <<standing, password, refreshKey, tokenVars, access, resetLink>>

-----------------------------------------------------------------------------
SessionInit ==
    /\ standing = [status |-> "active", deleted |-> FALSE]
    /\ password = 1
    /\ refreshKey = 0
    /\ second = 1
    /\ signed = {} /\ twins = {} /\ out = {} /\ ended = {}
    /\ access = FALSE
    /\ resetLink = [l \in ResetLinks |-> "unsent"]
    /\ caller = [h \in Callers |-> NoCaller]
    /\ callersLost = 0

SessionNext ==
    \/ \E h \in Callers :
           \/ Login(h) \/ LoginOAuthUser(h) \/ IssueTokens(h) \/ StoreRefreshToken(h)
           \/ Refresh(h) \/ SignAccessToken(h) \/ Logout(h) \/ ChangePassword(h) \/ UpdatePassword(h) \/ SpendResetLink(h)
           \/ DeleteOwnAccount(h) \/ CloseAccount(h) \/ DeleteRefreshToken(h) \/ CallerDies(h)
           \/ \E l \in ResetLinks : ResetPassword(h, l)
    \/ \E l \in ResetLinks : ForgotPassword(l) \/ ResetLinkExpires(l)
    \/ \E s \in {"active", "suspended", "banned"} : SetStanding(s)
    \/ ResetUserPassword \/ SecondPasses \/ AccessExpires \/ RefreshExpires

SessionSpec == SessionInit /\ [][SessionNext]_sessionVars

-----------------------------------------------------------------------------
SessionTypeOK ==
    /\ standing \in [status : {"active", "suspended", "banned"}, deleted : BOOLEAN]
    /\ password \in 1..MaxPasswords
    /\ second \in 1..MaxSeconds /\ refreshKey \in {0} \cup out
    /\ ended \subseteq out /\ out \subseteq signed /\ twins \subseteq signed /\ signed \subseteq 1..second
    /\ access \in BOOLEAN
    /\ resetLink \in [ResetLinks -> {"unsent", "live", "spent"}]
    /\ callersLost \in 0..SessionDeaths

\* A refresh token that was out when a logout, a reset or a deletion
\* succeeded never works again, whatever was half-way at the time ("so a
\* stolen refresh token from before the reset stops working",
\* auth.service.ts lines 355 and 356), except that two sign-ins of one second
\* hold the same token, and the later one may store it again.
EndedStaysEnded == refreshKey \in ended => refreshKey \in twins
=============================================================================
