-------------------------------- MODULE Otp ---------------------------------
(***************************************************************************)
(* Phone verification: AuthService.sendOtp and verifyOtp over the two      *)
(* Redis keys of one phone number, the code and the count of wrong         *)
(* answers.  Redis runs one command at a time and expires a key when its   *)
(* time to live is over; a handler issues its commands one by one, so two  *)
(* handlers interleave between them and one may die between two.           *)
(*                                                                         *)
(* Codes are numbered in the order they are issued.  What a caller types   *)
(* is right or wrong for the code the handler has read.                    *)
(***************************************************************************)
EXTENDS Integers, FiniteSets

CONSTANTS
    Verifiers,       \* handlers of POST /auth/otp/verify, one account each
    MaxCodes,        \* bound on the codes issued
    OtpLife,         \* ticks in ten minutes
    MaxOtpAttempts,  \* MAX_OTP_ATTEMPTS
    OtpDeaths        \* bound on the handlers that die half-way

ASSUME OtpAssumption ==
    /\ IsFiniteSet(Verifiers) /\ MaxCodes \in Nat /\ OtpDeaths \in Nat
    /\ OtpLife \in Nat \ {0} /\ MaxOtpAttempts \in Nat \ {0, 1}

VARIABLES
    otpCode,       \* [id, ttl] of the stored code; id 0: the key is absent
    otpTries,      \* [n, ttl] of the counter; n = 0: absent; ttl = 0: never expires
    otpDelivered,  \* codes WhatsApp has accepted
    verifier,      \* handlers in progress
    wrongAnswers,  \* per code, the wrong answers it has had
    phoneOf,       \* per account, "none", "written" or "verified"
    otpLost        \* handlers that died

otpVars == <<otpCode, otpTries, otpDelivered, verifier, wrongAnswers, phoneOf, otpLost>>

Codes == 1..MaxCodes
NoCode == [id |-> 0, ttl |-> 0]
NoTries == [n |-> 0, ttl |-> 0]
NoVerifier == [pc |-> "idle", code |-> 0]

At(v, pc) == verifier[v].pc = pc
Goto(v, pc) == verifier' = [verifier EXCEPT ![v].pc = pc]
Return(v) == verifier' = [verifier EXCEPT ![v] = NoVerifier]

Issued == Cardinality({c \in Codes : wrongAnswers[c] # -1})

-----------------------------------------------------------------------------
\* sendOtp: the SET replaces the code and its time to live in one command.
\* The counter is not touched.
SendOtp ==
    /\ Issued < MaxCodes
    /\ otpCode' = [id |-> Issued + 1, ttl |-> OtpLife]
    /\ wrongAnswers' = [wrongAnswers EXCEPT ![Issued + 1] = 0]
    /\ UNCHANGED <<otpTries, otpDelivered, verifier, phoneOf, otpLost>>

\* sendWhatsAppOtp.  A failure to send leaves the stored code in place.
SendWhatsAppOtp ==
    /\ \E c \in 1..Issued : otpDelivered' = otpDelivered \cup {c}
    /\ UNCHANGED <<otpCode, otpTries, verifier, wrongAnswers, phoneOf, otpLost>>

\* verifyOtp reads the code and compares it: the one read both paths rest on.
ReadOtp(v) ==
    /\ At(v, "idle")
    /\ otpCode # NoCode
    /\ \E pc \in {"record"} \cup (IF otpCode.id \in otpDelivered THEN {"phone"} ELSE {}) :
           verifier' = [verifier EXCEPT ![v] = [pc |-> pc, code |-> otpCode.id]]
    /\ UNCHANGED <<otpCode, otpTries, otpDelivered, wrongAnswers, phoneOf, otpLost>>

\* recordOtpFailure, INCR: the count of the number, whichever code it is for.
RecordOtpFailure(v) ==
    /\ At(v, "record")
    /\ otpTries' = [otpTries EXCEPT !.n = @ + 1]
    /\ wrongAnswers' = [wrongAnswers EXCEPT ![verifier[v].code] = @ + 1]
    /\ \/ otpTries'.n = 1 /\ Goto(v, "expire")
       \/ otpTries'.n > 1 /\ otpTries'.n >= MaxOtpAttempts /\ Goto(v, "del")
       \/ otpTries'.n > 1 /\ otpTries'.n < MaxOtpAttempts /\ Return(v)
    /\ UNCHANGED <<otpCode, otpDelivered, phoneOf, otpLost>>

\* recordOtpFailure, EXPIRE: only the first failure starts the clock, and
\* never spends the code.  The command does nothing when the key has gone.
ExpireTries(v) ==
    /\ At(v, "expire")
    /\ otpTries' = IF otpTries.n = 0 THEN otpTries ELSE [otpTries EXCEPT !.ttl = OtpLife]
    /\ Return(v)
    /\ UNCHANGED <<otpCode, otpDelivered, wrongAnswers, phoneOf, otpLost>>

\* The right code: the number goes to the account, then its verification.
UpdatePhone(v) ==
    /\ At(v, "phone")
    /\ phoneOf' = [phoneOf EXCEPT ![v] = IF @ = "verified" THEN @ ELSE "written"]
    /\ Goto(v, "mark")
    /\ UNCHANGED <<otpCode, otpTries, otpDelivered, wrongAnswers, otpLost>>

MarkPhoneVerified(v) ==
    /\ At(v, "mark")
    /\ phoneOf' = [phoneOf EXCEPT ![v] = "verified"]
    /\ Goto(v, "del")
    /\ UNCHANGED <<otpCode, otpTries, otpDelivered, wrongAnswers, otpLost>>

\* (mutant: deleteOtp drops the counter and leaves the code)
DeleteNothing(v) ==
    /\ At(v, "del")
    /\ Goto(v, "delTries")
    /\ UNCHANGED <<otpCode, otpTries, otpDelivered, wrongAnswers, phoneOf, otpLost>>

\* deleteOtp, on either path: the code, whichever it is by now, ...
DeleteOtp(v) ==
    /\ At(v, "del")
    /\ otpCode' = NoCode
    /\ Goto(v, "delTries")
    /\ UNCHANGED <<otpTries, otpDelivered, wrongAnswers, phoneOf, otpLost>>

\* ... then the counter.
DeleteOtpTries(v) ==
    /\ At(v, "delTries")
    /\ otpTries' = NoTries
    /\ Return(v)
    /\ UNCHANGED <<otpCode, otpDelivered, wrongAnswers, phoneOf, otpLost>>

VerifierDies(v) ==
    /\ ~At(v, "idle")
    /\ otpLost < OtpDeaths
    /\ otpLost' = otpLost + 1
    /\ Return(v)
    /\ UNCHANGED <<otpCode, otpTries, otpDelivered, wrongAnswers, phoneOf>>

\* Redis: both keys age together; one whose time is over is gone.
OtpTick ==
    /\ otpCode.ttl > 0 \/ otpTries.ttl > 0
    /\ otpCode' = IF otpCode.ttl > 1 THEN [otpCode EXCEPT !.ttl = @ - 1] ELSE NoCode
    /\ otpTries' = CASE otpTries.ttl = 0 -> otpTries
                     [] otpTries.ttl = 1 -> NoTries
                     [] OTHER -> [otpTries EXCEPT !.ttl = @ - 1]
    /\ UNCHANGED <<otpDelivered, verifier, wrongAnswers, phoneOf, otpLost>>

-----------------------------------------------------------------------------
OtpInit ==
    /\ otpCode = NoCode
    /\ otpTries = NoTries
    /\ otpDelivered = {}
    /\ verifier = [v \in Verifiers |-> NoVerifier]
    /\ wrongAnswers = [c \in Codes |-> -1]
    /\ phoneOf = [v \in Verifiers |-> "none"]
    /\ otpLost = 0

OtpNext ==
    \/ SendOtp \/ SendWhatsAppOtp \/ OtpTick
    \/ \E v \in Verifiers :
           \/ ReadOtp(v) \/ RecordOtpFailure(v) \/ ExpireTries(v)
           \/ UpdatePhone(v) \/ MarkPhoneVerified(v)
           \/ DeleteOtp(v) \/ DeleteOtpTries(v) \/ VerifierDies(v)

OtpSpec == OtpInit /\ [][OtpNext]_otpVars

-----------------------------------------------------------------------------
OtpTypeOK ==
    /\ otpCode \in [id : 0..MaxCodes, ttl : 0..OtpLife]
    /\ otpTries \in [n : Nat, ttl : 0..OtpLife]
    /\ otpDelivered \subseteq Codes
    /\ verifier \in [Verifiers -> [pc : {"idle", "record", "expire", "phone", "mark", "del", "delTries"},
                                   code : 0..MaxCodes]]
    /\ wrongAnswers \in [Codes -> Nat \cup {-1}]
    /\ phoneOf \in [Verifiers -> {"none", "written", "verified"}]
    /\ otpLost \in 0..OtpDeaths

\* No code ever takes more than a bounded number of wrong answers, however
\* the callers interleave ("caps the total guesses", redis.service.ts line
\* 138).  MAX_OTP_ATTEMPTS is not the bound: the counter outlives the code
\* it was started for, so it may expire half-way through the next one's
\* budget, and each handler that is late with its deletions may reset it
\* once more; one that dies leaves a spent code standing for one more.
GuessBudget ==
    \A c \in Codes :
        wrongAnswers[c] <= (Cardinality(Verifiers) + 1) * MaxOtpAttempts - 2 + otpLost
=============================================================================
