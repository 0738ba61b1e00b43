------------------------------ MODULE MCParts ------------------------------
(***************************************************************************)
(* The parts of the system that share no state, checked side by side: a    *)
(* behaviour is one of `part`, chosen at the start, and the others rest.   *)
(*                                                                         *)
(* The parts also share their model values.  A part gives each of its      *)
(* kinds of actor and row a set of its own, so exchanging two values of    *)
(* one set is a symmetry of every part at once, and the group stays small. *)
(***************************************************************************)
EXTENDS Bookings, Otp, Throttling, Media, Reminders, Accounts, Sessions, Directory, Catalog, Consent, Support, TLC

CONSTANTS x1, x2, x3, y1, y2, z1, z2, yearly, daily

VARIABLE part

partsVars == <<bookingVars, otpVars, throttleVars, mediaVars, reminderVars, accountVars, sessionVars,
               directoryVars, catalogVars, consentVars, supportVars, part>>

\* A year that ends on the seventh day and is announced three days and one
\* day before, and a day pass, which is not announced.
RemindThreeOne == yearly :> {3, 1} @@ daily :> {}
EndsOnSeven    == yearly :> 7 @@ daily :> 2
\* Two names that make one slug, and one of its own.
SlugOf         == "DJ" :> "dj" @@ "dj!" :> "dj" @@ "Band" :> "band"

Init ==
    /\ part \in {"bookings", "otp", "throttling", "media", "reminders", "accounts", "sessions", "directory", "catalog",
                 "consent", "support"}
    /\ BookingInit /\ OtpInit /\ ThrottleInit /\ MediaInit /\ ReminderInit /\ AccountInit /\ SessionInit
    /\ DirectoryInit /\ CatalogInit /\ ConsentInit /\ SupportInit
    /\ part # "reminders" => cronMode = "in-process"
    /\ part # "consent" => consents = <<>>

Next ==
    \/ /\ part = "bookings" /\ (BookingStep \/ Complete)
       /\ UNCHANGED <<otpVars, throttleVars, mediaVars, reminderVars, accountVars, sessionVars,
                      directoryVars, catalogVars, consentVars, supportVars, part>>
    \/ /\ part = "otp" /\ OtpNext
       /\ UNCHANGED <<bookingVars, throttleVars, mediaVars, reminderVars, accountVars, sessionVars,
                      directoryVars, catalogVars, consentVars, supportVars, part>>
    \/ /\ part = "throttling" /\ ThrottleNext
       /\ UNCHANGED <<bookingVars, otpVars, mediaVars, reminderVars, accountVars, sessionVars,
                      directoryVars, catalogVars, consentVars, supportVars, part>>
    \/ /\ part = "media" /\ MediaNext
       /\ UNCHANGED <<bookingVars, otpVars, throttleVars, reminderVars, accountVars, sessionVars,
                      directoryVars, catalogVars, consentVars, supportVars, part>>
    \/ /\ part = "reminders" /\ ReminderNext
       /\ UNCHANGED <<bookingVars, otpVars, throttleVars, mediaVars, accountVars, sessionVars,
                      directoryVars, catalogVars, consentVars, supportVars, part>>
    \/ /\ part = "accounts" /\ AccountNext
       /\ UNCHANGED <<bookingVars, otpVars, throttleVars, mediaVars, reminderVars, sessionVars,
                      directoryVars, catalogVars, consentVars, supportVars, part>>
    \/ /\ part = "sessions" /\ SessionNext
       /\ UNCHANGED <<bookingVars, otpVars, throttleVars, mediaVars, reminderVars, accountVars,
                      directoryVars, catalogVars, consentVars, supportVars, part>>
    \/ /\ part = "directory" /\ DirectoryNext
       /\ UNCHANGED <<bookingVars, otpVars, throttleVars, mediaVars, reminderVars, accountVars,
                      sessionVars, catalogVars, consentVars, supportVars, part>>
    \/ /\ part = "catalog" /\ CatalogNext
       /\ UNCHANGED <<bookingVars, otpVars, throttleVars, mediaVars, reminderVars, accountVars,
                      sessionVars, directoryVars, consentVars, supportVars, part>>
    \/ /\ part = "consent" /\ ConsentNext
       /\ UNCHANGED <<bookingVars, otpVars, throttleVars, mediaVars, reminderVars, accountVars,
                      sessionVars, directoryVars, catalogVars, supportVars, part>>
    \/ /\ part = "support" /\ SupportNext
       /\ UNCHANGED <<bookingVars, otpVars, throttleVars, mediaVars, reminderVars, accountVars,
                      sessionVars, directoryVars, catalogVars, consentVars, part>>

Spec == Init /\ [][Next]_partsVars

\* The type invariants of the parts.
PartsTypeOK ==
    /\ part = "bookings" => BookingTypeOK
    /\ part = "otp" => OtpTypeOK
    /\ part = "throttling" => ThrottleTypeOK
    /\ part = "media" => MediaTypeOK
    /\ part = "reminders" => ReminderTypeOK
    /\ part = "accounts" => AccountTypeOK
    /\ part = "sessions" => SessionTypeOK
    /\ part = "directory" => DirectoryTypeOK
    /\ part = "catalog" => CatalogTypeOK
    /\ part = "consent" => ConsentTypeOK
    /\ part = "support" => SupportTypeOK

Symmetry == Permutations({x1, x2, x3}) \cup Permutations({y1, y2}) \cup Permutations({z1, z2})
=============================================================================
