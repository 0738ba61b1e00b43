------------------------------ MODULE Accounts ------------------------------
(***************************************************************************)
(* Accounts and their addresses: AuthService.register, the social          *)
(* sign-in, the verification links, the change of address and the deletion *)
(* of an account, with UsersService, the consents and the verification     *)
(* record a sign-up leaves behind.                                         *)
(*                                                                         *)
(* UsersService.create inserts the user, the profile and the interests in  *)
(* one transaction; everything around it is a statement of its own.  The   *)
(* unique indexes on lower(email) and on account_code decide the races.    *)
(* Passwords and sessions are in Sessions.                                 *)
(***************************************************************************)
EXTENDS Integers, FiniteSets

CONSTANTS
    Accounts,       \* rows that may come to exist
    Addresses,      \* mailboxes; the provider knows each person by one
    Kinds,          \* answers given at registration, see AccountCodePrefix
    SignUps,        \* slots for registrations and social sign-ins
    Clicks,         \* slots for verifyEmail
    LinkIds,        \* verification links that may be mailed
    AccountDeaths,  \* bound on the handlers that die half-way
    NoAccount, NoAddress

ASSUME AccountAssumption ==
    /\ AccountDeaths \in Nat /\ NoAccount \notin Accounts /\ NoAddress \notin Addresses
    /\ Kinds \subseteq {"individual", "company", "venue"}

VARIABLES
    account,     \* the row of each, [made |-> FALSE, ...] before its insert
    social,      \* per address, the account its provider identity is linked to
    consented,   \* accounts with the mandatory consents on record
    opened,      \* accounts with a verification record, and what it copied
    link,        \* [user, to, live] of each verification link
    signUp, click, change,   \* handlers in progress
    cutShort     \* accounts whose sign-up died half-way

accountVars == <<account, social, consented, opened, link, signUp, click, change, cutShort>>

NoRow == [made |-> FALSE, email |-> NoAddress, pending |-> NoAddress, verified |-> FALSE,
          deleted |-> FALSE, prefix |-> "none", number |-> 0]
NoLink == [user |-> NoAccount, to |-> NoAddress, live |-> FALSE]
NoSignUp == [pc |-> "idle", social |-> FALSE, email |-> NoAddress, prefix |-> "none", number |-> 0,
             user |-> NoAccount]
NoClick == [pc |-> "idle", link |-> "none", user |-> NoAccount, to |-> NoAddress]
NoChange == [pc |-> "idle", user |-> NoAccount, to |-> NoAddress]

\* A deleted account keeps its row under an address nobody has.
Made == {u \in Accounts : account[u].made}
ByEmail(a) == {u \in Made : account[u].email = a}
Fresh == {l \in LinkIds : link[l] = NoLink}

\* accountCodePrefix, over the answers of an individual, a company and a venue.
AccountCodePrefix(kind) ==
    CASE kind = "individual" -> "PLN" [] kind = "company" -> "CMP" [] kind = "venue" -> "VEN"

-----------------------------------------------------------------------------
\* POST /auth/register, and the provider's callback: an identity already
\* linked is simply signed in; an address already taken is linked to when it
\* has been verified, refused otherwise.
Register(s, a, kind) ==
    /\ signUp[s] = NoSignUp
    /\ signUp' = [signUp EXCEPT ![s] = [NoSignUp EXCEPT
           !.pc = "create", !.email = a, !.prefix = AccountCodePrefix(kind)]]
    /\ UNCHANGED <<account, social, consented, opened, link, click, change, cutShort>>

\* (mutant: an address is linked to whether or not it was verified)
LinksAny(u) == account[u].made

\* emailVerifiedAt, as findOrCreateOAuthUser asks it.
MayLink(u) == account[u].verified

SignInSocial(s, a) ==
    /\ signUp[s] = NoSignUp
    /\ social[a] = NoAccount
    /\ \/ /\ ByEmail(a) = {}
          /\ signUp' = [signUp EXCEPT ![s] = [NoSignUp EXCEPT
                 !.pc = "create", !.social = TRUE, !.email = a, !.prefix = AccountCodePrefix("individual")]]
       \/ \E u \in ByEmail(a) :
              /\ MayLink(u)
              /\ signUp' = [signUp EXCEPT ![s] = [NoSignUp EXCEPT
                     !.pc = "link", !.social = TRUE, !.email = a, !.user = u, !.prefix = "found"]]
    /\ UNCHANGED <<account, social, consented, opened, link, click, change, cutShort>>

\* findByEmail once more, and generateAccountCode: the accounts counted.
CountAccounts(s) ==
    /\ signUp[s].pc = "create"
    /\ signUp' = [signUp EXCEPT ![s] =
           IF ByEmail(@.email) # {} THEN NoSignUp
           ELSE [@ EXCEPT !.pc = "insert", !.number = Cardinality(Made) + 1]]
    /\ UNCHANGED <<account, social, consented, opened, link, click, change, cutShort>>

\* The transaction.  Either index refuses it: "taken", or "try again".
InsertAccount(s) ==
    /\ signUp[s].pc = "insert"
    /\ LET new == signUp[s]
           clash == \E u \in Made : \/ account[u].email = new.email
                                    \/ account[u].prefix = new.prefix /\ account[u].number = new.number
       IN  \/ /\ clash
              /\ signUp' = [signUp EXCEPT ![s] = NoSignUp]
              /\ UNCHANGED account
           \/ /\ ~clash
              /\ \E u \in Accounts \ Made :
                     /\ account' = [account EXCEPT ![u] = [NoRow EXCEPT
                            !.made = TRUE, !.email = new.email, !.prefix = new.prefix, !.number = new.number]]
                     /\ signUp' = [signUp EXCEPT ![s] = [@ EXCEPT
                            !.user = u, !.pc = IF new.social THEN "link" ELSE "consent"]]
    /\ UNCHANGED <<social, consented, opened, link, click, change, cutShort>>

\* linkOAuthAccount: a second link of one identity is ignored.
LinkOAuthAccount(s) ==
    /\ signUp[s].pc = "link"
    /\ social' = [social EXCEPT ![signUp[s].email] = IF @ = NoAccount THEN signUp[s].user ELSE @]
    /\ signUp' = [signUp EXCEPT ![s] = IF @.prefix = "found" THEN NoSignUp ELSE [@ EXCEPT !.pc = "consent"]]
    /\ UNCHANGED <<account, consented, opened, link, click, change, cutShort>>

\* ConsentService.record: terms and privacy in one insert.
RecordConsent(s) ==
    /\ signUp[s].pc = "consent"
    /\ consented' = consented \cup {signUp[s].user}
    /\ signUp' = [signUp EXCEPT ![s].pc = "open"]
    /\ UNCHANGED <<account, social, opened, link, click, change, cutShort>>

\* VerificationService.openForSignup: the snapshot of the consents there are.
OpenForSignup(s) ==
    /\ signUp[s].pc = "open"
    /\ opened' = [opened EXCEPT ![signUp[s].user] = IF signUp[s].user \in consented THEN "full" ELSE "empty"]
    /\ signUp' = [signUp EXCEPT ![s].pc = IF signUp[s].social THEN "verify" ELSE "mail"]
    /\ UNCHANGED <<account, social, consented, link, click, change, cutShort>>

\* sendEmailVerification: the token, then the mail with it.
SendLink(u, to) ==
    \E l \in Fresh : link' = [link EXCEPT ![l] = [user |-> u, to |-> to, live |-> TRUE]]

MailSignUp(s) ==
    /\ signUp[s].pc = "mail"
    /\ SendLink(signUp[s].user, signUp[s].email)
    /\ signUp' = [signUp EXCEPT ![s] = NoSignUp]
    /\ UNCHANGED <<account, social, consented, opened, click, change, cutShort>>

VerifySocial(s) ==
    /\ signUp[s].pc = "verify"
    /\ account' = [account EXCEPT ![signUp[s].user].verified = TRUE]
    /\ signUp' = [signUp EXCEPT ![s] = NoSignUp]
    /\ UNCHANGED <<social, consented, opened, link, click, change, cutShort>>

\* resendEmailVerification, for an account neither verified nor deleted.
Resend(u) ==
    /\ u \in Made /\ ~account[u].verified /\ ~account[u].deleted
    /\ SendLink(u, account[u].email)
    /\ UNCHANGED <<account, social, consented, opened, signUp, click, change, cutShort>>

-----------------------------------------------------------------------------
\* verifyEmail: the token, the user, and then one of two writes.
OpenLink(c, l) ==
    /\ click[c] = NoClick
    /\ link[l].live
    /\ LET u == link[l].user
       IN  click' = [click EXCEPT ![c] = [pc |-> IF account[u].pending = NoAddress THEN "mark" ELSE "apply",
                                          link |-> l, user |-> u, to |-> account[u].pending]]
    /\ UNCHANGED <<account, social, consented, opened, link, signUp, change, cutShort>>

\* applyPendingEmail: address, pending address and verification in one update.
ApplyPendingEmail(c) ==
    /\ click[c].pc = "apply"
    /\ LET u == click[c].user
       IN  IF ByEmail(click[c].to) \ {u} # {}
           THEN click' = [click EXCEPT ![c] = NoClick] /\ UNCHANGED account
           ELSE /\ account' = [account EXCEPT ![u] = [@ EXCEPT
                       !.email = click[c].to, !.pending = NoAddress, !.verified = TRUE]]
                /\ click' = [click EXCEPT ![c].pc = "spend"]
    /\ UNCHANGED <<social, consented, opened, link, signUp, change, cutShort>>

MarkEmailVerified(c) ==
    /\ click[c].pc = "mark"
    /\ account' = [account EXCEPT ![click[c].user].verified = TRUE]
    /\ click' = [click EXCEPT ![c].pc = "spend"]
    /\ UNCHANGED <<social, consented, opened, link, signUp, change, cutShort>>

SpendLink(c) ==
    /\ click[c].pc = "spend"
    /\ link' = [link EXCEPT ![click[c].link].live = FALSE]
    /\ click' = [click EXCEPT ![c] = NoClick]
    /\ UNCHANGED <<account, social, consented, opened, signUp, change, cutShort>>

\* A day passes over a token.
LinkExpires(l) ==
    /\ link[l].live
    /\ link' = [link EXCEPT ![l].live = FALSE]
    /\ UNCHANGED <<account, social, consented, opened, signUp, click, change, cutShort>>

-----------------------------------------------------------------------------
\* With the password of a verified address, or through a linked identity; a
\* deleted account is banned.
CanSignIn(u) ==
    /\ account[u].made /\ ~account[u].deleted
    /\ account[u].verified \/ \E a \in Addresses : social[a] = u

\* requestEmailChange: checks, pending address, link to the new address.
RequestEmailChange(u, a) ==
    /\ change = NoChange
    /\ CanSignIn(u)
    /\ ByEmail(a) = {}
    /\ change' = [pc |-> "set", user |-> u, to |-> a]
    /\ UNCHANGED <<account, social, consented, opened, link, signUp, click, cutShort>>

SetPendingEmail ==
    /\ change.pc = "set"
    /\ account' = [account EXCEPT ![change.user].pending = change.to]
    /\ change' = [change EXCEPT !.pc = "mail"]
    /\ UNCHANGED <<social, consented, opened, link, signUp, click, cutShort>>

MailChange ==
    /\ change.pc = "mail"
    /\ SendLink(change.user, change.to)
    /\ change' = NoChange
    /\ UNCHANGED <<account, social, consented, opened, signUp, click, cutShort>>

\* softDeleteAccount: the address goes, the pending one and the social link stay.
DeleteAccount(u) ==
    /\ CanSignIn(u)
    /\ account' = [account EXCEPT ![u] = [@ EXCEPT !.deleted = TRUE, !.email = NoAddress]]
    /\ UNCHANGED <<social, consented, opened, link, signUp, click, change, cutShort>>

\* A handler dies, or one of its statements fails.
SignUpDies(s) ==
    /\ signUp[s].user # NoAccount
    /\ Cardinality(cutShort) < AccountDeaths
    /\ cutShort' = IF signUp[s].prefix = "found" THEN cutShort ELSE cutShort \cup {signUp[s].user}
    /\ signUp' = [signUp EXCEPT ![s] = NoSignUp]
    /\ UNCHANGED <<account, social, consented, opened, link, click, change>>

-----------------------------------------------------------------------------
AccountInit ==
    /\ account = [u \in Accounts |-> NoRow]
    /\ social = [a \in Addresses |-> NoAccount]
    /\ consented = {}
    /\ opened = [u \in Accounts |-> "none"]
    /\ link = [l \in LinkIds |-> NoLink]
    /\ signUp = [s \in SignUps |-> NoSignUp]
    /\ click = [c \in Clicks |-> NoClick]
    /\ change = NoChange
    /\ cutShort = {}

AccountNext ==
    \/ \E s \in SignUps :
           \/ \E a \in Addresses : SignInSocial(s, a) \/ \E k \in Kinds : Register(s, a, k)
           \/ CountAccounts(s) \/ InsertAccount(s) \/ LinkOAuthAccount(s) \/ RecordConsent(s)
           \/ OpenForSignup(s) \/ MailSignUp(s) \/ VerifySocial(s) \/ SignUpDies(s)
    \/ \E u \in Accounts : Resend(u) \/ DeleteAccount(u) \/ \E a \in Addresses : RequestEmailChange(u, a)
    \/ SetPendingEmail \/ MailChange
    \/ \E c \in Clicks : \/ \E l \in LinkIds : OpenLink(c, l)
                         \/ ApplyPendingEmail(c) \/ MarkEmailVerified(c) \/ SpendLink(c)
    \/ \E l \in LinkIds : LinkExpires(l)

AccountSpec == AccountInit /\ [][AccountNext]_accountVars

-----------------------------------------------------------------------------
AccountTypeOK ==
    /\ \A u \in Accounts : /\ account[u].email \in Addresses \cup {NoAddress}
                           /\ account[u].pending \in Addresses \cup {NoAddress}
                           /\ account[u].made <=> account[u].number > 0
    /\ social \in [Addresses -> Accounts \cup {NoAccount}]
    /\ consented \subseteq Accounts
    /\ opened \in [Accounts -> {"none", "empty", "full"}]
    /\ \A l \in LinkIds : link[l].live => link[l].user \in Accounts
    /\ cutShort \subseteq Accounts

\* An account whose sign-up is through has its consents on record and a
\* verification record that copied them, and an identity it is reached by
\* from a provider makes it a verified account; only a sign-up that died
\* half-way leaves less, however registrations, social sign-ins and link
\* clicks for one address interleave (register and findOrCreateOAuthUser).
SignUpWhole ==
    \A u \in Made \ cutShort : (\A s \in SignUps : signUp[s].user # u) =>
        /\ u \in consented
        /\ opened[u] = "full"
        /\ (\E a \in Addresses : social[a] = u) => account[u].verified

\* "CMP-000007 and PLN-000007 can therefore never both exist"
\* (users.service.ts lines 348 to 351).
NumbersDiffer ==
    \A u, v \in Made : u # v => account[u].number # account[v].number
=============================================================================
