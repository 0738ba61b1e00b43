------------------------------ MODULE Consent -------------------------------
(***************************************************************************)
(* What one user has agreed to, and the promotional mail that asks:        *)
(* ConsentService and ConsentController, the unsubscribe link and          *)
(* EmailService.sendMarketingEmail.                                        *)
(*                                                                         *)
(* The table only grows, and the newest row of a document is its standing. *)
(* Nothing in the repository runs a campaign yet: here anybody may.        *)
(***************************************************************************)
EXTENDS Naturals, FiniteSets, Sequences

Seqs == INSTANCE SequencesExt

CONSTANTS
    Mandatory,      \* MANDATORY_DOCUMENTS
    Campaigns,      \* senders of promotional mail at work
    MaxConsents,    \* bound on the rows written
    MaxVersions,    \* bound on the versions of a document
    MaxSecrets      \* bound on the secrets links are signed with

ASSUME ConsentAssumption ==
    /\ "marketing" \notin Mandatory /\ IsFiniteSet(Mandatory) /\ IsFiniteSet(Campaigns)
    /\ MaxConsents \in Nat /\ MaxVersions \in Nat \ {0} /\ MaxSecrets \in Nat \ {0}

VARIABLES
    consents,   \* the user's rows, oldest first
    versions,   \* CONSENT_VERSIONS, as deployed
    secret,     \* the secret in use, by number
    links,      \* secrets that the links in the user's inbox are signed with
    campaign,   \* where each sender is: "idle", "asked"
    agreed,     \* what the user last agreed to: marketing, and the mandatory
                \* documents in their present wording
    unwanted    \* promotional mails sent while no consent stood

consentVars == <<consents, versions, secret, links, campaign, agreed, unwanted>>

Documents == Mandatory \cup {"marketing"}
Consent(document, granted) == [document |-> document, version |-> versions[document], granted |-> granted]

\* (mutant: the rows come oldest first)
OldestOf(document) == {i \in DOMAIN consents : consents[i].document = document
                           /\ \A j \in 1..(i - 1) : consents[j].document # document}

\* latestForUser: the row of a document that stands, if there is one.
LatestOf(document) == {i \in DOMAIN consents : consents[i].document = document
                           /\ \A j \in (i + 1)..Len(consents) : consents[j].document # document}

\* A document nobody accepted, or accepted in an older wording.
OutdatedDocuments ==
    {document \in Mandatory : \A i \in LatestOf(document) : consents[i].version # versions[document]}

\* (mutant: any row will do)
EverGranted(document) == \E i \in DOMAIN consents : consents[i].document = document /\ consents[i].granted

\* Absent means no.
IsGranted(document) == \E i \in LatestOf(document) : consents[i].granted

-----------------------------------------------------------------------------
\* One insert, at the versions that are live.
ConsentRows(documents) == Seqs!SetToSeq({Consent(document, TRUE) : document \in documents})

\* record, by POST /consent/accept: some of the mandatory documents and
\* nothing else (AcceptDocumentsDto).
Accept(documents) ==
    /\ documents # {}
    /\ Len(consents) + Cardinality(documents) <= MaxConsents
    /\ consents' = consents \o ConsentRows(documents)
    /\ agreed' = agreed \cup documents
    /\ UNCHANGED <<versions, secret, links, campaign, unwanted>>

\* setConsent: a row either way, and never of a mandatory document.
SetConsent(document, granted) ==
    /\ document \notin Mandatory
    /\ Len(consents) < MaxConsents
    /\ consents' = Append(consents, Consent(document, granted))

\* PUT /consent/marketing.
SetMarketing(granted) ==
    /\ SetConsent("marketing", granted)
    /\ agreed' = IF granted THEN agreed \cup {"marketing"} ELSE agreed \ {"marketing"}
    /\ unwanted' = IF granted THEN 0 ELSE unwanted
    /\ UNCHANGED <<versions, secret, links, campaign>>

\* POST /consent/unsubscribe with a link of the inbox, which never expires
\* and may be followed again: a link signed with an older secret is answered
\* alike and does nothing.
Unsubscribe(signedWith) ==
    /\ signedWith \in links
    /\ IF signedWith = secret
       THEN SetConsent("marketing", FALSE) /\ agreed' = agreed \ {"marketing"}
       ELSE UNCHANGED <<consents, agreed>>
    /\ UNCHANGED <<versions, secret, links, campaign, unwanted>>

-----------------------------------------------------------------------------
\* sendMarketingEmail: the consent is read when the mail is about to go, ...
AskConsent(sender) ==
    /\ campaign[sender] = "idle"
    /\ IsGranted("marketing")
    /\ campaign' = [campaign EXCEPT ![sender] = "asked"]
    /\ UNCHANGED <<consents, versions, secret, links, agreed, unwanted>>

\* ... and the mail goes, with a link, to whoever withdrew in between too; or
\* the provider drops it.
SendMarketing(sender) ==
    /\ campaign[sender] = "asked"
    /\ campaign' = [campaign EXCEPT ![sender] = "idle"]
    /\ \/ /\ links' = links \cup {secret}
          /\ unwanted' = IF "marketing" \in agreed THEN unwanted ELSE unwanted + 1
       \/ UNCHANGED <<links, unwanted>>
    /\ UNCHANGED <<consents, versions, secret, agreed>>

\* A deployment with a new wording of a document, or with a new secret.
Reword(document) ==
    /\ versions[document] < MaxVersions
    /\ versions' = [versions EXCEPT ![document] = @ + 1]
    /\ agreed' = agreed \ ({document} \cap Mandatory)
    /\ UNCHANGED <<consents, secret, links, campaign, unwanted>>

RotateSecret ==
    /\ secret < MaxSecrets
    /\ secret' = secret + 1
    /\ UNCHANGED <<consents, versions, links, campaign, agreed, unwanted>>

-----------------------------------------------------------------------------
\* An account older than the table has no row; a sign-up accepts what is
\* mandatory, and marketing if its box was ticked.
ConsentInit ==
    /\ versions = [document \in Documents |-> 1]
    /\ \E documents \in {{}, Mandatory, Documents} :
           /\ consents = ConsentRows(documents)
           /\ agreed = documents
    /\ secret = 1
    /\ links = {}
    /\ campaign = [sender \in Campaigns |-> "idle"]
    /\ unwanted = 0

ConsentNext ==
    \/ \E documents \in SUBSET Mandatory : Accept(documents)
    \/ \E granted \in BOOLEAN : SetMarketing(granted)
    \/ \E signedWith \in 1..MaxSecrets : Unsubscribe(signedWith)
    \/ \E sender \in Campaigns : AskConsent(sender) \/ SendMarketing(sender)
    \/ \E document \in Documents : Reword(document)
    \/ RotateSecret

ConsentSpec == ConsentInit /\ [][ConsentNext]_consentVars

-----------------------------------------------------------------------------
ConsentTypeOK ==
    /\ consents \in Seq([document : Documents, version : 1..MaxVersions, granted : BOOLEAN])
    /\ versions \in [Documents -> 1..MaxVersions]
    /\ secret \in 1..MaxSecrets /\ links \subseteq 1..MaxSecrets
    /\ campaign \in [Campaigns -> {"idle", "asked"}]
    /\ agreed \subseteq Documents
    /\ unwanted \in Nat

\* A withdrawal stops the mail: whoever withdrew, or was never asked, is sent
\* no more than the mails that had passed the question, one for each sender
\* at work (sendMarketingEmail, "Consent is re-read at send time").
WithdrawalStops == unwanted <= Cardinality(Campaigns)

\* The prompt asks for exactly the mandatory documents whose present wording
\* was not accepted, whatever was accepted, reworded or withdrawn before.
PromptIsExact == OutdatedDocuments = Mandatory \ agreed

\* Consent is what the user last said of it: the mail follows the newest word
\* on marketing, the prompt the newest wording of the rest.
ConsentStands == WithdrawalStops /\ PromptIsExact
=============================================================================
