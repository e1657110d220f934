---------------------------- MODULE CertificatePage ----------------------------
(***************************************************************************)
(* The managed certificates on the settings page                           *)
(* (src/web/src/routes/SettingsPage.tsx): the list, the choice of a        *)
(* certificate and of the TLS inbounds it is to be applied to, and the     *)
(* dialog between the click and the request.  The lists are fetched anew   *)
(* under the dialog, and what the request carries is read when the dialog  *)
(* is confirmed, not when it was opened.                                   *)
(***************************************************************************)
EXTENDS Integers, FiniteSets, FiniteSetsExt

CONSTANTS
    TlsInbounds,    \* the inbounds with TLS at first
    MaxCertId,      \* ids are given once, in order
    MaxOthers,      \* imports and deletions of another browser
    MaxConfirms     \* dialogs the page opens

ASSUME CertificatePageBounds == {MaxCertId, MaxOthers, MaxConfirms} \subseteq Nat
\* The page is opened on a store with two certificates.
ASSUME MaxCertIdAssumption == MaxCertId >= 2

VARIABLES
    certs, lastCertId,   \* the table of certificates: its ids, the last one given
    bound,               \* [remaining inbounds -> certificate in use, 0 for none]
    certList,            \* query ['certificates']: [data, flight, answer]
    targets,             \* query ['certificate-inbounds'], of the same form
    workspace,           \* which of the three operations is shown
    selectedCertId, selectedInboundIds, appliedSelectionCertId,
    dialog,              \* what the confirmation on the screen is about
    requested,           \* [mutation -> the request in flight]
    others, confirms

certPageVars == <<certs, lastCertId, bound, certList, targets, workspace, selectedCertId,
                  selectedInboundIds, appliedSelectionCertId, dialog, requested, others, confirms>>
serverVars == <<certs, lastCertId, bound>>
choiceVars == <<selectedCertId, selectedInboundIds, appliedSelectionCertId>>
boundVars == <<others, confirms>>

\* data, answer: sets of one answer at most; flight: "idle", "sent", "served".
NoCertAnswer == [data |-> {}, flight |-> "idle", answer |-> {}]
NoDialog == [kind |-> "none", cert |-> 0, ids |-> {}]
NoCertRequest == [at |-> "idle", cert |-> 0, ids |-> {}]

-----------------------------------------------------------------------------
(* What the page derives *)

ListedCerts == UNION certList.data
ListedInbounds == UNION {DOMAIN b : b \in targets.data}

\* The chosen certificate while it is listed; else the first of the list,
\* which the server orders by descending id.
SelectedOf(chosen, list) ==
    IF chosen \in list THEN chosen ELSE IF list = {} THEN 0 ELSE Max(list)
selectedCertificate == SelectedOf(selectedCertId, ListedCerts)

shouldClearOnChoiceOnly(previous, next, selected) == FALSE
shouldClearInboundSelectionForActualCertificate(previous, next, selected) ==
    selected > 0 /\ previous # next

\* The effect after every rendering: the inbounds were selected for the
\* certificate that was shown then.
SelectionEffect(ids, applied, current) ==
    /\ selectedInboundIds' =
         IF shouldClearInboundSelectionForActualCertificate(applied, current, Cardinality(ids))
         THEN {} ELSE ids
    /\ appliedSelectionCertId' = current

toggleID(ids, id) == IF id \in ids THEN ids \ {id} ELSE ids \cup {id}

certBusy == \E m \in DOMAIN requested : requested[m].at # "idle"

\* Invalidating a query fetches it anew and gives up an answer on its way.
InvalidatedCert(q) == [q EXCEPT !.flight = "sent", !.answer = {}]
RefreshCertificates == certList' = InvalidatedCert(certList) /\ targets' = InvalidatedCert(targets)

-----------------------------------------------------------------------------
(* The page *)

CertPageOpens ==
    /\ workspace = "closed" /\ workspace' = "acme"
    /\ RefreshCertificates
    /\ UNCHANGED <<serverVars, choiceVars, dialog, requested, boundVars>>

ChooseWorkspace(w) ==
    /\ workspace # "closed" /\ workspace # w /\ dialog.kind = "none"
    /\ workspace' = w
    /\ UNCHANGED <<serverVars, certList, targets, choiceVars, dialog, requested, boundVars>>

\* onSelectCertificate
SelectCertificate(id) ==
    /\ id \in ListedCerts /\ dialog.kind = "none"
    /\ selectedCertId' = id
    /\ IF selectedCertificate # id
       THEN SelectionEffect({}, id, id)
       ELSE SelectionEffect(selectedInboundIds, appliedSelectionCertId, id)
    /\ UNCHANGED <<serverVars, certList, targets, workspace, dialog, requested, boundVars>>

ToggleInbound(id) ==
    /\ workspace = "apply" /\ id \in ListedInbounds /\ dialog.kind = "none"
    /\ SelectionEffect(toggleID(selectedInboundIds, id), appliedSelectionCertId, selectedCertificate)
    /\ UNCHANGED <<serverVars, certList, targets, workspace, selectedCertId, dialog, requested, boundVars>>

\* The buttons.  Applying and importing wait for the operations under way, the
\* bin beside a certificate does not.  The dialog remembers nothing; cert and
\* ids are what the user sees in it and behind it.
AskToApply ==
    /\ workspace = "apply" /\ ~certBusy
    /\ selectedCertificate # 0 /\ selectedInboundIds # {}
    /\ dialog' = [kind |-> "apply", cert |-> selectedCertificate, ids |-> selectedInboundIds]
AskToImport ==
    /\ workspace = "import" /\ ~certBusy
    /\ dialog' = [kind |-> "import", cert |-> 0, ids |-> {}]
AskToDelete ==
    \E id \in ListedCerts : dialog' = [kind |-> "delete", cert |-> id, ids |-> {}]
AskCert ==
    /\ dialog.kind = "none" /\ confirms < MaxConfirms
    /\ AskToApply \/ AskToImport \/ AskToDelete
    /\ confirms' = confirms + 1
    /\ UNCHANGED <<serverVars, certList, targets, workspace, choiceVars, requested, others>>

CertDialogCloses ==
    /\ dialog.kind # "none"
    /\ dialog' = NoDialog
    /\ UNCHANGED <<serverVars, certList, targets, workspace, choiceVars, requested, boundVars>>

\* mutate() runs the mutation function of the latest rendering.  (A second
\* deletion while one is in flight is left out.)
CertConfirmed ==
    LET kind == dialog.kind
    IN  /\ kind # "none" /\ requested[kind].at = "idle"
        /\ requested' = [requested EXCEPT ![kind] =
              CASE kind = "apply" -> [at |-> "sent", cert |-> selectedCertificate, ids |-> selectedInboundIds]
                [] kind = "delete" -> [at |-> "sent", cert |-> dialog.cert, ids |-> {}]
                [] kind = "import" -> [at |-> "sent", cert |-> 0, ids |-> {}]]
        /\ dialog' = NoDialog
        /\ UNCHANGED <<serverVars, certList, targets, workspace, choiceVars, boundVars>>

CertMutationLands(m) ==
    /\ requested[m].at \in {"done", "refused"}
    /\ requested' = [requested EXCEPT ![m] = NoCertRequest]
    /\ IF requested[m].at = "done" THEN RefreshCertificates ELSE UNCHANGED <<certList, targets>>
    /\ UNCHANGED <<serverVars, workspace, choiceVars, dialog, boundVars>>

CertListLands ==
    /\ certList.flight = "served"
    /\ certList' = [data |-> certList.answer, flight |-> "idle", answer |-> {}]
    /\ SelectionEffect(selectedInboundIds, appliedSelectionCertId,
                       SelectedOf(selectedCertId, UNION certList.answer))
    /\ UNCHANGED <<serverVars, targets, workspace, selectedCertId, dialog, requested, boundVars>>

\* Inbounds that are no longer listed stay selected.
TargetsLand ==
    /\ targets.flight = "served"
    /\ targets' = [data |-> targets.answer, flight |-> "idle", answer |-> {}]
    /\ UNCHANGED <<serverVars, certList, workspace, choiceVars, dialog, requested, boundVars>>

\* The other buttons and forms of the page refresh the same queries.
SettingsRefresh ==
    /\ workspace # "closed"
    /\ RefreshCertificates
    /\ UNCHANGED <<serverVars, workspace, choiceVars, dialog, requested, boundVars>>

-----------------------------------------------------------------------------
(* The server *)

CertListIsServed ==
    /\ certList.flight = "sent"
    /\ certList' = [certList EXCEPT !.flight = "served", !.answer = {certs}]
    /\ UNCHANGED <<serverVars, targets, workspace, choiceVars, dialog, requested, boundVars>>

TargetsAreServed ==
    /\ targets.flight = "sent"
    /\ targets' = [targets EXCEPT !.flight = "served", !.answer = {bound}]
    /\ UNCHANGED <<serverVars, certList, workspace, choiceVars, dialog, requested, boundVars>>

Settled(m, ok) == requested' = [requested EXCEPT ![m].at = IF ok THEN "done" ELSE "refused"]

\* Service.Apply: all the inbounds in one transaction, or none of them.
ApplyIsServed ==
    LET r == requested["apply"]
        ok == r.cert \in certs /\ r.ids # {} /\ r.ids \subseteq DOMAIN bound
    IN  /\ r.at = "sent"
        /\ Settled("apply", ok)
        /\ bound' = IF ok THEN [i \in DOMAIN bound |-> IF i \in r.ids THEN r.cert ELSE bound[i]]
                    ELSE bound
        /\ UNCHANGED <<certs, lastCertId, certList, targets, workspace, choiceVars, dialog, boundVars>>

InUse(c) == \E i \in DOMAIN bound : bound[i] = c

\* Service.Delete looks whether the certificate is in use, and then deletes it.
DeleteIsChecked ==
    LET r == requested["delete"]
    IN  /\ r.at = "sent"
        /\ requested' = [requested EXCEPT !["delete"].at = IF r.cert \in certs /\ ~InUse(r.cert)
                                                 THEN "checked" ELSE "refused"]
        /\ UNCHANGED <<serverVars, certList, targets, workspace, choiceVars, dialog, boundVars>>
DeleteIsDone ==
    LET c == requested["delete"].cert
    IN  /\ requested["delete"].at = "checked"
        /\ Settled("delete", c \in certs)
        /\ certs' = certs \ {c}
        /\ UNCHANGED <<lastCertId, bound, certList, targets, workspace, choiceVars, dialog, boundVars>>

Imports == lastCertId < MaxCertId /\ lastCertId' = lastCertId + 1 /\ certs' = certs \cup {lastCertId'}

\* Service.Import, of a certificate of a new name; or of a file that is none.
ImportIsServed ==
    /\ requested["import"].at = "sent"
    /\ \/ Imports /\ Settled("import", TRUE)
       \/ Settled("import", FALSE) /\ UNCHANGED <<certs, lastCertId>>
    /\ UNCHANGED <<bound, certList, targets, workspace, choiceVars, dialog, boundVars>>

\* Another browser.
CertChangesElsewhere ==
    /\ workspace # "closed" /\ others < MaxOthers
    /\ others' = others + 1
    /\ \/ Imports /\ UNCHANGED bound
       \/ \E c \in certs : ~InUse(c) /\ certs' = certs \ {c} /\ UNCHANGED <<lastCertId, bound>>
       \/ \E i \in DOMAIN bound :
             bound' = [j \in DOMAIN bound \ {i} |-> bound[j]] /\ UNCHANGED <<certs, lastCertId>>
    /\ UNCHANGED <<certList, targets, workspace, choiceVars, dialog, requested, confirms>>

-----------------------------------------------------------------------------

Mutations == {"apply", "delete", "import"}

CertPageInit ==
    /\ lastCertId = 2 /\ certs = {1, 2}
    /\ bound = [i \in TlsInbounds |-> 0]
    /\ certList = NoCertAnswer /\ targets = NoCertAnswer
    /\ workspace = "closed"
    /\ selectedCertId = 0 /\ selectedInboundIds = {} /\ appliedSelectionCertId = 0
    /\ dialog = NoDialog
    /\ requested = [m \in Mutations |-> NoCertRequest]
    /\ others = 0 /\ confirms = 0

CertPageNext ==
    \/ CertPageOpens \/ \E w \in {"acme", "import", "apply"} : ChooseWorkspace(w)
    \/ \E id \in 1..MaxCertId : SelectCertificate(id)
    \/ \E id \in TlsInbounds : ToggleInbound(id)
    \/ AskCert \/ CertDialogCloses \/ CertConfirmed
    \/ \E m \in Mutations : CertMutationLands(m)
    \/ CertListLands \/ TargetsLand \/ SettingsRefresh
    \/ CertListIsServed \/ TargetsAreServed
    \/ ApplyIsServed \/ DeleteIsChecked \/ DeleteIsDone \/ ImportIsServed
    \/ CertChangesElsewhere

CertPageSpec == CertPageInit /\ [][CertPageNext]_certPageVars

-----------------------------------------------------------------------------
(* Properties *)

\* The queries, the choice and the requests keep to their states.
CertTypeOK ==
    /\ certs \subseteq 1..lastCertId /\ lastCertId \in 0..MaxCertId
    /\ \A i \in DOMAIN bound : bound[i] \in 0..lastCertId
    /\ {certList.flight, targets.flight} \subseteq {"idle", "sent", "served"}
    /\ {selectedCertId, appliedSelectionCertId} \subseteq 0..lastCertId
    /\ selectedInboundIds \subseteq TlsInbounds
    /\ \A m \in Mutations : requested[m].at \in {"idle", "sent", "checked", "done", "refused"}

\* A certificate goes to no inbounds but those, and of no certificate but the
\* one, that the user saw and confirmed: when the list changed under the dialog
\* the request carries no inbound, and the server refuses it.
AppliedAsConfirmed ==
    [][CertConfirmed /\ dialog.kind = "apply" =>
          \/ requested'["apply"].ids = {}
          \/ /\ requested'["apply"].cert = dialog.cert
             /\ requested'["apply"].ids = dialog.ids]_certPageVars

=============================================================================
