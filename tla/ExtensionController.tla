------------------------ MODULE ExtensionController ------------------------
(***************************************************************************)
(* services/extension-controller: a loop that makes the extensions table   *)
(* agree with the manifests of a git checkout, and a REST API that enables *)
(* and disables extensions in the same table.  Both read a row, change it  *)
(* and write all of it back; only the loop publishes events.               *)
(*                                                                         *)
(* Each statement on the table, each scan of the checkout and each publish *)
(* is one action, so the API's statements can come between a statement of  *)
(* the loop and the event that tells of it.  A row holds what the code     *)
(* distinguishes: version stands for version and digest, tier for trust    *)
(* tier; the type and path of a row never change after its creation.       *)
(***************************************************************************)
EXTENDS Naturals, FiniteSets

CONSTANTS
  Extensions,       \* directory names, equal to metadata.name
  Manifests,        \* [version, tier, enabled]: valid manifests
  NoManifest,       \* no manifest, or one that does not parse or is not valid
  NoRow,
  MaxGitChanges, MaxApiCalls, MaxStoreFaults, MaxLostEvents  \* bounds

ExtStatuses == {"active", "disabled", "removing"}
ExtRow == [version : {m.version : m \in Manifests}, tier : {m.tier : m \in Manifests},
           status : ExtStatuses]

ASSUME ExtensionAssumption ==
  /\ IsFiniteSet(Extensions) /\ NoRow \notin ExtRow
  /\ \A m \in Manifests : m.enabled \in BOOLEAN
  /\ NoManifest \notin Manifests
  /\ MaxGitChanges \in Nat /\ MaxApiCalls \in Nat
  /\ MaxStoreFaults \in Nat /\ MaxLostEvents \in Nat

VARIABLES
  manifest,    \* the checkout: [Extensions -> manifest]
  rows,        \* the extensions table
  reconciler,  \* reconcile: [pc, desired, existing, todo, current, said]
  apiCall,     \* setStatus: the row it has read and changed
  lastEvent,   \* what the last event of an extension said: a status, or "none"
  silent,      \* rows the API has written, or whose event was lost, since the loop's
               \* last statement on them that is followed by an event
  extFaults    \* changes, calls and faults so far

extVars == <<manifest, rows, reconciler, apiCall, lastEvent, silent, extFaults>>

Declared(m) == m \in Manifests
StatusOf(m) == IF m.enabled THEN "active" ELSE "disabled"

Nothing == [e \in Extensions |-> NoRow]
IdleReconciler ==
  [pc |-> "idle", desired |-> [e \in Extensions |-> NoManifest],
   existing |-> Nothing,
   todo |-> {}, current |-> NoRow, said |-> "none"]
NoCall == [ext |-> NoRow, row |-> NoRow]

Count(kind, max) ==
  extFaults[kind] < max /\ extFaults' = [extFaults EXCEPT ![kind] = @ + 1]

ExtInit ==
  /\ manifest \in [Extensions -> Manifests \cup {NoManifest}]
  /\ rows = Nothing
  /\ reconciler = IdleReconciler /\ apiCall = NoCall
  /\ lastEvent = [e \in Extensions |-> "none"] /\ silent = {}
  /\ extFaults = [git |-> 0, api |-> 0, store |-> 0, event |-> 0]

\* git-sync brings another state of one manifest.
ChangeManifest(e, m) ==
  /\ m # manifest[e] /\ Count("git", MaxGitChanges)
  /\ manifest' = [manifest EXCEPT ![e] = m]
  /\ UNCHANGED <<rows, reconciler, apiCall, lastEvent, silent>>

-----------------------------------------------------------------------------
(* One round of the loop.                                                    *)

\* scanExtensions.  A directory whose manifest is missing, does not parse or is
\* not valid is skipped, like one that is not there.
ScanExtensions ==
  /\ reconciler.pc = "idle"
  /\ reconciler' = [IdleReconciler EXCEPT !.pc = "list", !.desired = manifest]
  /\ UNCHANGED <<manifest, rows, apiCall, lastEvent, silent, extFaults>>

\* The directory is not there when the scan comes: nothing is desired.
ScanFindsNothing ==
  /\ reconciler.pc = "idle" /\ Count("git", MaxGitChanges)
  /\ reconciler' = [IdleReconciler EXCEPT !.pc = "list"]
  /\ UNCHANGED <<manifest, rows, apiCall, lastEvent, silent>>

ListExtensions ==
  /\ reconciler.pc = "list"
  /\ reconciler' = [reconciler EXCEPT !.pc = "apply", !.existing = rows, !.todo =
       {e \in Extensions : rows[e] # NoRow \/ Declared(reconciler.desired[e])}]
  /\ UNCHANGED <<manifest, rows, apiCall, lastEvent, silent, extFaults>>

\* List fails: the round ends.
ListExtensionsFails ==
  /\ reconciler.pc = "list" /\ Count("store", MaxStoreFaults)
  /\ reconciler' = IdleReconciler
  /\ UNCHANGED <<manifest, rows, apiCall, lastEvent, silent>>

Processed(e) == reconciler' = [reconciler EXCEPT !.todo = @ \ {e}]

\* The statement on the row of e succeeded: its event comes next.
Announce(e, said) ==
  /\ reconciler' = [reconciler EXCEPT !.pc = "publish", !.todo = @ \ {e}, !.current = e,
                                      !.said = said]
  /\ silent' = silent \ {e}
  /\ UNCHANGED <<manifest, apiCall, lastEvent, extFaults>>

\* publish: an error is logged; the connection may be lost.
PublishEvent ==
  LET e == reconciler.current
  IN  /\ reconciler.pc = "publish"
      /\ reconciler' = [reconciler EXCEPT !.pc = "apply", !.current = NoRow, !.said = "none"]
      /\ \/ /\ lastEvent' = [lastEvent EXCEPT ![e] = reconciler.said]
            /\ UNCHANGED <<silent, extFaults>>
         \/ /\ Count("event", MaxLostEvents)
            /\ silent' = silent \cup {e} /\ UNCHANGED lastEvent
      /\ UNCHANGED <<manifest, rows, apiCall>>

\* Desired extensions come first, those to remove after them; a map: any order.
Turn(e) ==
  /\ reconciler.pc = "apply" /\ e \in reconciler.todo
  /\ ~Declared(reconciler.desired[e]) =>
       \A o \in reconciler.todo : ~Declared(reconciler.desired[o])

RowFor(m) == [version |-> m.version, tier |-> m.tier, status |-> StatusOf(m)]

\* Mutant of InstallExtension: the event always says active.
InstallExtensionMutant(e) ==
  LET m == reconciler.desired[e]
  IN  /\ Turn(e) /\ Declared(m) /\ reconciler.existing[e] = NoRow
      /\ rows' = [rows EXCEPT ![e] = RowFor(m)] /\ Announce(e, "active")

\* installExtension: ext.installed carries the status, also disabled.
InstallExtension(e) ==
  LET m == reconciler.desired[e]
  IN  /\ Turn(e) /\ Declared(m) /\ reconciler.existing[e] = NoRow
      /\ rows' = [rows EXCEPT ![e] = RowFor(m)] /\ Announce(e, StatusOf(m))

\* Only version, digest and status are compared.
Differs(row, m) == row.version # m.version \/ row.status # StatusOf(m)

\* reconcileExtension, updateExtension: the row that was listed decides, and the
\* whole row is written over what is there now.
ReconcileExtension(e) ==
  LET m == reconciler.desired[e]
      old == reconciler.existing[e]
  IN  /\ Turn(e) /\ Declared(m) /\ old # NoRow
      /\ IF Differs(old, m)
         THEN rows' = [rows EXCEPT ![e] = RowFor(m)] /\ Announce(e, StatusOf(m))
         ELSE /\ Processed(e)
              /\ UNCHANGED <<manifest, rows, apiCall, lastEvent, silent, extFaults>>

\* Create or Update fails: logged, and tried again in the next round.
StoreFails(e) ==
  /\ Turn(e) /\ Declared(reconciler.desired[e]) /\ Count("store", MaxStoreFaults)
  /\ Processed(e)
  /\ UNCHANGED <<manifest, rows, apiCall, lastEvent, silent>>

\* removeExtension: the status first, whether or not that succeeds.
MarkRemoving(e) ==
  /\ Turn(e) /\ ~Declared(reconciler.desired[e])
  /\ reconciler' = [reconciler EXCEPT !.pc = "delete", !.todo = @ \ {e}, !.current = e]
  /\ \/ /\ rows' = [rows EXCEPT ![e] = [reconciler.existing[e] EXCEPT !.status = "removing"]]
        /\ UNCHANGED extFaults
     \/ Count("store", MaxStoreFaults) /\ UNCHANGED rows
  /\ UNCHANGED <<manifest, apiCall, lastEvent, silent>>

\* The row's tool descriptors go with it; ext.disabled will carry the status removing.
DeleteExtension(e) ==
  /\ reconciler.pc = "delete" /\ e = reconciler.current
  /\ \/ rows' = [rows EXCEPT ![e] = NoRow] /\ Announce(e, "removing")
     \/ /\ Count("store", MaxStoreFaults)
        /\ reconciler' = [reconciler EXCEPT !.pc = "apply", !.current = NoRow]
        /\ UNCHANGED <<manifest, rows, apiCall, lastEvent, silent>>

EndRound ==
  /\ reconciler.pc = "apply" /\ reconciler.todo = {}
  /\ reconciler' = IdleReconciler
  /\ UNCHANGED <<manifest, rows, apiCall, lastEvent, silent, extFaults>>

-----------------------------------------------------------------------------
(* POST /v1/extensions/{id}/enable and /disable: setStatus.                  *)

ApiGet(e, status) ==
  /\ apiCall = NoCall /\ rows[e] # NoRow /\ Count("api", MaxApiCalls)
  /\ apiCall' = [ext |-> e, row |-> [rows[e] EXCEPT !.status = status]]
  /\ UNCHANGED <<manifest, rows, reconciler, lastEvent, silent>>

\* The UPDATE of a row that was deleted meanwhile matches nothing and errs.
ApiUpdate ==
  LET e == apiCall.ext
  IN  /\ apiCall # NoCall
      /\ IF rows[e] # NoRow
         THEN rows' = [rows EXCEPT ![e] = apiCall.row] /\ silent' = silent \cup {e}
         ELSE UNCHANGED <<rows, silent>>
      /\ apiCall' = NoCall
      /\ UNCHANGED <<manifest, reconciler, lastEvent, extFaults>>

Reconcile ==
  \/ ScanExtensions \/ ListExtensions \/ PublishEvent \/ EndRound
  \/ \E e \in Extensions :
       InstallExtension(e) \/ ReconcileExtension(e) \/ MarkRemoving(e) \/ DeleteExtension(e)

ExtNext ==
  \/ \E e \in Extensions, m \in Manifests \cup {NoManifest} : ChangeManifest(e, m)
  \/ Reconcile \/ ScanFindsNothing \/ ListExtensionsFails
  \/ \E e \in Extensions : StoreFails(e)
  \/ \E e \in Extensions, status \in {"active", "disabled"} : ApiGet(e, status)
  \/ ApiUpdate

ExtSpec == ExtInit /\ [][ExtNext]_extVars

-----------------------------------------------------------------------------
(* Properties.                                                               *)

ExtTypeOK ==
  /\ manifest \in [Extensions -> Manifests \cup {NoManifest}]
  /\ rows \in [Extensions -> ExtRow \cup {NoRow}]
  /\ reconciler \in [pc : {"idle", "list", "apply", "publish", "delete"},
                     desired : [Extensions -> Manifests \cup {NoManifest}],
                     existing : [Extensions -> ExtRow \cup {NoRow}],
                     todo : SUBSET Extensions, current : Extensions \cup {NoRow},
                     said : ExtStatuses \cup {"none"}]
  /\ apiCall = NoCall \/ apiCall \in [ext : Extensions, row : ExtRow]
  /\ lastEvent \in [Extensions -> ExtStatuses \cup {"none"}]
  /\ silent \subseteq Extensions

\* Once the checkout and the API are at rest, every row agrees with its manifest
\* for good, whatever a stale write of the whole row did before
\* (reconciler.go:64-103, api.go:156-174).
RowsConverge ==
  <>[](\A e \in Extensions :
         IF Declared(manifest[e])
         THEN /\ rows[e] # NoRow
              /\ rows[e].version = manifest[e].version
              /\ rows[e].status = StatusOf(manifest[e])
         ELSE rows[e] = NoRow)

\* The loop has changed the row of e and is about to publish the event.
Announced(e) == reconciler.pc = "publish" /\ reconciler.current = e

\* Once the loop has published what it has written, those who follow the events know the
\* status of every row, with two causes for an exception: the event of the loop's last
\* statement was lost (reconciler.go:227-239), or the API has written the row since that
\* statement, also before its event came out (reconciler.go:198-208, api.go:157-169): the API
\* publishes nothing, and a row it has already put right gives the loop no reason to
\* (reconciler.go:185-187).
EventsExplained ==
  \A e \in Extensions \ silent :
    ~Announced(e) =>
      IF rows[e] = NoRow THEN lastEvent[e] \in {"none", "removing"}
                         ELSE rows[e].status \in {lastEvent[e], "removing"}

=============================================================================
