------------------------------- MODULE MCEdge -------------------------------
(***************************************************************************)
(* The services at the edge of the platform share nothing but NATS, each   *)
(* through subjects of its own, so a behaviour examines one of them:       *)
(* `service' is chosen at the start, the others stay in a first state.     *)
(***************************************************************************)
EXTENDS WebchatSessions, IdentityMapper, Connectors, DLPScanner, Ulid

CONSTANT EdgeServices

VARIABLE service

MCCategoryOf == <<"ip_address", "secret", "credit_card">>
MCConfidenceOf == <<70, 75, 80>>

\* All bytes alike; all but the last of the largest value; a carry over two bytes.
MCDraws ==
  {[i \in 1..10 |-> 7],
   [i \in 1..10 |-> IF i = 10 THEN 254 ELSE 255],
   [i \in 1..10 |-> IF i = 10 THEN 253 ELSE IF i >= 8 THEN 255 ELSE 20 * i]}

allVars == <<webVars, identityVars, connectorVars, dlpVars, ulidVars, service>>

MCInit ==
  /\ service \in EdgeServices
  /\ WebInit /\ IdentityInit /\ ConnectorInit /\ DlpInit /\ UlidInit
  /\ service # "connectors" => connector = CHOOSE c \in Connectors : TRUE

MCNext ==
  /\ UNCHANGED service
  /\ \/ /\ service = "webchat" /\ WebNext
        /\ UNCHANGED <<identityVars, connectorVars, dlpVars, ulidVars>>
     \/ /\ service = "identity" /\ IdentityNext
        /\ UNCHANGED <<webVars, connectorVars, dlpVars, ulidVars>>
     \/ /\ service = "connectors" /\ ConnectorNext
        /\ UNCHANGED <<webVars, identityVars, dlpVars, ulidVars>>
     \/ /\ service = "scan" /\ ScanRequest
        /\ UNCHANGED <<webVars, identityVars, connectorVars, ulidVars>>
     \/ /\ service = "dlp" /\ DlpLoop
        /\ UNCHANGED <<webVars, identityVars, connectorVars, ulidVars>>
     \/ /\ service = "ulid" /\ UlidNext
        /\ UNCHANGED <<webVars, identityVars, connectorVars, dlpVars>>

\* Timers of the pages fire and the event loop of the webchat server goes on.
MCFairness ==
  /\ \A t \in Tabs : WF_webVars(service = "webchat" /\ Page(t))
  /\ WF_webVars(service = "webchat" /\ Server)

MCSpec == MCInit /\ [][MCNext]_allVars /\ MCFairness

-----------------------------------------------------------------------------
\* Every variable of the services has its type.
EdgeTypeOK ==
  /\ WebTypeOK /\ IdentityTypeOK /\ ConnectorTypeOK /\ DlpTypeOK /\ UlidTypeOK

\* Every open page of the webchat is connected in the end (dashboard.py, widget.py).
OpenPagesConnect == service = "webchat" => PagesConnect
=============================================================================
