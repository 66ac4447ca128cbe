------------------------- MODULE ComposeDeployments -------------------------
(***************************************************************************)
(* Compose deployments, the one that is active, and the variable           *)
(* compose_deployment that SmartEMS hands to every edge device.            *)
(*                                                                         *)
(* PUT of a deployment reads the ports of the others and writes in another *)
(* step.  Activation reads the deployment, lists the devices page by page, *)
(* sets the variable of those it found in one batch and then writes the    *)
(* active row; clearing deletes the row first and sets the variable after. *)
(* A batch may fail before or after SmartEMS applied it.  A deployment is  *)
(* what its request asks for: the host ports of its services, in order.    *)
(***************************************************************************)
EXTENDS Requests, Naturals, SequencesExt

CONSTANTS
    Deployments,      \* names
    ComposeRequests,  \* bodies of PUT: sequences of host ports
    NoCompose,        \* the variable's value when no deployment is active
    EdgeDevices,      \* devices that SmartEMS may know
    RowsPerPage

Composes == ComposeRequests \cup {NoCompose}

ASSUME ComposeValues ==
    /\ RowsPerPage \in Nat \ {0}
    /\ NoCompose \notin ComposeRequests
    /\ Null \notin Composes
    /\ Null \notin Deployments
    /\ IsFiniteSet(EdgeDevices)

VARIABLES
    deployments,   \* table compose_deployments: [name -> request, or Null]
    active,        \* the row of table active_deployment, or Null
    edgeDevices,   \* the device list of SmartEMS, newest first
    edgeVariable,  \* [device -> its variable, or Null]
    composePc,
    composeArg,    \* what each request has been sent and has read
    composeSolo    \* ghost: requests that have not failed, and since whose start
                   \* nobody else changed anything

composeTables == <<deployments, active, edgeDevices, edgeVariable>>
composeVars == <<composeTables, composePc, composeArg, composeSolo>>

ComposeBlank == [name |-> Null, compose |-> Null, found |-> <<>>, page |-> 0, rows |-> 0]

ComposeInit ==
    /\ deployments = [n \in Deployments |-> Null]
    /\ active = Null
    /\ edgeDevices \in {SetToSeq(S) : S \in SUBSET EdgeDevices}
    /\ edgeVariable = [d \in EdgeDevices |-> Null]
    /\ composePc = [r \in Requests |-> "idle"]
    /\ composeArg = [r \in Requests |-> ComposeBlank]
    /\ composeSolo = {}

ComposeBegin(r, step, a) ==
    /\ composePc[r] = "idle"
    /\ composePc' = [composePc EXCEPT ![r] = step]
    /\ composeArg' = [composeArg EXCEPT ![r] = a]
    /\ composeSolo' = composeSolo \cup {r}
    /\ UNCHANGED composeTables

ComposeGoto(r, step) ==
    /\ composePc' = [composePc EXCEPT ![r] = step]
    /\ composeArg' = [composeArg EXCEPT ![r] = IF step = "idle" THEN ComposeBlank ELSE @]

-----------------------------------------------------------------------------
(* Deployments *)

PortsOf(request) == ToSet(request)

(* Mutant of OtherPorts: the first other deployment's ports only. *)
SomeOtherPorts(name) ==
    LET others == {n \in Deployments \ {name} : deployments[n] # Null}
    IN  IF others = {} THEN {} ELSE PortsOf(deployments[CHOOSE n \in others : TRUE])

(* _get_all_exposed_ports_from_db; a deployment is not in its own way *)
OtherPorts(name) ==
    UNION {PortsOf(deployments[n]) : n \in {m \in Deployments \ {name} : deployments[m] # Null}}

(* _handle_exposed_ports_on_request: 422 for a port of another deployment, *)
(* an error for one that the request has twice.                            *)
PortsAreFree(name, request) ==
    /\ IsInjective(request)
    /\ PortsOf(request) \cap OtherPorts(name) = {}

PutDeployment(r, name, request) ==
    /\ PortsAreFree(name, request)
    /\ ComposeBegin(r, IF deployments[name] = Null THEN "insert" ELSE "update",
                    [ComposeBlank EXCEPT !.name = name, !.compose = request])

(* 409 when another request has inserted the name; an update of a row that *)
(* is gone writes nothing.                                                 *)
WriteDeployment(r) ==
    LET a == composeArg[r]
        writes == (composePc[r] = "insert") <=> deployments[a.name] = Null
    IN  /\ composePc[r] \in {"insert", "update"}
        /\ deployments' = IF writes THEN [deployments EXCEPT ![a.name] = a.compose] ELSE deployments
        /\ composeSolo' = IF writes THEN {} ELSE composeSolo \ {r}
        /\ ComposeGoto(r, "idle")
        /\ UNCHANGED <<active, edgeDevices, edgeVariable>>

(* The active row goes with its deployment; the devices keep it. *)
DeleteDeployment(name) ==
    /\ deployments[name] # Null
    /\ deployments' = [deployments EXCEPT ![name] = Null]
    /\ active' = IF active = name THEN Null ELSE active
    /\ composeSolo' = {}
    /\ UNCHANGED <<edgeDevices, edgeVariable, composePc, composeArg>>

-----------------------------------------------------------------------------
(* The active deployment *)

PutActive(r, name) ==
    /\ deployments[name] # Null
    /\ ComposeBegin(r, "list",
                    [ComposeBlank EXCEPT !.name = name, !.compose = deployments[name]])

(* delete_active_deployment commits before the devices are told. *)
ClearActive(r) ==
    /\ active # Null
    /\ composePc[r] = "idle"
    /\ active' = Null
    /\ composePc' = [composePc EXCEPT ![r] = "list"]
    /\ composeArg' = [composeArg EXCEPT ![r] = [ComposeBlank EXCEPT !.compose = NoCompose]]
    /\ composeSolo' = {r}
    /\ UNCHANGED <<deployments, edgeDevices, edgeVariable>>

(* Mutant of PageCount: a last page that is not full is not read. *)
FullPageCount(rows) == IF rows <= RowsPerPage THEN 1 ELSE rows \div RowsPerPage

(* get_paginated_results: the first page tells how many rows there are. *)
PageCount(rows) == IF rows <= RowsPerPage THEN 1 ELSE rows \div RowsPerPage + 1

Page(p) == SubSeq(edgeDevices, (p - 1) * RowsPerPage + 1,
                  LET last == p * RowsPerPage
                  IN  IF last <= Len(edgeDevices) THEN last ELSE Len(edgeDevices))

ListDevices(r) ==
    LET a == composeArg[r]
        rows == IF a.page = 0 THEN Len(edgeDevices) ELSE a.rows
    IN  /\ composePc[r] = "list"
        /\ composeArg' = [composeArg EXCEPT ![r].found = @ \o Page(a.page + 1),
                                            ![r].page = @ + 1, ![r].rows = rows]
        /\ composePc' = [composePc EXCEPT ![r] = IF a.page + 1 = PageCount(rows) THEN "batch" ELSE "list"]
        /\ UNCHANGED <<composeTables, composeSolo>>

AfterBatch(a) == IF a.name = Null THEN "idle" ELSE "activate"

Applied(a) ==
    [d \in EdgeDevices |-> IF d \in ToSet(a.found) \cap ToSet(edgeDevices) THEN a.compose
                           ELSE edgeVariable[d]]

(* set_variable_for_all_devices; nothing is sent for no devices. *)
SetVariables(r) ==
    LET a == composeArg[r]
    IN  /\ composePc[r] = "batch"
        /\ edgeVariable' = Applied(a)
        /\ composeSolo' = composeSolo \cap {r}
        /\ ComposeGoto(r, AfterBatch(a))
        /\ UNCHANGED <<deployments, active, edgeDevices>>

(* SmartEMS does not answer, at any call; the batch may have been applied. *)
LoseSmartEms(r) ==
    /\ composePc[r] \in {"list", "batch"}
    /\ edgeVariable' \in {edgeVariable}
            \cup IF composePc[r] = "batch" THEN {Applied(composeArg[r])} ELSE {}
    /\ composeSolo' = {}
    /\ ComposeGoto(r, "idle")
    /\ UNCHANGED <<deployments, active, edgeDevices>>

(* set_active_deployment; the foreign key refuses a name that is gone. *)
Activate(r) ==
    LET name == composeArg[r].name
    IN  /\ composePc[r] = "activate"
        /\ active' = IF deployments[name] # Null THEN name ELSE active
        /\ composeSolo' = IF deployments[name] # Null THEN composeSolo \cap {r} ELSE composeSolo \ {r}
        /\ ComposeGoto(r, "idle")
        /\ UNCHANGED <<deployments, edgeDevices, edgeVariable>>

-----------------------------------------------------------------------------
(* SmartEMS: devices come and go. *)

Join(d) ==
    /\ d \notin ToSet(edgeDevices)
    /\ edgeDevices' = <<d>> \o edgeDevices
    /\ composeSolo' = {}
    /\ UNCHANGED <<deployments, active, edgeVariable, composePc, composeArg>>

Leave(d) ==
    /\ \E i \in 1..Len(edgeDevices) :
          edgeDevices[i] = d /\ edgeDevices' = RemoveAt(edgeDevices, i)
    /\ edgeVariable' = [edgeVariable EXCEPT ![d] = Null]
    /\ composeSolo' = {}
    /\ UNCHANGED <<deployments, active, composePc, composeArg>>

ComposeNext ==
    \/ \E n \in Deployments : DeleteDeployment(n)
    \/ \E r \in Requests :
        \/ \E n \in Deployments, q \in ComposeRequests : PutDeployment(r, n, q)
        \/ WriteDeployment(r)
        \/ \E n \in Deployments : PutActive(r, n)
        \/ ClearActive(r)
        \/ ListDevices(r) \/ SetVariables(r) \/ LoseSmartEms(r) \/ Activate(r)
    \/ \E d \in EdgeDevices : Join(d) \/ Leave(d)

ComposeSpec == ComposeInit /\ [][ComposeNext]_composeVars

-----------------------------------------------------------------------------
ComposeTypeOK ==
    /\ deployments \in [Deployments -> ComposeRequests \cup {Null}]
    /\ active \in Deployments \cup {Null}
    /\ active # Null => deployments[active] # Null
    /\ IsInjective(edgeDevices) /\ ToSet(edgeDevices) \subseteq EdgeDevices
    /\ edgeVariable \in [EdgeDevices -> Composes \cup {Null}]
    /\ composePc \in [Requests -> {"idle", "insert", "update", "list", "batch", "activate"}]
    /\ composeSolo \subseteq Requests

ApartFrom(name, table) ==
    \A n \in Deployments \ {name} :
        table[n] # Null /\ table[name] # Null => PortsOf(table[n]) \cap PortsOf(table[name]) = {}

PutKeepsApart(r) ==
    composePc[r] \in {"insert", "update"} /\ composePc'[r] = "idle" =>
        ApartFrom(composeArg[r].name, deployments')

(* PUT never gives two deployments the same host port, unless another      *)
(* request changed the deployments between its check and its write.        *)
PortsStayApart == [][\A r \in composeSolo : PutKeepsApart(r)]_composeVars

TellsDevices(r) ==
    composePc[r] \in {"batch", "activate"} /\ composePc'[r] = "idle" /\ r \in composeSolo' =>
        \A d \in ToSet(edgeDevices) :
            edgeVariable'[d] = IF active' = Null THEN NoCompose ELSE deployments'[active']

(* An activation or a clearing that succeeds, with nothing else going on,  *)
(* leaves every device with the compose of the active deployment, or with  *)
(* none: whatever earlier failures left, and however many pages there are. *)
DevicesMatchActive == [][\A r \in composeSolo : TellsDevices(r)]_composeVars
=============================================================================
