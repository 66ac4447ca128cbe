-------------------------- MODULE SemsDeviceConfig --------------------------
(***************************************************************************)
(* The routes that edit one edge device in SmartEMS: NAT rules, port       *)
(* forwarding, cellular and LAN interfaces, and the default template of    *)
(* its type.  SmartEMS has no partial update: each route reads the whole   *)
(* document, checks the request against it, computes a whole document and  *)
(* posts it.  Fields that a body leaves out go back to their defaults.     *)
(*                                                                         *)
(* The variables of the document are grouped by the route that writes      *)
(* them; the rules of NAT and port forwarding are variables with an index. *)
(***************************************************************************)
EXTENDS Requests, Naturals, SequencesExt

CONSTANTS
    LanAddresses,    \* IPv4 addresses behind the device
    RuleNames,
    MaxRules,        \* 10
    MaxIndex,        \* indexes of rule variables that may be found
    LanPorts, LanInterfaces, CellValues,
    Tags,            \* access tags
    EndpointNames, EndpointIds,  \* of the device's endpoint devices
    Templates,
    SupportedTemplates,  \* LAN_EDGE_TEMPLATE_VERSIONS
    VariableNames,   \* every other variable
    VariableValues,
    OutsideEdits,    \* [name, value]: what others set variables to
    Text,            \* str: [values, and null -> values]
    Firmwares,       \* versions, by age
    TypeConfigs,     \* what the default configuration says of the device's type
    SemsDocs,        \* documents that SmartEMS may hold at first
    NatRequests, ForwardRequests, LanRequests, CellRequests

NatRules == [name : RuleNames, ext : LanAddresses, int : LanAddresses]
Forwards == [name : RuleNames, interface : LanInterfaces, src : LanPorts, dest : LanAddresses]
Networks == (SUBSET LanAddresses) \ {{}}
Interfaces == [dhcp : BOOLEAN, net : {Null} \cup Networks]
RuleIndexes == 1..MaxIndex

(* Without an id SmartEMS takes an endpoint device for a new one. *)
EndpointDevices == [id : EndpointIds \cup {Null}, tags : SUBSET Tags]

Docs ==
    [enabled : BOOLEAN, template : Templates \cup {Null},
     lan2 : {Null} \cup Networks, lan3 : {Null} \cup Networks,  \* static networks
     natOn : BOOLEAN, nat : PartialFunctions(RuleIndexes, NatRules),
     forwards : PartialFunctions(RuleIndexes, Forwards),
     cellular : CellValues \cup {Null},
     other : PartialFunctions(VariableNames, VariableValues \cup {Null}),
     tags : SUBSET Tags,
     firmware : Firmwares, installFirmware : BOOLEAN, installConfig : BOOLEAN,
     requestConfig : BOOLEAN, staging : BOOLEAN,
     name : {"given", "serial"}, description : {Null, "given", "default"},
     endpoints : PartialFunctions(EndpointNames, EndpointDevices),
     masquerades : BOOLEAN]

ConfigsOfTypes ==
    [template : Templates, tags : SUBSET Tags, firmware : Firmwares, staging : BOOLEAN,
     minimum : Firmwares \cup {Null}, vpn : BOOLEAN,
     defined : PartialFunctions(VariableNames, VariableValues)]

ASSUME SemsValues ==
    /\ MaxRules \in Nat /\ MaxIndex \in Nat /\ MaxRules <= MaxIndex
    /\ Firmwares \subseteq Nat
    /\ SupportedTemplates \subseteq Templates
    /\ Null \notin Templates /\ Null \notin CellValues /\ Null \notin VariableValues
    /\ Null \notin Docs /\ \A n \in Networks : n # Null
    /\ Text \in [VariableValues \cup {Null} -> VariableValues]
    /\ \A v \in VariableValues : Text[v] = v
    /\ OutsideEdits \subseteq [name : VariableNames, value : VariableValues]
    /\ TypeConfigs \subseteq ConfigsOfTypes
    /\ SemsDocs \subseteq Docs
    /\ NatRequests \subseteq [on : BOOLEAN, rules : Seq(NatRules)]
    /\ ForwardRequests \subseteq Seq(Forwards)
    /\ CellRequests \subseteq CellValues \cup {Null}
    /\ LanRequests \subseteq [lan2 : {Null} \cup Interfaces, lan3 : {Null} \cup Interfaces]

VARIABLES
    semsDoc,   \* the device in SmartEMS
    vpnTags,   \* the access tags of its VPN container client
    semsPc,
    semsArg    \* what each request has been sent, has read and will post

semsVars == <<semsDoc, vpnTags, semsPc, semsArg>>

SemsBlank == [kind |-> Null, sent |-> Null, seen |-> Null, body |-> Null]

SemsInit ==
    /\ semsDoc \in SemsDocs
    /\ vpnTags = {}
    /\ semsPc = [r \in Requests |-> "idle"]
    /\ semsArg = [r \in Requests |-> SemsBlank]

(* get_device_by_serial, the checks, and the body of the edit *)
ReadDevice(r, kind, sent, body) ==
    /\ semsPc[r] = "idle"
    /\ semsPc' = [semsPc EXCEPT ![r] = "edit"]
    /\ semsArg' = [semsArg EXCEPT ![r] =
                    [kind |-> kind, sent |-> sent, seen |-> semsDoc, body |-> body]]
    /\ UNCHANGED <<semsDoc, vpnTags>>

SemsEnd(r) ==
    /\ semsPc' = [semsPc EXCEPT ![r] = "idle"]
    /\ semsArg' = [semsArg EXCEPT ![r] = SemsBlank]

(* check_eligibility, check_template_compatibility *)
Eligible == semsDoc.enabled /\ semsDoc.template \in SupportedTemplates

(* TemplateVariables.add: every value becomes text. *)
AsText(variables) == [v \in DOMAIN variables |-> Text[variables[v]]]

(* The endpoint devices get the access tags of the gateway, and no ids. *)
TaggedAsGateway(endpoints) == [e \in DOMAIN endpoints |-> [id |-> Null, tags |-> semsDoc.tags]]

(* generate_resp_from_device_info, with the configuration to be installed *)
Reinstalled ==
    [semsDoc EXCEPT !.installConfig = TRUE, !.endpoints = TaggedAsGateway(@)]

-----------------------------------------------------------------------------
(* NAT *)

Repeats(rules, i, j) == rules[i].ext = rules[j].ext \/ rules[i].int = rules[j].int

(* The rules are checked against each other and against the network of     *)
(* lan3, and only when NAT is to be enabled.                               *)
NatFits(rules, lan3) ==
    \A i \in DOMAIN rules :
        /\ lan3 # Null => rules[i].int \in lan3
        /\ rules[i].ext # rules[i].int
        /\ \A j \in DOMAIN rules \ {i} : ~Repeats(rules, i, j)

(* Mutant of NatVariables: the variables of old rules stay. *)
NatAdded(old, request) ==
    [i \in DOMAIN old \cup DOMAIN request.rules |->
        IF request.on /\ i \in DOMAIN request.rules THEN request.rules[i] ELSE old[i]]

(* The variables of all old rules go; without NAT no new ones come. *)
NatVariables(old, request) == IF request.on THEN request.rules ELSE <<>>

PostNat(r, request) ==
    /\ Len(request.rules) <= MaxRules
    /\ Eligible
    /\ request.on => NatFits(request.rules, semsDoc.lan3)
    /\ ReadDevice(r, "nat", request,
                  [Reinstalled EXCEPT !.natOn = request.on,
                                      !.nat = NatVariables(semsDoc.nat, request),
                                      !.other = AsText(@)])

(* The rules with indexes from 1 on, up to the first that is missing *)
Consecutive(variables) ==
    LET from1 == {n \in 0..MaxIndex : 1..n \subseteq DOMAIN variables}
    IN  [i \in 1..(CHOOSE n \in from1 : \A m \in from1 : m <= n) |-> variables[i]]

GetNat(doc) == [on |-> doc.natOn, rules |-> IF doc.natOn THEN Consecutive(doc.nat) ELSE <<>>]

-----------------------------------------------------------------------------
(* Port forwarding *)

ForwardsDiffer(rules) ==
    \A i \in DOMAIN rules, j \in DOMAIN rules :
        i # j => /\ rules[i].name # rules[j].name
                 /\ <<rules[i].interface, rules[i].src>> # <<rules[j].interface, rules[j].src>>

PostForwarding(r, rules) ==
    /\ Len(rules) <= MaxRules
    /\ Eligible
    /\ ForwardsDiffer(rules)
    /\ ReadDevice(r, "forwards", rules,
                  [Reinstalled EXCEPT !.forwards = rules, !.other = AsText(@)])

GetForwarding(doc) == Consecutive(doc.forwards)

-----------------------------------------------------------------------------
(* Interfaces: a value that is not sent removes its variable; an interface *)
(* that is not sent stays.  A static one needs an address and a subnet.    *)

PostCellular(r, cellular) ==
    /\ Eligible
    /\ ReadDevice(r, "cellular", cellular, [Reinstalled EXCEPT !.cellular = cellular])

Static(interface) == ~interface.dhcp => interface.net # Null

(* update_interface *)
Interface(old, interface) ==
    IF interface = Null THEN old ELSE IF interface.dhcp THEN Null ELSE interface.net

PostLan(r, request) ==
    /\ Eligible
    /\ request.lan2 # Null => Static(request.lan2)
    /\ request.lan3 # Null => Static(request.lan3)
    /\ ReadDevice(r, "lan", request,
                  [Reinstalled EXCEPT !.lan2 = Interface(@, request.lan2),
                                      !.lan3 = Interface(@, request.lan3)])

-----------------------------------------------------------------------------
(* The default template *)

(* validate_minimum_firmware *)
FirmwareSuffices(minimum) == minimum # Null => semsDoc.firmware >= minimum

(* __combine_access_tags *)
CombinedTags(config) == semsDoc.tags \cup config.tags

(* Mutant of PopulatedVariables: variables that are not defined go. *)
DefinedVariables(config) == config.defined

(* __populate_variables: what the configuration defines wins. *)
PopulatedVariables(config) ==
    [v \in DOMAIN semsDoc.other \cup DOMAIN config.defined |->
        IF v \in DOMAIN config.defined THEN config.defined[v] ELSE semsDoc.other[v]]

(* configure_template: the device is enabled, and asked for its            *)
(* configuration, whatever the default configuration says; its name        *)
(* becomes its serial number, a description is given where there is none,  *)
(* and the body names neither endpoint devices nor masquerades.            *)
ApplyTemplate(r, config) ==
    LET install == semsDoc.firmware # config.firmware
    IN  /\ install => FirmwareSuffices(config.minimum)
        /\ ReadDevice(r, "template", config,
                [semsDoc EXCEPT !.template = config.template, !.enabled = TRUE,
                                !.installConfig = TRUE, !.installFirmware = install,
                                !.requestConfig = TRUE, !.staging = config.staging,
                                !.name = "serial",
                                !.description = IF @ = Null THEN "default" ELSE @,
                                !.tags = CombinedTags(config),
                                !.other = PopulatedVariables(config),
                                !.endpoints = Nothing, !.masquerades = FALSE])

-----------------------------------------------------------------------------
(* edit_device *)
EditDevice(r) ==
    LET a == semsArg[r]
        vpn == a.kind = "template" /\ a.sent.vpn
    IN  /\ semsPc[r] = "edit"
        /\ semsDoc' = a.body
        /\ semsPc' = [semsPc EXCEPT ![r] = IF vpn THEN "vpn" ELSE "idle"]
        /\ semsArg' = IF vpn THEN semsArg ELSE [semsArg EXCEPT ![r] = SemsBlank]
        /\ UNCHANGED vpnTags

(* SmartEMS refuses or does not answer; the edit may have been applied. *)
LoseEdit(r) ==
    /\ semsPc[r] = "edit"
    /\ semsDoc' \in {semsDoc, semsArg[r].body}
    /\ SemsEnd(r)
    /\ UNCHANGED vpnTags

(* The VPN client gets the tags of the body; its failure is only reported. *)
EditVpnClient(r) ==
    /\ semsPc[r] = "vpn"
    /\ vpnTags' \in {vpnTags, semsArg[r].body.tags}
    /\ SemsEnd(r)
    /\ UNCHANGED semsDoc

-----------------------------------------------------------------------------
(* SmartEMS: its users edit variables, and so does the batch that sets     *)
(* compose_deployment; the device installs what it was told to, and sends  *)
(* its configuration.                                                      *)

SetVariable(name, value) ==
    /\ semsDoc' = [semsDoc EXCEPT !.other = [v \in DOMAIN @ \cup {name} |->
                                                IF v = name THEN value ELSE @[v]]]
    /\ UNCHANGED <<vpnTags, semsPc, semsArg>>

Install ==
    /\ semsDoc.installConfig \/ semsDoc.installFirmware
    /\ semsDoc' = [semsDoc EXCEPT !.installConfig = FALSE, !.installFirmware = FALSE,
                                  !.requestConfig = FALSE]
    /\ UNCHANGED <<vpnTags, semsPc, semsArg>>

SemsNext ==
    \/ \E r \in Requests :
        \/ \E q \in NatRequests : PostNat(r, q)
        \/ \E q \in ForwardRequests : PostForwarding(r, q)
        \/ \E q \in CellRequests : PostCellular(r, q)
        \/ \E q \in LanRequests : PostLan(r, q)
        \/ \E c \in TypeConfigs : ApplyTemplate(r, c)
        \/ EditDevice(r) \/ LoseEdit(r) \/ EditVpnClient(r)
    \/ \E x \in OutsideEdits : SetVariable(x.name, x.value)
    \/ Install

SemsSpec == SemsInit /\ [][SemsNext]_semsVars

-----------------------------------------------------------------------------
SemsTypeOK ==
    /\ semsDoc \in Docs
    /\ vpnTags \subseteq Tags
    /\ semsPc \in [Requests -> {"idle", "edit", "vpn"}]

EditReadsBack(r) ==
    LET a == semsArg[r]
    IN  semsPc[r] = "edit" /\ semsPc'[r] # "edit" /\ semsDoc' = a.body =>
            /\ a.kind = "nat" =>
                GetNat(semsDoc') = [a.sent EXCEPT !.rules = IF a.sent.on THEN @ ELSE <<>>]
            /\ a.kind = "forwards" => GetForwarding(semsDoc') = a.sent

(* Whatever the device had before and whoever else edited it, the routes   *)
(* that read NAT and port forwarding answer after an edit what was sent:   *)
(* no rule of an earlier edit shows, and none that was sent is missed.     *)
ReadsBack == [][\A r \in Requests : EditReadsBack(r)]_semsVars

(* The fields that a route is about *)
Own(kind) ==
    CASE kind = "nat" -> {"natOn", "nat"}
      [] kind = "forwards" -> {"forwards"}
      [] kind = "cellular" -> {"cellular"}
      [] kind = "lan" -> {"lan2", "lan3"}
      [] kind = "template" -> {"template", "installFirmware", "tags"}

(* The fields that it sets besides, whatever the device had there *)
Resets(kind) ==
    {"installConfig", "endpoints"}
    \cup IF kind = "template"
         THEN {"name", "description", "enabled", "staging", "requestConfig", "masquerades"}
         ELSE {}

(* Request r ends its edit of the document that it read. *)
EditsAsRead(r) == semsPc[r] = "edit" /\ semsPc'[r] # "edit" /\ semsDoc = semsArg[r].seen

EditKeeps(r) ==
    LET a == semsArg[r]
    IN  EditsAsRead(r) =>
            /\ \A field \in DOMAIN semsDoc \ (Own(a.kind) \cup Resets(a.kind) \cup {"other"}) :
                semsDoc'[field] = semsDoc[field]
            /\ semsDoc.tags \subseteq semsDoc'.tags
            /\ semsDoc.description # Null => semsDoc'.description = semsDoc.description
            /\ a.kind # "template" => DOMAIN semsDoc'.endpoints = DOMAIN semsDoc.endpoints
            /\ \A v \in DOMAIN semsDoc.other :
                /\ v \in DOMAIN semsDoc'.other
                /\ (a.kind = "template" => v \notin DOMAIN a.sent.defined) =>
                        Text[semsDoc'.other[v]] = Text[semsDoc.other[v]]

(* An edit of a document that nobody changed since it was read changes     *)
(* only what the route is about and what it resets: the tags and ids of    *)
(* the endpoint devices, and for a template also the name, the switches,   *)
(* the masquerades and the endpoint devices themselves.  No route loses a  *)
(* tag of the gateway, a description, a rule that is not its own, or a     *)
(* variable that the template does not define; none but the template loses *)
(* an endpoint device.                                                     *)
EditsKeepTheRest == [][\A r \in Requests : EditKeeps(r)]_semsVars

(* "Copy it to second edit-device call since it sets unfilled fields to    *)
(* default or none": an edit leaves the endpoint devices as they were      *)
(* read.  generate_resp_from_device_info is false to it: each gets the     *)
(* access tags of the gateway.                                             *)
EndpointsKeepTheirTags ==
    [][\A r \in Requests :
        EditsAsRead(r) /\ semsArg[r].kind # "template" =>
            \A e \in DOMAIN semsDoc.endpoints :
                semsDoc'.endpoints[e].tags = semsDoc.endpoints[e].tags]_semsVars
=============================================================================
