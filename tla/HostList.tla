------------------------------ MODULE HostList ------------------------------
(***************************************************************************)
(* The device list (hosts.yml) and the names of the backup groups          *)
(* (machine_names.json), which describe the same machines from two sides:  *)
(* a device row is addressed by IP and follows the network, a group is     *)
(* keyed by MAC and outlives the device.                                   *)
(*                                                                         *)
(* Handlers run one at a time between two awaits.  Two of them read        *)
(* hosts.yml, await the network and then write the list they read:         *)
(* api_scan (it awaits the WS-Discovery probe) and arm_host (it awaits the *)
(* ARP lookup).  scan and arm are those suspended handlers with their copy *)
(* of the list; every other handler is one step.                           *)
(***************************************************************************)
EXTENDS Lists, FiniteSets, SequencesExt

CONSTANTS
    Macs, IPs,
    Labels,        \* names an operator types
    AutoLabels,    \* those that look like an auto-name, such as "Bay-1234"
    InitialHosts,  \* hand-written lists the program may start from
    Hearings,      \* the sets of machines whose names the sniffer may have
    MaxEntries,    \* bound on the length of the list
    MaxBatch,      \* bound on the devices of one add request
    MaxRequests,   \* bound on the requests of a behaviour
    MaxFaults,     \* bound on the faults of each kind
    None

FaultKinds == {"disk", "crash"}

\* A MAC's "Unknown-1a2b", the hostname it announces, a name typed for it.
AutoName(m) == [kind |-> "auto", of |-> m]
HostName(m) == [kind |-> "announced", of |-> m]
Label(l)    == [kind |-> "label", of |-> l]

Names == {AutoName(m) : m \in Macs} \cup {HostName(m) : m \in Macs} \cup {Label(l) : l \in Labels}

Entry == [host : IPs \cup {None}, mac : Macs \cup {None}, name : Names]

GroupName == [name : Names, source : {"manual", "auto"}]

\* What arp-scan reports, the gateway's and the server's own addresses left out:
\* the MACs that answered at an address, one or several, and the last that did.
Answers ==
    {a \in [macs : SUBSET Macs, last : Macs \cup {None}] :
        a.last \in (IF a.macs = {} THEN {None} ELSE a.macs)}

Sweep == [IPs -> Answers]

Silence == [macs |-> {}, last |-> None]

NoScan == [busy |-> FALSE, found |-> [ip \in IPs |-> Silence], hosts |-> <<>>, heard |-> {}]
NoArm  == [busy |-> FALSE, hosts |-> <<>>, target |-> 0]

ASSUME HostListAssumption ==
    /\ None \notin Macs \cup IPs \cup GroupName
    /\ Macs \cap IPs = {}
    /\ AutoLabels \subseteq Labels
    /\ InitialHosts \subseteq Seq(Entry)
    /\ Hearings \subseteq SUBSET Macs
    /\ MaxEntries \in Nat /\ MaxBatch \in Nat /\ MaxRequests \in Nat
    /\ MaxFaults \in [FaultKinds -> Nat]

VARIABLES
    hosts,     \* hosts.yml
    groups,    \* machine_names.json: the name of each MAC's group, or None
    scan, arm, \* the handlers that await
    chosen,    \* the name the last acknowledged rename gave a MAC, or None
    doubled,   \* the addresses no row had when a sweep saw several MACs there
    requests, faults

vars == <<hosts, groups, scan, arm, chosen, doubled, requests, faults>>

TypeOK ==
    /\ hosts \in Seq(Entry)
    /\ groups \in [Macs -> GroupName \cup {None}]
    /\ scan \in [busy : BOOLEAN, found : Sweep, hosts : Seq(Entry), heard : SUBSET Macs]
    /\ arm \in [busy : BOOLEAN, hosts : Seq(Entry), target : Nat]
    /\ chosen \in [Macs -> Names \cup {None}]
    /\ doubled \subseteq IPs
    /\ requests \in Nat
    /\ faults \in [FaultKinds -> Nat]

Init ==
    /\ hosts \in InitialHosts
    /\ groups = [m \in Macs |-> None]
    /\ scan = NoScan /\ arm = NoArm
    /\ chosen = [m \in Macs |-> None]
    /\ doubled = {}
    /\ requests = 0
    /\ faults = [k \in FaultKinds |-> 0]

-----------------------------------------------------------------------------
(* The list and the names as the helpers of app.py read and write them.    *)

\* The regular expression cannot tell a typed "Bay-1234" from an auto-name.
IsAutoName(n) == n.kind = "auto" \/ (n.kind = "label" /\ n.of \in AutoLabels)

Addresses(hs) == {hs[i].host : i \in DOMAIN hs} \ {None}
MacsOf(hs)    == {hs[i].mac : i \in DOMAIN hs} \ {None}

\* The first row with that address, else the first with that MAC, else 0.
FindHost(hs, key) ==
    IF key \in Addresses(hs)
    THEN SelectInSeq(hs, LAMBDA e : e.host = key)
    ELSE SelectInSeq(hs, LAMBDA e : e.mac = key)

\* The last row with that MAC, or 0.
LastRowOf(hs, m) == SelectLastInSeq(hs, LAMBDA e : e.mac = m)

\* suggested_name, given whether the sniffer has heard the machine's name.
SuggestedName(m, heard) == IF m \in heard THEN HostName(m) ELSE AutoName(m)

\* Mutation: a capture overwrites a manual rename.
RememberOver(m, name, source) == [groups EXCEPT ![m] = [name |-> name, source |-> source]]

\* remember_machine_name: an automatic capture gives way to a manual name.
Remember(m, name, source) ==
    IF groups[m] # None /\ groups[m].source = "manual" /\ source = "auto"
    THEN groups
    ELSE [groups EXCEPT ![m] = [name |-> name, source |-> source]]

Request == requests < MaxRequests /\ requests' = requests + 1

Fault(kind) == faults[kind] < MaxFaults[kind] /\ faults' = [faults EXCEPT ![kind] = @ + 1]

\* The process dies: both suspended handlers are lost.
Dies == Fault("crash") /\ scan' = NoScan /\ arm' = NoArm

-----------------------------------------------------------------------------
(* Handlers without an await.                                              *)

NewEntry == [host : IPs \cup {None}, mac : Macs, name : {Label(l) : l \in Labels} \cup {None}]

\* Mutation: a device added without a name gets none.
AddUnnamed(hs, e, heard) ==
    IF e.host \in Addresses(hs) \/ e.mac \in MacsOf(hs) THEN hs ELSE Append(hs, e)

\* One device of an add request: skipped if its address or its MAC is known.
Add(hs, e, heard) ==
    IF e.host \in Addresses(hs) \/ e.mac \in MacsOf(hs)
    THEN hs
    ELSE Append(hs, [e EXCEPT !.name = IF @ # None THEN @ ELSE SuggestedName(e.mac, heard)])

\* The list after all devices of the request.
Listed(hs, batch, heard) ==
    LET listed[n \in 0 .. Len(batch)] ==
            IF n = 0 THEN hs ELSE Add(listed[n - 1], batch[n], heard)
    IN  listed[Len(batch)]

AddHosts ==
    /\ Request
    /\ \E batch \in BoundedSeq(NewEntry, MaxBatch), heard \in Hearings :
         LET listed == Listed(hosts, batch, heard) IN
         /\ Len(listed) <= MaxEntries
         /\ hosts' = listed
    /\ UNCHANGED <<groups, scan, arm, chosen, doubled, faults>>

\* The disarming of the removed machine is RemoveHost of module Arming.
RemoveHost(key) ==
    LET i == FindHost(hosts, key) IN
    /\ Request
    /\ i # 0
    /\ hosts' = RemoveAt(hosts, i)
    /\ UNCHANGED <<groups, scan, arm, chosen, doubled, faults>>

\* PUT /api/host/<key>/name: the row, then the group of its MAC.  The group's
\* file may silently not be written.
UpdateName(key, name) ==
    LET i == FindHost(hosts, key)
        m == hosts[i].mac
    IN
    /\ Request
    /\ i # 0
    /\ hosts' = [hosts EXCEPT ![i].name = name]
    /\ \/ /\ IF m = None THEN UNCHANGED <<groups, chosen>>
                         ELSE /\ groups' = Remember(m, name, "manual")
                              /\ chosen' = [chosen EXCEPT ![m] = name]
          /\ UNCHANGED <<scan, arm, faults>>
       \/ /\ m # None /\ Fault("disk")
          /\ chosen' = [chosen EXCEPT ![m] = name]
          /\ UNCHANGED <<groups, scan, arm>>
       \/ Dies /\ UNCHANGED <<groups, chosen>>
    /\ UNCHANGED doubled

\* PUT /api/machine/<mac>/name: the group, then every row with that MAC, if
\* that changes a row.
UpdateMachineName(m, name) ==
    LET renamed == [i \in DOMAIN hosts |->
                      IF hosts[i].mac = m THEN [hosts[i] EXCEPT !.name = name] ELSE hosts[i]]
    IN
    /\ Request
    /\ groups' = [groups EXCEPT ![m] = [name |-> name, source |-> "manual"]]
    /\ chosen' = [chosen EXCEPT ![m] = name]
    /\ \/ hosts' = renamed /\ UNCHANGED <<scan, arm, faults>>
       \/ /\ renamed # hosts
          /\ Fault("disk") /\ hosts' \in {hosts, <<>>} /\ UNCHANGED <<scan, arm>>
       \/ Dies /\ hosts' \in {hosts} \cup (IF renamed # hosts THEN {<<>>} ELSE {})
    /\ UNCHANGED doubled

\* GET /api/images: the groups that have images but no name adopt the one of
\* the last row with their MAC.
ApiImages(macs) ==
    /\ Request
    /\ groups' = [m \in Macs |->
         LET i == LastRowOf(hosts, m) IN
         IF m \in macs /\ groups[m] = None /\ i # 0
         THEN [name |-> hosts[i].name, source |-> "auto"]
         ELSE groups[m]]
    /\ UNCHANGED <<hosts, scan, arm, chosen, doubled, faults>>

-----------------------------------------------------------------------------
(* arm_host, as far as the list is concerned.                              *)

\* An armed backup records the name of its row; the arming itself may fail.
Captured(m, name) ==
    \/ m # None /\ groups' = Remember(m, name, "auto")
    \/ UNCHANGED groups

\* A row without an address is not looked up: the handler does not await.
ArmByMac(key) ==
    LET i == FindHost(hosts, key) IN
    /\ Request
    /\ i # 0 /\ hosts[i].host = None
    /\ Captured(hosts[i].mac, hosts[i].name)
    /\ UNCHANGED <<hosts, scan, arm, chosen, doubled, faults>>

\* Any other row waits for the ARP lookup of its address.
ArmLoad(key) ==
    LET i == FindHost(hosts, key) IN
    /\ ~arm.busy
    /\ Request
    /\ i # 0 /\ hosts[i].host # None
    /\ arm' = [busy |-> TRUE, hosts |-> hosts, target |-> i]
    /\ UNCHANGED <<hosts, groups, scan, chosen, doubled, faults>>

\* Mutation: after the await the row is looked up again by its old position.
ArmFinishByIndex ==
    /\ arm.busy /\ arm.target \in DOMAIN hosts
    /\ hosts' = hosts
    /\ Captured(arm.hosts[arm.target].mac, hosts[arm.target].name)
    /\ arm' = NoArm
    /\ UNCHANGED <<scan, chosen, doubled, requests, faults>>

\* The answer stands in for a missing MAC, and then the list that was read
\* before the await is saved with it.
ArmFinish ==
    LET row == arm.hosts[arm.target] IN
    /\ arm.busy
    /\ \E m \in (IF row.mac # None THEN {row.mac} ELSE Macs \cup {None}) :
         /\ hosts' = IF row.mac = None /\ m # None
                     THEN [arm.hosts EXCEPT ![arm.target].mac = m] ELSE hosts
         /\ Captured(m, row.name)
    /\ arm' = NoArm
    /\ UNCHANGED <<scan, chosen, doubled, requests, faults>>

-----------------------------------------------------------------------------
(* api_scan.  found is what arp-scan saw, heard the MACs whose names the   *)
(* sniffer has.                                                            *)

\* by_ip holds the last row with an address.
ByIp(hs, i) == hs[i].host # None /\ \A j \in i + 1 .. Len(hs) : hs[j].host # hs[i].host

\* Such a row without a MAC takes one that answers at its address.  Of several
\* it takes the last, as the others replace each other.
Filled(hs, found) ==
    [i \in DOMAIN hs |->
        IF ByIp(hs, i) /\ hs[i].mac = None
        THEN [hs[i] EXCEPT !.mac = found[hs[i].host].last] ELSE hs[i]]

\* A row at whose address another MAC answers comes to have the last one there,
\* with a fresh name.
Swapped(hs, i, found) == ByIp(hs, i) /\ found[hs[i].host].macs \ {hs[i].mac} # {}

Replaced(hs, found, heard) ==
    [i \in DOMAIN hs |->
        IF Swapped(hs, i, found)
        THEN [hs[i] EXCEPT !.mac = found[hs[i].host].last,
                           !.name = SuggestedName(found[hs[i].host].last, heard)]
        ELSE hs[i]]

\* Mutation: a row may move to another row's address.
FreeSpotsAny(m, found, taken) == {ip \in IPs : m \in found[ip].macs}

\* The addresses at which m answers and that no row has.
FreeSpots(m, found, taken) == {ip \in IPs : m \in found[ip].macs /\ ip \notin taken}

\* The first row of a MAC that no longer answers at its address follows it.
Moves(hs, i, found, taken) ==
    LET m == hs[i].mac IN
    /\ m # None
    /\ \A j \in 1 .. i - 1 : hs[j].mac # m
    /\ hs[i].host # None => m \notin found[hs[i].host].macs
    /\ FreeSpots(m, found, taken) # {}

Moved(hs, found, taken, spot) ==
    [i \in DOMAIN hs |->
        IF Moves(hs, i, found, taken) THEN [hs[i] EXCEPT !.host = spot[hs[i].mac]] ELSE hs[i]]

\* Rows with an auto-name take the machine's own name once it is known, or what
\* the probe was told for it.
Upgraded(hs, heard, told) ==
    [i \in DOMAIN hs |->
        LET m == hs[i].mac IN
        IF m = None \/ ~IsAutoName(hs[i].name) THEN hs[i]
        ELSE IF m \in heard THEN [hs[i] EXCEPT !.name = HostName(m)]
        ELSE IF told[m] # None THEN [hs[i] EXCEPT !.name = HostName(told[m])]
        ELSE hs[i]]

\* Of several rows with one MAC, the only one with a manual name stays; if none
\* has one, the only one that is online.
Online(e, found) == e.host # None /\ found[e.host] # Silence

\* Mutation: being online counts for more than a manual name.
WinnersOnline(hs, m, found) ==
    LET twins == {i \in DOMAIN hs : hs[i].mac = m}
        live  == {i \in twins : Online(hs[i], found)}
    IN  IF Cardinality(live) = 1 THEN live ELSE twins

Winners(hs, m, found) ==
    LET twins == {i \in DOMAIN hs : hs[i].mac = m}
        named == {i \in twins : ~IsAutoName(hs[i].name)}
        live  == {i \in twins : Online(hs[i], found)}
    IN  IF Cardinality(named) = 1 THEN named
        ELSE IF named = {} /\ Cardinality(live) = 1 THEN live
        ELSE twins

Deduplicated(hs, found) ==
    Picked(hs, {i \in DOMAIN hs : hs[i].mac # None => i \in Winners(hs, hs[i].mac, found)})

\* The free addresses at which several machines answer.
Doubles(found, taken) ==
    {ip \in IPs \ taken : \E m, n \in found[ip].macs : m # n}

\* The sweep is over: read the list and the sniffer's names, and probe.
ScanLoad ==
    /\ ~scan.busy
    /\ Request
    /\ \E found \in Sweep, heard \in Hearings :
         /\ scan' = [busy |-> TRUE, found |-> found, hosts |-> hosts, heard |-> heard]
         /\ doubled' = doubled \cup Doubles(found, Addresses(hosts))
    /\ UNCHANGED <<hosts, groups, arm, chosen, faults>>

\* Mutation: a scan that only moved rows does not save them.
WorthSavingNoMoves(result, filled, found) ==
    \/ Len(result) # Len(filled)
    \/ \E i \in DOMAIN result : result[i].mac # filled[i].mac \/ result[i].name # filled[i].name

\* A scan that only filled in MACs does not save them.
WorthSaving(result, filled, found) == result # filled \/ \E i \in DOMAIN filled : Swapped(filled, i, found)

\* Where each machine may go.
Spots(found, taken) ==
    LET free == [m \in Macs |-> FreeSpots(m, found, taken)] IN
    {spot \in [Macs -> IPs \cup {None}] : \A m \in Macs :
        IF free[m] = {} THEN spot[m] = None ELSE spot[m] \in free[m]}

\* Which name the probe may bring for a MAC: that of a machine at an address
\* where the MAC answers too.
Told(found) ==
    {told \in [Macs -> Macs \cup {None}] :
        \A m \in Macs : told[m] # None => \E ip \in IPs : {m, told[m]} \subseteq found[ip].macs}

\* What the list may come to before duplicates are removed.
Reconciled(filled, found, heard, taken) ==
    {Upgraded(Moved(Replaced(filled, found, heard), found, taken, spot), heard, told) :
        spot \in Spots(found, taken), told \in Told(found)}

ScanFinish ==
    LET filled == Filled(scan.hosts, scan.found) IN
    /\ scan.busy
    /\ \E upgraded \in Reconciled(filled, scan.found, scan.heard, Addresses(scan.hosts)) :
         LET result == Deduplicated(upgraded, scan.found) IN
         hosts' = IF WorthSaving(result, filled, scan.found) THEN result ELSE hosts
    /\ scan' = NoScan
    /\ UNCHANGED <<groups, arm, chosen, doubled, requests, faults>>

\* Revoking the arm of a MAC that was replaced may raise: nothing is saved.
ScanFails ==
    /\ scan.busy
    /\ \E i \in DOMAIN scan.hosts : Swapped(Filled(scan.hosts, scan.found), i, scan.found)
    /\ Fault("disk")
    /\ scan' = NoScan
    /\ UNCHANGED <<hosts, groups, arm, chosen, doubled, requests>>

-----------------------------------------------------------------------------

\* save_hosts truncates hosts.yml before it writes: a handler that dies, or
\* meets a full disk, in between loses the list.
TornSave ==
    /\ Dies \/ (Fault("disk") /\ UNCHANGED <<scan, arm>>)
    /\ hosts' = <<>>
    /\ UNCHANGED <<groups, chosen, doubled, requests>>

Keys == IPs \cup Macs

Next ==
    \/ AddHosts \/ ScanLoad \/ ScanFinish \/ ScanFails \/ ArmFinish \/ TornSave
    \/ \E key \in Keys : RemoveHost(key) \/ ArmByMac(key) \/ ArmLoad(key)
    \/ \E key \in Keys, l \in Labels : UpdateName(key, Label(l))
    \/ \E m \in Macs, l \in Labels : UpdateMachineName(m, Label(l))
    \/ \E macs \in SUBSET Macs : ApiImages(macs)

Spec == Init /\ [][Next]_vars

-----------------------------------------------------------------------------
(* Properties.                                                             *)

Unique(hs, but) == \A i, j \in DOMAIN hs : i # j /\ hs[i].host = hs[j].host => hs[i].host \in but \cup {None}

\* Two rows share an address only if a sweep saw several machines there while no
\* row had it: then the rows of both may move there, and the removal of
\* duplicates does not sort that out (app.py:1744-1746).  Any other address
\* names one row in by_ip, in FindHost and in the page, also when lists read
\* before an await are written over newer ones.
UniqueAddresses == Unique(hosts, doubled)

\* "A manual rename is never overwritten by a later capture or scan"
\* (app.py:191), also not by an arm that read the old name before its await or
\* after the list was lost; unless machine_names.json could not be written.
NameRemembered ==
    faults["disk"] = 0 =>
        \A m \in Macs : chosen[m] # None => groups[m] = [name |-> chosen[m], source |-> "manual"]

\* A group is only ever labelled with a name chosen for its machine or carried
\* by a row with its MAC, now or when the arm in progress read the list.
LabelIsOwn ==
    [][ \A m \in Macs :
          groups'[m] # groups[m] =>
              \/ groups'[m].name = chosen'[m]
              \/ \E row \in ToSet(hosts) \cup ToSet(hosts') \cup ToSet(arm.hosts) :
                    row.mac = m /\ row.name = groups'[m].name ]_vars

ScanEnds == scan.busy /\ ~scan'.busy /\ faults' = faults

\* A scan loses no row with a manual name, whatever duplicates it removes,
\* unless another machine answered at the row's own address.
NamedSurvivesDedup ==
    [][ ScanEnds /\ hosts' # hosts =>
          LET filled == Filled(scan.hosts, scan.found) IN
          \A i \in DOMAIN filled :
              ~IsAutoName(filled[i].name) /\ ~Swapped(filled, i, scan.found)
              => \E row \in ToSet(hosts') :
                    row.mac = filled[i].mac /\ row.name = filled[i].name ]_vars

\* A device that was added by its MAC alone gets its address from the scan that
\* sees that MAC at an address no other row has (app.py:129-132).
AddressFilled ==
    [][ ScanEnds =>
          \A i \in DOMAIN scan.hosts :
              LET m == scan.hosts[i].mac IN
              /\ m # None /\ scan.hosts[i].host = None
              /\ \A j \in DOMAIN scan.hosts \ {i} : scan.hosts[j].mac # m
              /\ \A ip \in Addresses(scan.hosts) : m \notin scan.found[ip].macs
              /\ \E ip \in IPs : m \in scan.found[ip].macs
              => \E row \in ToSet(hosts') :
                    row.mac = m /\ row.host # None /\ m \in scan.found[row.host].macs ]_vars
=============================================================================
