------------------------------ MODULE Sniffer ------------------------------
(***************************************************************************)
(* The host name sniffer: names from DHCP packets and from NetBIOS name    *)
(* registrations, kept in memory and saved to dhcp_names.json, which the   *)
(* interface reads.  A byte is a number; a name is a sequence of bytes.    *)
(***************************************************************************)
EXTENDS Naturals, Sequences, FiniteSets, SequencesExt

CONSTANTS
    Macs,
    Letters,      \* the bytes of valid names
    Workgroup,    \* the name of the group the Windows machines are in
    Given,        \* the names by which a DHCP server knows a machine
    SaveInterval, \* SAVE_INTERVAL in ticks
    MaxRenames,   \* bound on the renames of a machine
    MaxKills      \* bound on the deaths of the sniffer

Pad == 0
HostName == 12
End == 255
ClientId == 61
Less == 60 \* the character <

\* Names of two letters; NetBIOS cuts them to one (to 15 in the code).
Names == {n \in Letters \X Letters : n[1] # n[2]}
Cut(n) == SubSeq(n, 1, 1)

\* No letter, digit, dot, hyphen or underscore is a NUL or a "<".
ASSUME SnifferAssumption ==
    /\ Letters \subseteq Nat \ {Pad, Less}
    /\ Workgroup \in Seq(Letters)
    /\ Given \in [Macs -> SUBSET Names]
    /\ SaveInterval \in Nat /\ MaxRenames \in Nat /\ MaxKills \in Nat

VARIABLES
    name,     \* what each machine calls itself, by age, the current name last
    cache,    \* the names in memory, by MAC
    file,     \* dhcp_names.json
    dirty,    \* cache was touched since the last save
    age,      \* ticks since the last save, up to one more than SaveInterval
    state,    \* "up", "stopping" (SIGTERM) or "down"
    kills

memory == <<cache, dirty, age>>
vars   == <<name, memory, file, state, kills>>

NoEntry == [hostname |-> <<>>, source |-> "none"]
Entries == {NoEntry}
             \cup [hostname : Names, source : {"dhcp"}]
             \cup [hostname : {Cut(n) : n \in Names} \cup {Workgroup}, source : {"nbns"}]

TypeOK ==
    /\ name \in [Macs -> Seq(Names)]
    /\ cache \in [Macs -> Entries] /\ file \in [Macs -> Entries]
    /\ dirty \in BOOLEAN
    /\ age \in 0 .. SaveInterval + 1
    /\ state \in {"up", "stopping", "down"}
    /\ kills \in Nat

Init ==
    /\ name \in [Macs -> {<<n>> : n \in Names}]
    /\ cache = [m \in Macs |-> NoEntry] /\ file = cache
    /\ dirty = FALSE /\ age = 0
    /\ state = "up"
    /\ kills = 0

-----------------------------------------------------------------------------
(* What is on the wire and what parse_dhcp makes of it.                    *)

\* An option: its code, the length of its data, the data.
Option(code, data) == <<code, Len(data)>> \o data

\* The options a client named n sends: its name, maybe terminated by a NUL,
\* among pads and other options, whose data may look like a name.
Decoy(n) == Option(ClientId, Option(HostName, Reverse(n)))

Layouts(n) ==
    LET host == {Option(HostName, n), Option(HostName, n \o <<Pad>>)}
    IN  {Decoy(n) \o h \o <<End>> : h \in host}
          \cup {<<Pad>> \o h \o Decoy(n) \o <<Pad, End>> : h \in host}
          \cup {h \o <<End>> \o Option(HostName, Reverse(n)) : h \in host}

\* Packets without a usable name: none, an empty one, one cut off.
Nameless(n) ==
    {Decoy(n) \o <<End>>, Option(HostName, <<>>), Option(HostName, n) \o Option(HostName, <<>>),
     Option(HostName, <<Less>>), <<HostName, 3>> \o n, <<HostName>>}

\* The data without the NULs at its ends.
Stripped(data) ==
    LET kept == {i \in DOMAIN data : data[i] # Pad}
    IN  IF kept = {} THEN <<>> ELSE SubSeq(data, Min(kept), Max(kept))

\* _VALID_HOSTNAME_RE.
Valid(data) == IF ToSet(data) \subseteq Letters THEN data ELSE <<>>

\* Mutation: the walk steps over the code of an option it does not know, not
\* over the whole option.
WalkByBytes(opts) ==
    LET n == Len(opts)
        From[i \in 1 .. n + 3] ==
            IF i >= n \/ opts[i] = End THEN <<>>
            ELSE IF opts[i] = HostName /\ i + 1 + opts[i + 1] <= n
                 THEN SubSeq(opts, i + 2, i + 1 + opts[i + 1])
                 ELSE From[i + 1]
    IN  Valid(Stripped(From[1]))

\* One turn of the loop of parse_dhcp, at byte i; from[k] is what the turns from
\* byte k on find: at most one option 12, the last.
Turn(opts, from, i) ==
    LET n == Len(opts)
        after == i + 2 + opts[i + 1]
    IN  IF i > n \/ opts[i] = End THEN <<>>
        ELSE IF opts[i] = Pad THEN from[i + 1]
        ELSE IF i + 1 > n \/ after > n + 1 THEN <<>>
        ELSE IF opts[i] = HostName /\ from[after] = <<>>
             THEN <<SubSeq(opts, i + 2, after - 1)>>
             ELSE from[after]

\* The loop of parse_dhcp: the last complete option 12 before the end option
\* or the first option that is cut off; an empty one is no name.
ParsedName(opts) ==
    LET from[i \in 1 .. Len(opts) + 1] == Turn(opts, from, i)
    IN  IF from[1] = <<>> THEN <<>> ELSE Valid(Stripped(from[1][1]))

\* What parse_dhcp makes of the packets that carry a name, with that name.
Heard == UNION {{<<n, ParsedName(opts)>> : opts \in Layouts(n) \cup Nameless(n)} : n \in Names}

\* A NetBIOS packet of a client named n: it registers or refreshes its own
\* name, as a workstation (suffix 0) and as a server (32), defends it in a
\* response, registers its group, as such (0) and for elections (30), or asks
\* for any other name.
NbnsPackets(n) ==
    [response : BOOLEAN, opcode : {5, 8}, suffix : {0, 32}, name : {Cut(n)}]
      \cup [response : {FALSE}, opcode : {5, 8}, suffix : {0, 30}, name : {Workgroup}]
      \cup [response : {FALSE}, opcode : {0}, suffix : {0}, name : {Cut(Reverse(n))}]

\* The group bit of a registration is not looked at.
ParsedNbns(packet) ==
    IF packet.response \/ packet.opcode \notin {5, 8, 9, 15} \/ packet.suffix # 0
    THEN <<>>
    ELSE packet.name

-----------------------------------------------------------------------------
(* The main loop, one packet at a time.                                    *)

Current(m) == Last(name[m])

\* Mutation: the last source wins.
LastWins(m, entry) == [cache EXCEPT ![m] = entry]

\* A NetBIOS name does not replace one from DHCP.
Merged(m, entry) ==
    IF entry.source = "nbns" /\ cache[m].source = "dhcp"
    THEN cache
    ELSE [cache EXCEPT ![m] = entry]

\* Mutation: every packet postpones the save.
Postponed(m, entry) ==
    /\ cache' = Merged(m, entry)
    /\ IF age > SaveInterval
       THEN file' = cache' /\ dirty' = FALSE
       ELSE file' = file /\ dirty' = TRUE
    /\ age' = 0

\* The names are saved with the first packet that names a machine more than
\* SaveInterval after the last save.
Learn(m, entry) ==
    /\ cache' = Merged(m, entry)
    /\ IF age > SaveInterval
       THEN file' = cache' /\ dirty' = FALSE /\ age' = 0
       ELSE file' = file /\ dirty' = TRUE /\ age' = age

Running == state = "up"

\* The names in the DHCP packets that carry the address of a machine: its own,
\* in its requests and as a server repeats it, and the server's, in its offers
\* and acknowledgements, which parse_dhcp does not tell from requests.
Called(m) == {Current(m)} \cup Given[m]

Dhcp(m) ==
    /\ Running
    /\ \E packet \in Heard :
         /\ packet[1] \in Called(m) /\ packet[2] # <<>>
         /\ Learn(m, [hostname |-> packet[2], source |-> "dhcp"])
    /\ UNCHANGED <<name, state, kills>>

Nbns(m) ==
    /\ Running
    /\ \E packet \in NbnsPackets(Current(m)) :
         /\ ParsedNbns(packet) # <<>>
         /\ Learn(m, [hostname |-> ParsedNbns(packet), source |-> "nbns"])
    /\ UNCHANGED <<name, state, kills>>

\* SIGTERM: recvfrom is resumed, so the loop ends with the next packet of any
\* kind, and the names are saved then.
Terminate ==
    /\ state = "up"
    /\ state' = "stopping"
    /\ UNCHANGED <<name, memory, file, kills>>

Exit ==
    /\ state = "stopping"
    /\ state' = "down"
    /\ file' = IF dirty THEN cache ELSE file
    /\ dirty' = FALSE
    /\ UNCHANGED <<name, cache, age, kills>>

\* A save that raises, a SIGKILL, a power failure: the temporary file may be
\* there, dhcp_names.json is the old one.
Killed ==
    /\ state # "down" /\ kills < MaxKills
    /\ kills' = kills + 1
    /\ state' = "down"
    /\ UNCHANGED <<name, memory, file>>

Restart ==
    /\ state = "down"
    /\ state' = "up"
    /\ cache' = file /\ dirty' = FALSE /\ age' = 0
    /\ UNCHANGED <<name, file, kills>>

Tick ==
    /\ Running
    /\ age <= SaveInterval
    /\ age' = age + 1
    /\ UNCHANGED <<name, cache, dirty, file, state, kills>>

Rename(m) ==
    /\ Len(name[m]) <= MaxRenames
    /\ \E n \in Names : name' = [name EXCEPT ![m] = Append(@, n)]
    /\ UNCHANGED <<memory, file, state, kills>>

Next ==
    \/ \E m \in Macs : Dhcp(m) \/ Nbns(m) \/ Rename(m)
    \/ Terminate \/ Exit \/ Killed \/ Restart \/ Tick

Spec == Init /\ [][Next]_vars

\* Machines renew their leases again and again, packets of some kind keep
\* coming, systemd or an operator starts the sniffer again.
FairSpec ==
    /\ Spec
    /\ WF_vars(Tick) /\ WF_vars(Exit) /\ WF_vars(Restart)
    /\ \A m \in Macs : SF_vars(Dhcp(m))

-----------------------------------------------------------------------------
(* Properties.                                                             *)

\* A name the interface reads is one by which its machine or a DHCP server has
\* called it, whatever pads, unknown options, ends and cut-off options surround
\* it in the packets, and only NetBIOS names are cut; or it is the name of the
\* workgroup: a group registration with suffix 0 passes for one of the
\* "client's own computer name" (lines 79-80).
NameIsOwn ==
    \A m \in Macs :
        /\ file[m].source = "dhcp" => file[m].hostname \in ToSet(name[m]) \cup Given[m]
        /\ file[m].source = "nbns" =>
             file[m].hostname \in {Cut(n) : n \in ToSet(name[m])} \cup {Workgroup}

\* The interface never sees a machine's full name give way to a cut one or to
\* none, also when the sniffer dies with unsaved names and starts again.
FullNameStays == [][ \A m \in Macs : file[m].source = "dhcp" => file'[m].source = "dhcp" ]_vars

\* The name a machine keeps announcing by DHCP reaches the file and stays, in
\* whichever order it renames itself, NetBIOS names come in between, saves are
\* put off, and the sniffer is stopped and killed, unless a server calls the
\* machine by another one, which may take its place.
NameArrives == \A m \in Macs : <>[](file[m].source = "dhcp" /\ file[m].hostname \in Called(m))
=============================================================================
