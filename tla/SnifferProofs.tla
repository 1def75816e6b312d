---------------------------- MODULE SnifferProofs ----------------------------
(***************************************************************************)
(* Proofs for every set of machines and letters and any number of renames  *)
(* and kills: what the loop of parse_dhcp finds in the packets a client    *)
(* may send; that the names in the cache and in its file are the machine's *)
(* own; and that a full name in the file never gives way to a cut one.     *)
(***************************************************************************)
EXTENDS Sniffer, ListsProofs, TLAPS

-----------------------------------------------------------------------------
(* The loop of parse_dhcp.  ParsedName is defined by a function that calls *)
(* itself on later bytes; it exists, and its turns say what is found.      *)

\* A turn of the loop looks only at what later turns find.
LEMMA TurnLooksAhead ==
    ASSUME NEW opts \in Seq(Nat), NEW f, NEW g, NEW i \in 1 .. Len(opts) + 1,
           \A k \in i + 1 .. Len(opts) + 1 : f[k] = g[k]
    PROVE  Turn(opts, f, i) = Turn(opts, g, i)
  <1>1. CASE i > Len(opts) \/ opts[i] = End
    BY <1>1 DEF Turn
  <1>2. CASE i <= Len(opts) /\ opts[i] # End /\ opts[i] = Pad
    BY <1>2 DEF Turn
  <1>3. CASE i <= Len(opts) /\ opts[i] # End /\ opts[i] # Pad
    <2>1. CASE i + 1 > Len(opts)
      BY <1>3, <2>1 DEF Turn
    <2>2. CASE i + 1 <= Len(opts)
      <3> DEFINE after == i + 2 + opts[i + 1]
      <3>1. after \in Nat /\ after > i
        BY <2>2
      <3>2. CASE after > Len(opts) + 1
        BY <1>3, <3>2 DEF Turn
      <3>3. CASE after <= Len(opts) + 1
        <4>1. f[after] = g[after]
          BY <3>1, <3>3
        <4>2. QED
          BY <1>3, <2>2, <3>3, <4>1 DEF Turn
      <3>4. QED
        BY <3>1, <3>2, <3>3
    <2>3. QED
      BY <2>1, <2>2
  <1>4. QED
    BY <1>1, <1>2, <1>3

\* f is what the turns find, and nothing else.
IsWalk(opts, f) == f = [i \in 1 .. Len(opts) + 1 |-> Turn(opts, f, i)]

LEMMA WalkExists ==
    ASSUME NEW opts \in Seq(Nat)
    PROVE  \E f : IsWalk(opts, f)
  <1> DEFINE n == Len(opts) + 1
             Follows(f, k) == \A i \in 1 .. n : i > n - k => f[i] = Turn(opts, f, i)
             T == {k \in 0 .. n : \E f : f = [i \in 1 .. n |-> f[i]] /\ Follows(f, k)}
  <1>1. n \in Nat
    OBVIOUS
  <1>2. 0 \in T
    <2> DEFINE f == [i \in 1 .. n |-> 0]
    <2>1. f = [i \in 1 .. n |-> f[i]]
      OBVIOUS
    <2>2. Follows(f, 0)
      BY <1>1
    <2> HIDE DEF f, Follows
    <2>3. QED
      BY <1>1, <2>1, <2>2
  <1>3. ASSUME NEW k \in 1 .. n, k - 1 \in T PROVE k \in T
    <2>1. PICK f : f = [i \in 1 .. n |-> f[i]] /\ Follows(f, k - 1)
      BY <1>3
    <2> DEFINE at == n - k + 1
               g == [f EXCEPT ![at] = Turn(opts, f, at)]
    <2>2. at \in 1 .. n
      BY <1>1
    <2>3. /\ g = [i \in 1 .. n |-> g[i]] /\ g[at] = Turn(opts, f, at)
          /\ \A i \in 1 .. n : i # at => g[i] = f[i]
      BY <2>1, <2>2
    <2> HIDE DEF g
    <2>4. ASSUME NEW i \in 1 .. n, i > n - k PROVE g[i] = Turn(opts, g, i)
      <3>1. \A j \in i + 1 .. n : f[j] = g[j]
        BY <1>1, <2>2, <2>3, <2>4
      <3>2. Turn(opts, f, i) = Turn(opts, g, i)
        BY <3>1, TurnLooksAhead
      <3>3. CASE i = at
        BY <2>3, <3>2, <3>3
      <3>4. CASE i # at
        <4>1. f[i] = Turn(opts, f, i)
          BY <1>1, <2>1, <2>4, <3>4
        <4>2. QED
          BY <2>3, <3>2, <3>4, <4>1
      <3>5. QED
        BY <3>3, <3>4
    <2>5. QED
      BY <2>3, <2>4
  <1> HIDE DEF T, n
  <1>4. n \in T
    <2>1. \A k \in 0 .. n : k \in T
      BY <1>1, <1>2, <1>3, InductionUpTo
    <2>2. QED
      BY <1>1, <2>1
  <1> USE DEF n
  <1>5. PICK f : f = [i \in 1 .. n |-> f[i]] /\ Follows(f, n)
    BY <1>4 DEF T
  <1>6. \A i \in 1 .. n : f[i] = Turn(opts, f, i)
    BY <1>1, <1>5
  <1>7. f = [i \in 1 .. n |-> Turn(opts, f, i)]
    BY <1>5, <1>6
  <1>8. QED
    BY <1>7 DEF IsWalk

\* What the loop finds is what its turns find.
LEMMA ParsedWalks ==
    ASSUME NEW opts \in Seq(Nat)
    PROVE  \E f : /\ \A i \in 1 .. Len(opts) + 1 : f[i] = Turn(opts, f, i)
                  /\ ParsedName(opts) = IF f[1] = <<>> THEN <<>> ELSE Valid(Stripped(f[1][1]))
  <1> DEFINE from == CHOOSE f : f = [i \in 1 .. Len(opts) + 1 |-> Turn(opts, f, i)]
  <1>1. from = [i \in 1 .. Len(opts) + 1 |-> Turn(opts, from, i)]
    BY WalkExists DEF IsWalk
  <1>2. ParsedName(opts) = IF from[1] = <<>> THEN <<>> ELSE Valid(Stripped(from[1][1]))
    BY DEF ParsedName
  <1> HIDE DEF from
  <1>3. \A i \in 1 .. Len(opts) + 1 : from[i] = Turn(opts, from, i)
    BY <1>1
  <1>4. QED
    BY <1>2, <1>3


-----------------------------------------------------------------------------
(* Bytes, names and options.                                               *)

LEMMA Constants == Pad = 0 /\ HostName = 12 /\ End = 255 /\ ClientId = 61 /\ Less = 60
                   /\ Pad \in Nat /\ HostName \in Nat /\ End \in Nat /\ ClientId \in Nat /\ Less \in Nat
  BY DEF Pad, HostName, End, ClientId, Less

LEMMA NameBytes ==
    ASSUME NEW n \in Names
    PROVE  \E a, b \in Letters : n = <<a, b>>
  <1>1. n \in Letters \X Letters
    BY DEF Names
  <1>2. QED
    BY <1>1

LEMMA NameShape ==
    ASSUME NEW n \in Names
    PROVE  /\ n \in Seq(Nat) /\ Len(n) = 2
           /\ n[1] \in Letters /\ n[2] \in Letters
           /\ n[1] # Pad /\ n[2] # Pad
  <1>1. PICK a \in Letters, b \in Letters : n = <<a, b>>
    BY NameBytes
  <1>2. a \in Nat /\ b \in Nat /\ a # Pad /\ b # Pad
    BY SnifferAssumption
  <1>3. QED
    BY <1>1, <1>2

LEMMA Joined ==
    ASSUME NEW s \in Seq(Nat), NEW t \in Seq(Nat)
    PROVE  /\ s \o t \in Seq(Nat) /\ Len(s \o t) = Len(s) + Len(t)
           /\ \A i \in 1 .. Len(s) : (s \o t)[i] = s[i]
           /\ \A i \in 1 .. Len(t) : (s \o t)[Len(s) + i] = t[i]
  OBVIOUS

LEMMA SameBytes ==
    ASSUME NEW s \in Seq(Nat), NEW t \in Seq(Nat), Len(s) = Len(t),
           \A i \in 1 .. Len(s) : s[i] = t[i]
    PROVE  s = t
  OBVIOUS

\* An option is its code, its length and its data.
LEMMA OptionBytes ==
    ASSUME NEW code \in Nat, NEW data \in Seq(Nat)
    PROVE  /\ Option(code, data) \in Seq(Nat) /\ Len(Option(code, data)) = Len(data) + 2
           /\ Option(code, data)[1] = code /\ Option(code, data)[2] = Len(data)
           /\ \A i \in 1 .. Len(data) : Option(code, data)[i + 2] = data[i]
  <1> DEFINE head == <<code, Len(data)>>
  <1>1. head \in Seq(Nat) /\ Len(head) = 2 /\ head[1] = code /\ head[2] = Len(data)
    OBVIOUS
  <1> HIDE DEF head
  <1>2. Option(code, data) = head \o data
    BY DEF Option, head
  <1> DEFINE whole == head \o data
  <1>3. /\ whole \in Seq(Nat) /\ Len(whole) = Len(head) + Len(data)
        /\ \A i \in 1 .. Len(head) : whole[i] = head[i]
        /\ \A i \in 1 .. Len(data) : whole[Len(head) + i] = data[i]
    BY <1>1, Joined
  <1> HIDE DEF whole
  <1>4. Len(whole) = Len(data) + 2 /\ \A i \in 1 .. Len(data) : whole[i + 2] = data[i]
    <2>1. \A i \in 1 .. Len(data) : i + 2 = Len(head) + i
      BY <1>1
    <2>2. QED
      BY <1>1, <1>3, <2>1
  <1>5. whole[1] = code /\ whole[2] = Len(data)
    BY <1>1, <1>3
  <1>6. QED
    BY <1>2, <1>3, <1>4, <1>5 DEF whole

LEMMA ReverseBytes ==
    ASSUME NEW s \in Seq(Nat)
    PROVE  Reverse(s) \in Seq(Nat) /\ Len(Reverse(s)) = Len(s)
  <1> DEFINE r == [i \in 1 .. Len(s) |-> s[Len(s) - i + 1]]
  <1>1. \A i \in 1 .. Len(s) : s[Len(s) - i + 1] \in Nat
    OBVIOUS
  <1>2. r \in [1 .. Len(s) -> Nat]
    BY <1>1
  <1>3. Len(s) \in Nat
    OBVIOUS
  <1>4. Reverse(s) = r
    BY DEF Reverse
  <1> HIDE DEF r
  <1>5. r \in Seq(Nat) /\ Len(r) = Len(s)
    BY <1>2, <1>3
  <1>6. QED
    BY <1>4, <1>5

\* A decoy is an option that is none of the client's name.
LEMMA DecoyBytes ==
    ASSUME NEW n \in Names
    PROVE  /\ Decoy(n) \in Seq(Nat) /\ Len(Decoy(n)) = 6
           /\ Decoy(n)[1] = ClientId /\ Decoy(n)[2] = 4
  <1>1. n \in Seq(Nat) /\ Len(n) = 2
    BY NameShape
  <1> DEFINE r == Reverse(n)
             o == Option(HostName, r)
  <1>2. r \in Seq(Nat) /\ Len(r) = 2
    BY <1>1, ReverseBytes
  <1> HIDE DEF r
  <1>3. o \in Seq(Nat) /\ Len(o) = 4
    <2>1. HostName \in Nat
      BY Constants
    <2>2. o \in Seq(Nat) /\ Len(o) = Len(r) + 2
      BY <1>2, <2>1, OptionBytes
    <2>3. QED
      BY <1>2, <2>2
  <1>4. Decoy(n) = Option(ClientId, o)
    BY DEF Decoy, r
  <1> HIDE DEF o
  <1> DEFINE d == Option(ClientId, o)
  <1>5. d \in Seq(Nat) /\ Len(d) = Len(o) + 2 /\ d[1] = ClientId /\ d[2] = Len(o)
    <2>1. ClientId \in Nat
      BY Constants
    <2>2. QED
      BY <1>3, <2>1, OptionBytes
  <1> HIDE DEF d
  <1>6. d \in Seq(Nat) /\ Len(d) = 6 /\ d[1] = ClientId /\ d[2] = 4
    BY <1>3, <1>5
  <1>7. QED
    BY <1>4, <1>6 DEF d

-----------------------------------------------------------------------------
(* The turns: what they find at the end, at a pad, at an option that is    *)
(* cut off, at one that is no host name and at a host name.                *)

\* f is what the turns find.
Walked(opts, f) == \A i \in 1 .. Len(opts) + 1 : f[i] = Turn(opts, f, i)

LEMMA Ends ==
    ASSUME NEW opts \in Seq(Nat), NEW f, Walked(opts, f), NEW i \in 1 .. Len(opts) + 1,
           i <= Len(opts) => opts[i] = End
    PROVE  f[i] = <<>>
  <1>1. f[i] = Turn(opts, f, i)
    BY DEF Walked
  <1>2. i > Len(opts) \/ opts[i] = End
    OBVIOUS
  <1>3. QED
    BY <1>1, <1>2 DEF Turn

LEMMA Pads ==
    ASSUME NEW opts \in Seq(Nat), NEW f, Walked(opts, f), NEW i \in 1 .. Len(opts), opts[i] = Pad
    PROVE  f[i] = f[i + 1]
  <1>1. f[i] = Turn(opts, f, i)
    BY DEF Walked
  <1>2. ~(i > Len(opts)) /\ opts[i] # End
    BY Constants
  <1>3. QED
    BY <1>1, <1>2 DEF Turn

LEMMA CutOff ==
    ASSUME NEW opts \in Seq(Nat), NEW f, Walked(opts, f), NEW i \in 1 .. Len(opts), opts[i] # Pad,
           i < Len(opts) => i + 1 + opts[i + 1] > Len(opts)
    PROVE  f[i] = <<>>
  <1>1. f[i] = Turn(opts, f, i)
    BY DEF Walked
  <1>2. i + 1 > Len(opts) \/ i + 2 + opts[i + 1] > Len(opts) + 1
    OBVIOUS
  <1>3. QED
    BY <1>1, <1>2 DEF Turn

LEMMA Passes ==
    ASSUME NEW opts \in Seq(Nat), NEW f, Walked(opts, f), NEW i \in 1 .. Len(opts),
           i + 1 <= Len(opts), i + 2 + opts[i + 1] <= Len(opts) + 1, opts[i] # Pad, opts[i] # End
    PROVE  /\ opts[i] # HostName => f[i] = f[i + 2 + opts[i + 1]]
           /\ f[i + 2 + opts[i + 1]] # <<>> => f[i] = f[i + 2 + opts[i + 1]]
           /\ opts[i] = HostName /\ f[i + 2 + opts[i + 1]] = <<>> =>
                f[i] = <<SubSeq(opts, i + 2, (i + 2 + opts[i + 1]) - 1)>>
  <1>1. f[i] = Turn(opts, f, i)
    BY DEF Walked
  <1>2. ~(i > Len(opts)) /\ ~(i + 1 > Len(opts)) /\ ~(i + 2 + opts[i + 1] > Len(opts) + 1)
    OBVIOUS
  <1>3. QED
    BY <1>1, <1>2 DEF Turn

LEMMA Skips ==
    ASSUME NEW opts \in Seq(Nat), NEW f, Walked(opts, f), NEW i \in 1 .. Len(opts),
           i + 1 <= Len(opts), i + 1 + opts[i + 1] <= Len(opts), opts[i] = ClientId
    PROVE  f[i] = f[i + 2 + opts[i + 1]]
  <1>1. opts[i] # Pad /\ opts[i] # End /\ opts[i] # HostName
    BY Constants
  <1>2. i + 2 + opts[i + 1] <= Len(opts) + 1
    OBVIOUS
  <1>3. QED
    BY <1>1, <1>2, Passes

LEMMA SubSeqBytes ==
    ASSUME NEW opts \in Seq(Nat), NEW i \in 1 .. Len(opts), NEW j \in Nat, i <= j + 1, j <= Len(opts)
    PROVE  /\ SubSeq(opts, i, j) \in Seq(Nat) /\ Len(SubSeq(opts, i, j)) = j - i + 1
           /\ \A k \in 1 .. j - i + 1 : SubSeq(opts, i, j)[k] = opts[i + k - 1]
  OBVIOUS

LEMMA Finds ==
    ASSUME NEW opts \in Seq(Nat), NEW f, Walked(opts, f), NEW i \in 1 .. Len(opts),
           NEW data \in Seq(Nat), i + 1 + Len(data) <= Len(opts),
           opts[i] = HostName, opts[i + 1] = Len(data),
           \A k \in 1 .. Len(data) : opts[i + 1 + k] = data[k]
    PROVE  /\ f[i + 2 + Len(data)] = <<>> => f[i] = <<data>>
           /\ f[i + 2 + Len(data)] # <<>> => f[i] = f[i + 2 + Len(data)]
  <1> DEFINE last == i + 1 + Len(data)
             d == SubSeq(opts, i + 2, last)
  <1>1. d = data
    <2>1. CASE Len(data) = 0
      BY <2>1
    <2>2. CASE Len(data) # 0
      <3>1. i + 2 \in 1 .. Len(opts) /\ last \in Nat /\ i + 2 <= last + 1 /\ last <= Len(opts)
            /\ last - (i + 2) + 1 = Len(data)
        BY <2>2
      <3>2. d \in Seq(Nat) /\ Len(d) = Len(data)
            /\ \A k \in 1 .. Len(data) : d[k] = opts[i + 2 + k - 1]
        BY <3>1, SubSeqBytes
      <3>3. \A k \in 1 .. Len(data) : d[k] = data[k]
        <4> SUFFICES ASSUME NEW k \in 1 .. Len(data) PROVE d[k] = data[k]
          OBVIOUS
        <4>1. i + 2 + k - 1 = i + 1 + k
          OBVIOUS
        <4>2. QED
          BY <3>2, <4>1
      <3> HIDE DEF d
      <3>4. QED
        BY <3>2, <3>3, SameBytes
    <2>3. QED
      BY <2>1, <2>2
  <1> HIDE DEF d
  <1>2. /\ i + 1 <= Len(opts) /\ opts[i] # Pad /\ opts[i] # End
        /\ i + 2 + opts[i + 1] <= Len(opts) + 1 /\ i + 2 + opts[i + 1] = i + 2 + Len(data)
        /\ (i + 2 + opts[i + 1]) - 1 = last
    BY Constants
  <1>3. /\ f[i + 2 + opts[i + 1]] # <<>> => f[i] = f[i + 2 + opts[i + 1]]
        /\ f[i + 2 + opts[i + 1]] = <<>> => f[i] = <<SubSeq(opts, i + 2, (i + 2 + opts[i + 1]) - 1)>>
    BY <1>2, Passes
  <1>4. QED
    BY <1>1, <1>2, <1>3, Zenon DEF d

-----------------------------------------------------------------------------
(* Options within packets.                                                 *)

\* A complete option at position i, followed by something or not.
OptionAt(opts, i, code, data) ==
    /\ i \in 1 .. Len(opts) /\ i + 1 + Len(data) <= Len(opts)
    /\ opts[i] = code /\ opts[i + 1] = Len(data)
    /\ \A k \in 1 .. Len(data) : opts[i + 1 + k] = data[k]

LEMMA OptionIs ==
    ASSUME NEW code \in Nat, NEW data \in Seq(Nat)
    PROVE  OptionAt(Option(code, data), 1, code, data)
  <1> DEFINE o == Option(code, data)
  <1>1. /\ o \in Seq(Nat) /\ Len(o) = Len(data) + 2
        /\ o[1] = code /\ o[2] = Len(data)
        /\ \A i \in 1 .. Len(data) : o[i + 2] = data[i]
    BY OptionBytes
  <1> HIDE DEF o
  <1>2. Len(data) \in Nat /\ 1 + 1 = 2 /\ \A k \in 1 .. Len(data) : 1 + 1 + k = k + 2
    OBVIOUS
  <1>3. 1 \in 1 .. Len(o) /\ 1 + 1 + Len(data) <= Len(o)
    BY <1>1, <1>2
  <1>4. OptionAt(o, 1, code, data)
    BY <1>1, <1>2, <1>3 DEF OptionAt
  <1>5. QED
    BY <1>4 DEF o

\* An option stays where it is when bytes follow or precede.
LEMMA OptionStays ==
    ASSUME NEW s \in Seq(Nat), NEW t \in Seq(Nat), NEW i, NEW code, NEW data \in Seq(Nat),
           OptionAt(s, i, code, data)
    PROVE  OptionAt(s \o t, i, code, data)
  <1> DEFINE whole == s \o t
  <1>1. /\ whole \in Seq(Nat) /\ Len(whole) = Len(s) + Len(t)
        /\ \A k \in 1 .. Len(s) : whole[k] = s[k]
    BY Joined
  <1> HIDE DEF whole
  <1>2. i \in 1 .. Len(s) /\ i + 1 + Len(data) <= Len(s)
    BY DEF OptionAt
  <1>3. Len(s) \in Nat /\ Len(t) \in Nat /\ Len(data) \in Nat
    OBVIOUS
  <1>4. i + 1 \in 1 .. Len(s) /\ \A k \in 1 .. Len(data) : i + 1 + k \in 1 .. Len(s)
    BY <1>2, <1>3
  <1>5. i \in 1 .. Len(whole) /\ i + 1 + Len(data) <= Len(whole)
    BY <1>1, <1>2, <1>3
  <1>6. whole[i] = code /\ whole[i + 1] = Len(data)
    BY <1>1, <1>2, <1>4 DEF OptionAt
  <1>7. \A k \in 1 .. Len(data) : whole[i + 1 + k] = data[k]
    BY <1>1, <1>4 DEF OptionAt
  <1>8. QED
    BY <1>5, <1>6, <1>7 DEF OptionAt, whole

LEMMA OptionFollows ==
    ASSUME NEW s \in Seq(Nat), NEW t \in Seq(Nat), NEW i, NEW code, NEW data \in Seq(Nat),
           OptionAt(t, i, code, data)
    PROVE  OptionAt(s \o t, Len(s) + i, code, data)
  <1> DEFINE whole == s \o t
  <1>1. /\ whole \in Seq(Nat) /\ Len(whole) = Len(s) + Len(t)
        /\ \A k \in 1 .. Len(t) : whole[Len(s) + k] = t[k]
    BY Joined
  <1> HIDE DEF whole
  <1>2. i \in 1 .. Len(t) /\ i + 1 \in 1 .. Len(t)
        /\ Len(s) + i \in 1 .. Len(whole) /\ Len(s) + i + 1 + Len(data) <= Len(whole)
    <2>1. i \in 1 .. Len(t) /\ i + 1 + Len(data) <= Len(t)
      BY DEF OptionAt
    <2>2. Len(s) \in Nat /\ Len(t) \in Nat /\ Len(data) \in Nat
      OBVIOUS
    <2>3. i \in Nat /\ i + 1 \in 1 .. Len(t)
      BY <2>1, <2>2
    <2>4. Len(whole) = Len(s) + Len(t)
      BY <1>1
    <2>5. Len(s) + i \in 1 .. Len(whole)
      BY <2>1, <2>2, <2>3, <2>4
    <2>6. Len(s) + i + 1 + Len(data) <= Len(whole)
      BY <2>1, <2>2, <2>3, <2>4
    <2>7. QED
      BY <2>1, <2>3, <2>5, <2>6
  <1>3. whole[Len(s) + i] = code
    BY <1>1, <1>2 DEF OptionAt
  <1>4. whole[Len(s) + i + 1] = Len(data)
    <2>1. Len(s) + i + 1 = Len(s) + (i + 1)
      BY <1>2
    <2>2. QED
      BY <1>1, <1>2, <2>1 DEF OptionAt
  <1>5. ASSUME NEW k \in 1 .. Len(data) PROVE whole[Len(s) + i + 1 + k] = data[k]
    <2>1. Len(s) + i + 1 + k = Len(s) + (i + 1 + k) /\ i + 1 + k \in 1 .. Len(t)
      BY <1>2 DEF OptionAt
    <2>2. QED
      BY <1>1, <2>1 DEF OptionAt
  <1>6. QED
    BY <1>2, <1>3, <1>4, <1>5 DEF OptionAt, whole

LEMMA FindsAt ==
    ASSUME NEW opts \in Seq(Nat), NEW f, Walked(opts, f), NEW i, NEW data \in Seq(Nat),
           OptionAt(opts, i, HostName, data),
           NEW after, after = i + 2 + Len(data)
    PROVE  /\ f[after] = <<>> => f[i] = <<data>>
           /\ f[after] # <<>> => f[i] = f[after]
  <1>1. /\ i \in 1 .. Len(opts) /\ i + 1 + Len(data) <= Len(opts)
        /\ opts[i] = HostName /\ opts[i + 1] = Len(data)
        /\ \A k \in 1 .. Len(data) : opts[i + 1 + k] = data[k]
    BY DEF OptionAt
  <1>2. /\ f[i + 2 + Len(data)] = <<>> => f[i] = <<data>>
        /\ f[i + 2 + Len(data)] # <<>> => f[i] = f[i + 2 + Len(data)]
    BY <1>1, Finds
  <1>3. QED
    BY <1>2

LEMMA SkipsAt ==
    ASSUME NEW opts \in Seq(Nat), NEW f, Walked(opts, f), NEW i, NEW data \in Seq(Nat),
           OptionAt(opts, i, ClientId, data),
           NEW after, after = i + 2 + Len(data)
    PROVE  f[i] = f[after]
  <1>1. /\ i \in 1 .. Len(opts) /\ i + 1 <= Len(opts) /\ i + 1 + opts[i + 1] <= Len(opts)
        /\ opts[i] = ClientId /\ i + 2 + opts[i + 1] = after
    BY DEF OptionAt
  <1>2. f[i] = f[i + 2 + opts[i + 1]]
    BY <1>1, Skips
  <1>3. QED
    BY <1>1, <1>2

\* The data of a name, maybe with its NUL, comes to the name.
LEMMA NameData ==
    ASSUME NEW n \in Names, NEW data \in {n, n \o <<Pad>>}
    PROVE  /\ data \in Seq(Nat)
           /\ Valid(Stripped(data)) = n
  <1>1. n \in Seq(Nat) /\ Len(n) = 2 /\ n[1] \in Letters /\ n[2] \in Letters /\ n[1] # Pad /\ n[2] # Pad
    BY NameShape
  <1>2. <<Pad>> \in Seq(Nat) /\ Len(<<Pad>>) = 1 /\ <<Pad>>[1] = Pad
    BY Constants
  <1>3. /\ data \in Seq(Nat) /\ Len(data) \in {2, 3} /\ data[1] = n[1] /\ data[2] = n[2]
        /\ Len(data) = 3 => data[3] = Pad
    <2>1. CASE data = n
      BY <1>1, <2>1
    <2>2. CASE data = n \o <<Pad>>
      <3> DEFINE p == <<Pad>>
      <3>1. p \in Seq(Nat) /\ Len(p) = 1 /\ p[1] = Pad
        BY <1>2
      <3> HIDE DEF p
      <3>2. data = n \o p
        BY <2>2 DEF p
      <3>3. /\ data \in Seq(Nat) /\ Len(data) = Len(n) + Len(p)
            /\ \A i \in 1 .. Len(n) : data[i] = n[i]
            /\ \A i \in 1 .. Len(p) : data[Len(n) + i] = p[i]
        BY <1>1, <3>1, <3>2, Joined
      <3>4. Len(data) = 3 /\ data[1] = n[1] /\ data[2] = n[2]
        BY <1>1, <3>1, <3>3
      <3>5. data[3] = Pad
        BY <1>1, <3>1, <3>3
      <3>6. QED
        BY <3>3, <3>4, <3>5
    <2>3. QED
      BY <2>1, <2>2
  <1> DEFINE kept == {i \in DOMAIN data : data[i] # Pad}
  <1>4. kept = {1, 2}
    BY <1>1, <1>3
  <1>5. Min(kept) = 1 /\ Max(kept) = 2
    <2>1. {1, 2} \in SUBSET Nat /\ {1, 2} # {} /\ {1, 2} \in SUBSET (0 .. 2) /\ 2 \in Nat
      OBVIOUS
    <2>2. Min({1, 2}) \in {1, 2} /\ \A k \in {1, 2} : Min({1, 2}) <= k
      BY <2>1, MinIsLeast
    <2>3. Max({1, 2}) \in {1, 2} /\ \A k \in {1, 2} : k <= Max({1, 2})
      BY <2>1, MaxIsGreatest
    <2> HIDE DEF kept
    <2>4. QED
      BY <1>4, <2>2, <2>3
  <1>6. Stripped(data) = SubSeq(data, 1, 2)
    <2> HIDE DEF kept
    <2>1. Stripped(data) = IF kept = {} THEN <<>> ELSE SubSeq(data, Min(kept), Max(kept))
      BY DEF Stripped, kept
    <2>2. QED
      BY <1>4, <1>5, <2>1
  <1>7. SubSeq(data, 1, 2) = n
    <2> DEFINE d == SubSeq(data, 1, 2)
    <2>1. 1 \in 1 .. Len(data) /\ 2 \in Nat /\ 1 <= 2 + 1 /\ 2 <= Len(data)
      BY <1>3
    <2>2. d \in Seq(Nat) /\ Len(d) = 2 - 1 + 1 /\ \A k \in 1 .. 2 - 1 + 1 : d[k] = data[1 + k - 1]
      BY <1>3, <2>1, SubSeqBytes
    <2>3. Len(d) = 2 /\ d[1] = data[1] /\ d[2] = data[2]
      BY <2>2
    <2> HIDE DEF d
    <2>4. \A k \in 1 .. Len(d) : d[k] = n[k]
      BY <1>3, <2>3
    <2>5. d = n
      BY <1>1, <2>2, <2>3, <2>4, SameBytes
    <2>6. QED
      BY <2>5 DEF d
  <1>8. Valid(n) = n
    BY <1>1 DEF Valid, ToSet
  <1>9. QED
    BY <1>3, <1>6, <1>7, <1>8

\* The bytes a layout is made of.
LEMMA Parts ==
    ASSUME NEW n \in Names, NEW data \in Seq(Nat)
    PROVE  /\ Option(HostName, data) \in Seq(Nat) /\ Len(Option(HostName, data)) = Len(data) + 2
           /\ OptionAt(Option(HostName, data), 1, HostName, data)
           /\ Decoy(n) \in Seq(Nat) /\ Len(Decoy(n)) = 6
           /\ \E x \in Seq(Nat) : Len(x) = 4 /\ OptionAt(Decoy(n), 1, ClientId, x)
  <1>1. HostName \in Nat /\ ClientId \in Nat
    BY Constants
  <1>2. /\ Option(HostName, data) \in Seq(Nat) /\ Len(Option(HostName, data)) = Len(data) + 2
        /\ OptionAt(Option(HostName, data), 1, HostName, data)
    BY <1>1, OptionBytes, OptionIs
  <1> DEFINE r == Reverse(n)
             x == Option(HostName, r)
  <1>3. r \in Seq(Nat) /\ Len(r) = 2
    BY NameShape, ReverseBytes
  <1> HIDE DEF r
  <1>4. x \in Seq(Nat) /\ Len(x) = 4
    <2>1. x \in Seq(Nat) /\ Len(x) = Len(r) + 2
      BY <1>1, <1>3, OptionBytes, Zenon
    <2>2. QED
      BY <1>3, <2>1
  <1>5. Decoy(n) = Option(ClientId, x)
    BY DEF Decoy, r
  <1> HIDE DEF x
  <1>6. OptionAt(Decoy(n), 1, ClientId, x)
    BY <1>1, <1>4, <1>5, OptionIs
  <1>7. Decoy(n) \in Seq(Nat) /\ Len(Decoy(n)) = 6
    BY DecoyBytes
  <1>8. QED
    BY <1>2, <1>4, <1>6, <1>7

LEMMA Single ==
    ASSUME NEW b \in Nat
    PROVE  <<b>> \in Seq(Nat) /\ Len(<<b>>) = 1 /\ <<b>>[1] = b
  OBVIOUS

\* A walk from byte 1 that finds data reads what it says.
LEMMA Reads ==
    ASSUME NEW opts \in Seq(Nat), NEW data \in Seq(Nat),
           \A f : Walked(opts, f) => f[1] = <<data>>
    PROVE  ParsedName(opts) = Valid(Stripped(data))
  <1>1. PICK f : /\ Walked(opts, f)
                 /\ ParsedName(opts) = IF f[1] = <<>> THEN <<>> ELSE Valid(Stripped(f[1][1]))
    BY ParsedWalks DEF Walked
  <1>2. f[1] = <<data>>
    BY <1>1
  <1>3. f[1] # <<>> /\ f[1][1] = data
    BY <1>2
  <1>4. QED
    BY <1>1, <1>3

LEMMA ReadsNone ==
    ASSUME NEW opts \in Seq(Nat), \A f : Walked(opts, f) => f[1] = <<>>
    PROVE  ParsedName(opts) = <<>>
  <1>1. PICK f : /\ Walked(opts, f)
                 /\ ParsedName(opts) = IF f[1] = <<>> THEN <<>> ELSE Valid(Stripped(f[1][1]))
    BY ParsedWalks DEF Walked
  <1>2. QED
    BY <1>1

-----------------------------------------------------------------------------
(* The layouts, one by one.                                                *)

LEMMA DecoyFirst ==
    ASSUME NEW n \in Names, NEW data \in Seq(Nat)
    PROVE  ParsedName(Decoy(n) \o Option(HostName, data) \o <<End>>) = Valid(Stripped(data))
  <1> DEFINE d == Decoy(n)
             h == Option(HostName, data)
             e == <<End>>
             opts == (d \o h) \o e
  <1>1. /\ d \in Seq(Nat) /\ Len(d) = 6
        /\ h \in Seq(Nat) /\ Len(h) = Len(data) + 2 /\ OptionAt(h, 1, HostName, data)
        /\ e \in Seq(Nat) /\ Len(e) = 1 /\ e[1] = End
    BY Parts, Single, Constants
  <1>2. PICK x \in Seq(Nat) : Len(x) = 4 /\ OptionAt(d, 1, ClientId, x)
    BY Parts
  <1> HIDE DEF d, h, e
  <1>3. /\ d \o h \in Seq(Nat) /\ Len(d \o h) = Len(data) + 8
        /\ OptionAt(d \o h, 1, ClientId, x) /\ OptionAt(d \o h, 7, HostName, data)
    <2>1. d \o h \in Seq(Nat) /\ Len(d \o h) = Len(d) + Len(h)
      BY <1>1, Joined
    <2>2. OptionAt(d \o h, 1, ClientId, x) /\ OptionAt(d \o h, Len(d) + 1, HostName, data)
      BY <1>1, <1>2, OptionStays, OptionFollows
    <2>3. QED
      BY <1>1, <2>1, <2>2
  <1> DEFINE dh == d \o h
  <1> HIDE DEF dh
  <1>4. /\ opts \in Seq(Nat) /\ Len(opts) = Len(data) + 9
        /\ OptionAt(opts, 1, ClientId, x) /\ OptionAt(opts, 7, HostName, data)
        /\ opts[Len(data) + 9] = End
    <2> DEFINE w == dh \o e
    <2>1. /\ dh \in Seq(Nat) /\ Len(dh) = Len(data) + 8
          /\ OptionAt(dh, 1, ClientId, x) /\ OptionAt(dh, 7, HostName, data)
      BY <1>3 DEF dh
    <2>2. /\ w \in Seq(Nat) /\ Len(w) = Len(dh) + Len(e)
          /\ \A k \in 1 .. Len(e) : w[Len(dh) + k] = e[k]
      BY <1>1, <2>1, Joined
    <2>3. OptionAt(w, 1, ClientId, x) /\ OptionAt(w, 7, HostName, data)
      BY <1>1, <2>1, OptionStays
    <2> HIDE DEF w
    <2>4. Len(w) = Len(data) + 9 /\ w[Len(data) + 9] = End
      BY <1>1, <2>1, <2>2
    <2>5. QED
      BY <2>2, <2>3, <2>4 DEF w, dh
  <1> HIDE DEF opts
  <1>5. ASSUME NEW f, Walked(opts, f) PROVE f[1] = <<data>>
    <2>1. f[Len(data) + 9] = <<>>
      <3>1. Len(data) + 9 \in 1 .. Len(opts) + 1
        BY <1>4
      <3>2. QED
        BY <1>4, <1>5, <3>1, Ends
    <2>2. f[7] = <<data>>
      <3>1. Len(data) + 9 = 7 + 2 + Len(data)
        OBVIOUS
      <3>2. QED
        BY <1>4, <1>5, <2>1, <3>1, FindsAt
    <2>3. f[1] = f[7]
      <3>1. 7 = 1 + 2 + Len(x)
        BY <1>2
      <3>2. QED
        BY <1>4, <1>5, <3>1, SkipsAt
    <2>4. QED
      BY <2>2, <2>3
  <1>6. QED
    BY <1>4, <1>5, Reads DEF opts, d, h, e

LEMMA PadsAround ==
    ASSUME NEW n \in Names, NEW data \in Seq(Nat)
    PROVE  ParsedName(<<Pad>> \o Option(HostName, data) \o Decoy(n) \o <<Pad, End>>) = Valid(Stripped(data))
  <1> DEFINE p == <<Pad>>
             h == Option(HostName, data)
             d == Decoy(n)
             e == <<Pad, End>>
             opts == ((p \o h) \o d) \o e
  <1>1. /\ p \in Seq(Nat) /\ Len(p) = 1 /\ p[1] = Pad
        /\ h \in Seq(Nat) /\ Len(h) = Len(data) + 2 /\ OptionAt(h, 1, HostName, data)
        /\ d \in Seq(Nat) /\ Len(d) = 6
        /\ e \in Seq(Nat) /\ Len(e) = 2 /\ e[1] = Pad
    BY Parts, Single, Constants
  <1>2. e[2] = End
    OBVIOUS
  <1>3. PICK x \in Seq(Nat) : Len(x) = 4 /\ OptionAt(d, 1, ClientId, x)
    BY Parts
  <1> HIDE DEF p, h, d, e
  <1> DEFINE ph == p \o h
  <1>4. /\ ph \in Seq(Nat) /\ Len(ph) = Len(data) + 3 /\ ph[1] = Pad
        /\ OptionAt(ph, 2, HostName, data)
    <2>1. /\ ph \in Seq(Nat) /\ Len(ph) = Len(p) + Len(h)
          /\ \A k \in 1 .. Len(p) : ph[k] = p[k]
      BY <1>1, Joined
    <2>2. OptionAt(ph, Len(p) + 1, HostName, data)
      BY <1>1, OptionFollows
    <2> HIDE DEF ph
    <2>3. QED
      BY <1>1, <2>1, <2>2
  <1> HIDE DEF ph
  <1> DEFINE phd == ph \o d
  <1>5. /\ phd \in Seq(Nat) /\ Len(phd) = Len(data) + 9 /\ phd[1] = Pad
        /\ OptionAt(phd, 2, HostName, data) /\ OptionAt(phd, Len(data) + 4, ClientId, x)
    <2>1. /\ phd \in Seq(Nat) /\ Len(phd) = Len(ph) + Len(d)
          /\ \A k \in 1 .. Len(ph) : phd[k] = ph[k]
      BY <1>1, <1>4, Joined
    <2>2. OptionAt(phd, 2, HostName, data) /\ OptionAt(phd, Len(ph) + 1, ClientId, x)
      BY <1>1, <1>3, <1>4, OptionStays, OptionFollows
    <2> HIDE DEF phd
    <2>3. Len(data) \in Nat
      OBVIOUS
    <2>4. Len(phd) = Len(data) + 9 /\ Len(ph) + 1 = Len(data) + 4 /\ 1 \in 1 .. Len(ph)
      BY <1>1, <1>4, <2>1, <2>3
    <2>5. phd[1] = Pad
      BY <1>4, <2>1, <2>4
    <2>6. QED
      BY <2>1, <2>2, <2>4, <2>5
  <1> HIDE DEF phd
  <1>6. /\ opts \in Seq(Nat) /\ Len(opts) = Len(data) + 11 /\ opts[1] = Pad
        /\ OptionAt(opts, 2, HostName, data) /\ OptionAt(opts, Len(data) + 4, ClientId, x)
        /\ opts[Len(data) + 10] = Pad /\ opts[Len(data) + 11] = End
    <2> DEFINE w == phd \o e
    <2>1. /\ w \in Seq(Nat) /\ Len(w) = Len(phd) + Len(e)
          /\ \A k \in 1 .. Len(phd) : w[k] = phd[k]
          /\ \A k \in 1 .. Len(e) : w[Len(phd) + k] = e[k]
      BY <1>1, <1>5, Joined
    <2>2. OptionAt(w, 2, HostName, data) /\ OptionAt(w, Len(data) + 4, ClientId, x)
      BY <1>1, <1>3, <1>5, OptionStays
    <2> HIDE DEF w
    <2>3. Len(data) \in Nat
      OBVIOUS
    <2>4. Len(w) = Len(data) + 11 /\ 1 \in 1 .. Len(phd)
      BY <1>1, <1>5, <2>1, <2>3
    <2>5. w[1] = Pad
      BY <1>5, <2>1, <2>4
    <2>6. w[Len(data) + 10] = Pad /\ w[Len(data) + 11] = End
      BY <1>1, <1>2, <1>5, <2>1
    <2>7. QED
      BY <2>1, <2>2, <2>4, <2>5, <2>6 DEF w, phd, ph
  <1> HIDE DEF opts
  <1>7. ASSUME NEW f, Walked(opts, f) PROVE f[1] = <<data>>
    <2>1. /\ Len(data) + 11 \in 1 .. Len(opts) + 1 /\ Len(data) + 10 \in 1 .. Len(opts)
          /\ 1 \in 1 .. Len(opts) /\ Len(data) + 10 + 1 = Len(data) + 11
          /\ Len(data) + 10 = (Len(data) + 4) + 2 + Len(x) /\ Len(data) + 4 = 2 + 2 + Len(data)
      BY <1>3, <1>6
    <2>2. f[Len(data) + 11] = <<>>
      BY <1>6, <1>7, <2>1, Ends
    <2>3. f[Len(data) + 10] = f[Len(data) + 10 + 1]
      BY <1>6, <1>7, <2>1, Pads
    <2>4. f[Len(data) + 4] = f[Len(data) + 10]
      BY <1>6, <1>7, <2>1, SkipsAt
    <2>5. f[2] = <<data>>
      <3>1. f[Len(data) + 4] = <<>>
        BY <2>1, <2>2, <2>3, <2>4
      <3>2. QED
        BY <1>6, <1>7, <2>1, <3>1, FindsAt
    <2>6. f[1] = f[1 + 1]
      BY <1>6, <1>7, <2>1, Pads
    <2>7. QED
      BY <2>5, <2>6
  <1>8. QED
    BY <1>6, <1>7, Reads DEF opts, p, h, d, e

LEMMA AfterTheEnd ==
    ASSUME NEW data \in Seq(Nat), NEW t \in Seq(Nat)
    PROVE  ParsedName(Option(HostName, data) \o <<End>> \o t) = Valid(Stripped(data))
  <1> DEFINE h == Option(HostName, data)
             e == <<End>>
             opts == (h \o e) \o t
  <1>1. /\ h \in Seq(Nat) /\ Len(h) = Len(data) + 2 /\ OptionAt(h, 1, HostName, data)
        /\ e \in Seq(Nat) /\ Len(e) = 1 /\ e[1] = End
    <2>1. HostName \in Nat /\ End \in Nat
      BY Constants
    <2>2. h \in Seq(Nat) /\ Len(h) = Len(data) + 2 /\ OptionAt(h, 1, HostName, data)
      BY <2>1, OptionBytes, OptionIs
    <2>3. e \in Seq(Nat) /\ Len(e) = 1 /\ e[1] = End
      BY <2>1, Single
    <2>4. QED
      BY <2>2, <2>3
  <1> HIDE DEF h, e
  <1> DEFINE he == h \o e
  <1>2. /\ he \in Seq(Nat) /\ Len(he) = Len(data) + 3
        /\ OptionAt(he, 1, HostName, data) /\ he[Len(data) + 3] = End
    <2>1. /\ he \in Seq(Nat) /\ Len(he) = Len(h) + Len(e)
          /\ \A k \in 1 .. Len(e) : he[Len(h) + k] = e[k]
      BY <1>1, Joined
    <2>2. OptionAt(he, 1, HostName, data)
      BY <1>1, OptionStays
    <2> HIDE DEF he
    <2>3. QED
      BY <1>1, <2>1, <2>2
  <1> HIDE DEF he
  <1>3. /\ opts \in Seq(Nat) /\ Len(opts) >= Len(data) + 3
        /\ OptionAt(opts, 1, HostName, data) /\ opts[Len(data) + 3] = End
    <2> DEFINE w == he \o t
    <2>1. /\ w \in Seq(Nat) /\ Len(w) = Len(he) + Len(t)
          /\ \A k \in 1 .. Len(he) : w[k] = he[k]
      BY <1>2, Joined
    <2>2. OptionAt(w, 1, HostName, data)
      BY <1>2, OptionStays
    <2> HIDE DEF w
    <2>3. Len(data) \in Nat /\ Len(t) \in Nat
      OBVIOUS
    <2>4. Len(w) >= Len(data) + 3 /\ Len(data) + 3 \in 1 .. Len(he)
      BY <1>2, <2>1, <2>3
    <2>5. w[Len(data) + 3] = End
      BY <1>2, <2>1, <2>4
    <2>6. QED
      BY <2>1, <2>2, <2>4, <2>5 DEF w, he
  <1> HIDE DEF opts
  <1>4. ASSUME NEW f, Walked(opts, f) PROVE f[1] = <<data>>
    <2>1. Len(data) + 3 \in 1 .. Len(opts) + 1 /\ Len(data) + 3 = 1 + 2 + Len(data)
      BY <1>3
    <2>2. f[Len(data) + 3] = <<>>
      BY <1>3, <1>4, <2>1, Ends
    <2>3. QED
      BY <1>3, <1>4, <2>1, <2>2, FindsAt
  <1>5. QED
    BY <1>3, <1>4, Reads DEF opts, h, e

\* An option without data is no name.
LEMMA Empty == Valid(Stripped(<<>>)) = <<>>
  <1>1. {i \in DOMAIN <<>> : <<>>[i] # Pad} = {}
    OBVIOUS
  <1>2. Stripped(<<>>) = <<>>
    BY <1>1, Zenon DEF Stripped
  <1>3. Valid(<<>>) = <<>>
    BY DEF Valid
  <1>4. QED
    BY <1>2, <1>3

\* A name that is not valid is none.
LEMMA Invalid == Valid(Stripped(<<Less>>)) = <<>>
  <1> DEFINE data == <<Less>>
             kept == {i \in DOMAIN data : data[i] # Pad}
  <1>1. data \in Seq(Nat) /\ Len(data) = 1 /\ data[1] = Less
    BY Constants, Single
  <1> HIDE DEF data
  <1>2. kept = {1}
    BY <1>1, Constants
  <1>3. Min(kept) = 1 /\ Max(kept) = 1
    <2>1. {1} \in SUBSET Nat /\ {1} # {} /\ {1} \in SUBSET (0 .. 1) /\ 1 \in Nat
      OBVIOUS
    <2>2. Min({1}) \in {1} /\ Max({1}) \in {1}
      BY <2>1, MinIsLeast, MaxIsGreatest
    <2> HIDE DEF kept
    <2>3. QED
      BY <1>2, <2>2
  <1>4. Stripped(data) = SubSeq(data, 1, 1)
    <2> HIDE DEF kept
    <2>1. Stripped(data) = IF kept = {} THEN <<>> ELSE SubSeq(data, Min(kept), Max(kept))
      BY DEF Stripped, kept
    <2>2. QED
      BY <1>2, <1>3, <2>1
  <1> DEFINE d == SubSeq(data, 1, 1)
  <1>5. d \in Seq(Nat) /\ Len(d) = 1 /\ d[1] = Less
    <2>1. 1 \in 1 .. Len(data) /\ 1 \in Nat /\ 1 <= 1 + 1 /\ 1 <= Len(data)
      BY <1>1
    <2>2. d \in Seq(Nat) /\ Len(d) = 1 - 1 + 1 /\ \A k \in 1 .. 1 - 1 + 1 : d[k] = data[1 + k - 1]
      BY <1>1, <2>1, SubSeqBytes
    <2> HIDE DEF d
    <2>3. QED
      BY <1>1, <2>2
  <1> HIDE DEF d
  <1>6. Less \in ToSet(d) /\ Less \notin Letters
    <2>1. Less \in ToSet(d)
      BY <1>5 DEF ToSet
    <2>2. Letters \subseteq Nat \ {Pad, Less}
      BY SnifferAssumption
    <2>3. QED
      BY <2>1, <2>2
  <1>7. Valid(d) = <<>>
    BY <1>6 DEF Valid
  <1>8. QED
    BY <1>4, <1>7 DEF data, d

LEMMA OnlyOption ==
    ASSUME NEW data \in Seq(Nat)
    PROVE  ParsedName(Option(HostName, data)) = Valid(Stripped(data))
  <1> DEFINE h == Option(HostName, data)
  <1>1. h \in Seq(Nat) /\ Len(h) = Len(data) + 2 /\ OptionAt(h, 1, HostName, data)
    <2>1. HostName \in Nat
      BY Constants
    <2>2. QED
      BY <2>1, OptionBytes, OptionIs
  <1> HIDE DEF h
  <1>2. ASSUME NEW f, Walked(h, f) PROVE f[1] = <<data>>
    <2>1. Len(data) + 3 \in 1 .. Len(h) + 1 /\ ~(Len(data) + 3 <= Len(h)) /\ Len(data) + 3 = 1 + 2 + Len(data)
      BY <1>1
    <2>2. f[Len(data) + 3] = <<>>
      BY <1>1, <1>2, <2>1, Ends
    <2>3. QED
      BY <1>1, <1>2, <2>1, <2>2, FindsAt
  <1>3. QED
    BY <1>1, <1>2, Reads DEF h

\* Of two options 12 the last one counts.
LEMMA LastOption ==
    ASSUME NEW n \in Seq(Nat), NEW z \in Seq(Nat)
    PROVE  ParsedName(Option(HostName, n) \o Option(HostName, z)) = Valid(Stripped(z))
  <1> DEFINE g == Option(HostName, n)
             h == Option(HostName, z)
             opts == g \o h
             at == Len(n) + 3
             end == at + 2 + Len(z)
  <1>1. /\ g \in Seq(Nat) /\ Len(g) = Len(n) + 2 /\ OptionAt(g, 1, HostName, n)
        /\ h \in Seq(Nat) /\ Len(h) = Len(z) + 2 /\ OptionAt(h, 1, HostName, z)
    <2>1. HostName \in Nat
      BY Constants
    <2>2. QED
      BY <2>1, OptionBytes, OptionIs
  <1> HIDE DEF g, h
  <1>2. /\ opts \in Seq(Nat) /\ Len(opts) + 1 = end
        /\ OptionAt(opts, 1, HostName, n) /\ OptionAt(opts, at, HostName, z)
    <2>1. opts \in Seq(Nat) /\ Len(opts) = Len(g) + Len(h)
      BY <1>1, Joined
    <2>2. OptionAt(opts, 1, HostName, n) /\ OptionAt(opts, Len(g) + 1, HostName, z)
      BY <1>1, OptionStays, OptionFollows
    <2> HIDE DEF opts
    <2>3. Len(g) + 1 = at /\ Len(opts) + 1 = end
      BY <1>1, <2>1
    <2>4. QED
      BY <2>1, <2>2, <2>3
  <1> HIDE DEF opts
  <1>3. ASSUME NEW f, Walked(opts, f) PROVE f[1] = <<z>>
    <2>1. end \in 1 .. Len(opts) + 1 /\ ~(end <= Len(opts)) /\ at = 1 + 2 + Len(n) /\ end = at + 2 + Len(z)
      BY <1>2
    <2> HIDE DEF at, end
    <2>2. f[end] = <<>>
      BY <1>2, <1>3, <2>1, Ends
    <2>3. f[at] = <<z>>
      <3>1. opts \in Seq(Nat) /\ OptionAt(opts, at, HostName, z) /\ end = at + 2 + Len(z)
        BY <1>2, <2>1
      <3>2. QED
        BY <1>3, <2>2, <3>1, FindsAt
    <2>4. f[at] # <<>>
      BY <2>3
    <2>5. f[1] = f[at]
      <3>1. opts \in Seq(Nat) /\ OptionAt(opts, 1, HostName, n) /\ at = 1 + 2 + Len(n)
        BY <1>2, <2>1
      <3>2. QED
        BY <1>3, <2>4, <3>1, FindsAt
    <2>6. QED
      BY <2>3, <2>5
  <1>4. QED
    BY <1>2, <1>3, Reads DEF opts, g, h

LEMMA NoName ==
    ASSUME NEW n \in Names
    PROVE  /\ ParsedName(Decoy(n) \o <<End>>) = <<>>
           /\ ParsedName(<<HostName, 3>> \o n) = <<>>
           /\ ParsedName(<<HostName>>) = <<>>
  <1>1. ParsedName(Decoy(n) \o <<End>>) = <<>>
    <2> DEFINE d == Decoy(n)
               e == <<End>>
               opts == d \o e
    <2>1. /\ d \in Seq(Nat) /\ Len(d) = 6
          /\ e \in Seq(Nat) /\ Len(e) = 1 /\ e[1] = End
      BY DecoyBytes, Single, Constants
    <2>2. PICK x \in Seq(Nat) : Len(x) = 4 /\ OptionAt(d, 1, ClientId, x)
      <3>1. <<>> \in Seq(Nat)
        OBVIOUS
      <3>2. QED
        BY <3>1, Parts
    <2> HIDE DEF d, e
    <2>3. opts \in Seq(Nat) /\ Len(opts) = 7 /\ OptionAt(opts, 1, ClientId, x) /\ opts[7] = End
      <3>1. /\ opts \in Seq(Nat) /\ Len(opts) = Len(d) + Len(e)
            /\ \A k \in 1 .. Len(e) : opts[Len(d) + k] = e[k]
        BY <2>1, Joined
      <3>2. OptionAt(opts, 1, ClientId, x)
        BY <2>1, <2>2, OptionStays
      <3> HIDE DEF opts
      <3>3. QED
        BY <2>1, <3>1, <3>2
    <2> HIDE DEF opts
    <2>4. ASSUME NEW f, Walked(opts, f) PROVE f[1] = <<>>
      <3>1. 7 \in 1 .. Len(opts) + 1 /\ 7 = 1 + 2 + Len(x)
        BY <2>2, <2>3
      <3>2. f[7] = <<>>
        BY <2>3, <2>4, <3>1, Ends
      <3>3. f[1] = f[7]
        BY <2>3, <2>4, <3>1, SkipsAt
      <3>4. QED
        BY <3>2, <3>3
    <2>5. QED
      BY <2>3, <2>4, ReadsNone DEF opts, d, e
  <1>2. ParsedName(<<HostName, 3>> \o n) = <<>>
    <2> DEFINE c == <<HostName, 3>>
               opts == c \o n
    <2>1. /\ c \in Seq(Nat) /\ Len(c) = 2 /\ c[1] = HostName /\ c[2] = 3
      BY Constants
    <2>2. n \in Seq(Nat) /\ Len(n) = 2
      BY NameShape
    <2> HIDE DEF c
    <2>3. opts \in Seq(Nat) /\ Len(opts) = 4 /\ opts[1] = HostName /\ opts[2] = 3
      <3>1. /\ opts \in Seq(Nat) /\ Len(opts) = Len(c) + Len(n)
            /\ \A k \in 1 .. Len(c) : opts[k] = c[k]
        BY <2>1, <2>2, Joined
      <3> HIDE DEF opts
      <3>2. QED
        BY <2>1, <2>2, <3>1
    <2> HIDE DEF opts
    <2>4. ASSUME NEW f, Walked(opts, f) PROVE f[1] = <<>>
      <3>1. /\ 1 \in 1 .. Len(opts) /\ opts[1] # Pad /\ 1 + 1 = 2
            /\ 1 + 1 + opts[1 + 1] > Len(opts)
        BY <2>3, Constants
      <3>2. QED
        BY <2>3, <2>4, <3>1, CutOff
    <2>5. QED
      BY <2>3, <2>4, ReadsNone DEF opts, c
  <1>3. ParsedName(<<HostName>>) = <<>>
    <2> DEFINE opts == <<HostName>>
    <2>1. opts \in Seq(Nat) /\ Len(opts) = 1 /\ opts[1] = HostName
      BY Constants, Single
    <2> HIDE DEF opts
    <2>2. ASSUME NEW f, Walked(opts, f) PROVE f[1] = <<>>
      <3>1. 1 \in 1 .. Len(opts) /\ opts[1] # Pad /\ ~(1 < Len(opts))
        BY <2>1, Constants
      <3>2. QED
        BY <2>1, <2>2, <3>1, CutOff
    <2>3. QED
      BY <2>1, <2>2, ReadsNone DEF opts
  <1>4. QED
    BY <1>1, <1>2, <1>3

\* parse_dhcp finds the name of a client in each of its layouts, and none where
\* there is none.
LEMMA ParsedRight ==
    ASSUME NEW n \in Names
    PROVE  /\ \A opts \in Layouts(n) : ParsedName(opts) = n
           /\ \A opts \in Nameless(n) : ParsedName(opts) = <<>>
  <1>1. ASSUME NEW opts \in Layouts(n) PROVE ParsedName(opts) = n
    <2> DEFINE host == {Option(HostName, n), Option(HostName, n \o <<Pad>>)}
    <2>1. ASSUME NEW h \in host
          PROVE  /\ ParsedName(Decoy(n) \o h \o <<End>>) = n
                 /\ ParsedName(<<Pad>> \o h \o Decoy(n) \o <<Pad, End>>) = n
                 /\ ParsedName(h \o <<End>> \o Option(HostName, Reverse(n))) = n
      <3>1. PICK data \in {n, n \o <<Pad>>} : h = Option(HostName, data)
        OBVIOUS
      <3>2. data \in Seq(Nat) /\ Valid(Stripped(data)) = n
        BY NameData
      <3>3. Option(HostName, Reverse(n)) \in Seq(Nat)
        <4>1. HostName \in Nat /\ Reverse(n) \in Seq(Nat)
          BY Constants, NameShape, ReverseBytes
        <4>2. QED
          BY <4>1, OptionBytes
      <3>4. QED
        BY <3>1, <3>2, <3>3, DecoyFirst, PadsAround, AfterTheEnd
    <2>2. \E h \in host : \/ opts = Decoy(n) \o h \o <<End>>
                          \/ opts = <<Pad>> \o h \o Decoy(n) \o <<Pad, End>>
                          \/ opts = h \o <<End>> \o Option(HostName, Reverse(n))
      BY Zenon DEF Layouts
    <2> HIDE DEF host
    <2>3. QED
      BY <2>1, <2>2, Zenon
  <1>2. ASSUME NEW opts \in Nameless(n) PROVE ParsedName(opts) = <<>>
    <2>1. n \in Seq(Nat) /\ <<>> \in Seq(Nat) /\ <<Less>> \in Seq(Nat)
      BY NameShape, Constants
    <2>2. ParsedName(Option(HostName, <<>>)) = <<>>
      BY <2>1, OnlyOption, Empty, Zenon
    <2>3. ParsedName(Option(HostName, n) \o Option(HostName, <<>>)) = <<>>
      BY <2>1, LastOption, Empty, Zenon
    <2>4. ParsedName(Option(HostName, <<Less>>)) = <<>>
      BY <2>1, OnlyOption, Invalid, Zenon
    <2>5. QED
      BY <2>2, <2>3, <2>4, NoName, Zenon DEF Nameless
  <1>3. QED
    BY <1>1, <1>2

-----------------------------------------------------------------------------
(* The state of the sniffer.                                               *)

\* What an entry says of machine m, which had those names, is what it was called.
Announced(m, e, names) ==
    /\ e.source = "dhcp" => e.hostname \in ToSet(names) \cup Given[m]
    /\ e.source = "nbns" => e.hostname \in {Cut(n) : n \in ToSet(names)} \cup {Workgroup}

OwnInv ==
    /\ TypeOK
    /\ \A m \in Macs : name[m] # <<>>
    /\ \A m \in Macs : Announced(m, cache[m], name[m]) /\ Announced(m, file[m], name[m])

LEMMA CurrentIsOwn ==
    ASSUME OwnInv, NEW m \in Macs
    PROVE  Current(m) \in Names /\ Current(m) \in ToSet(name[m])
  <1>1. name[m] \in Seq(Names) /\ name[m] # <<>>
    BY DEF OwnInv, TypeOK
  <1>2. Len(name[m]) \in DOMAIN name[m]
    BY <1>1
  <1>3. QED
    BY <1>1, <1>2 DEF Current, Last, ToSet

\* What a packet tells of a machine is an entry with a name it is called by,
\* which only NetBIOS cuts, or with that of its group.
LEMMA DhcpTells ==
    ASSUME OwnInv, NEW m \in Macs, Dhcp(m)
    PROVE  \E entry \in Entries : entry.source = "dhcp" /\ Announced(m, entry, name[m]) /\ Learn(m, entry)
  <1>1. PICK packet \in Heard : /\ packet[1] \in Called(m) /\ packet[2] # <<>>
                                /\ Learn(m, [hostname |-> packet[2], source |-> "dhcp"])
    BY DEF Dhcp
  <1>2. PICK n \in Names : \E opts \in Layouts(n) \cup Nameless(n) : packet = <<n, ParsedName(opts)>>
    BY Zenon DEF Heard
  <1>3. packet[1] = n /\ packet[2] \in {n, <<>>}
    BY <1>2, ParsedRight
  <1>4. packet[2] = n /\ n \in ToSet(name[m]) \cup Given[m]
    BY <1>1, <1>3, CurrentIsOwn DEF Called
  <1> DEFINE entry == [hostname |-> n, source |-> "dhcp"]
  <1>5. entry \in Entries
    BY DEF Entries
  <1>6. Announced(m, entry, name[m])
    BY <1>4 DEF Announced
  <1>7. entry.source = "dhcp" /\ Learn(m, entry)
    BY <1>1, <1>4
  <1> HIDE DEF entry
  <1>8. QED
    BY <1>5, <1>6, <1>7

LEMMA NbnsTells ==
    ASSUME OwnInv, NEW m \in Macs, Nbns(m)
    PROVE  \E entry \in Entries : entry.source = "nbns" /\ Announced(m, entry, name[m]) /\ Learn(m, entry)
  <1>1. PICK packet \in NbnsPackets(Current(m)) :
            /\ ParsedNbns(packet) # <<>>
            /\ Learn(m, [hostname |-> ParsedNbns(packet), source |-> "nbns"])
    BY DEF Nbns
  <1>2. ParsedNbns(packet) \in {Cut(Current(m)), Workgroup}
    <2>1. packet.name \in {Cut(Current(m)), Workgroup} \/ packet.opcode = 0
      BY DEF NbnsPackets
    <2>2. ParsedNbns(packet) = packet.name /\ packet.opcode # 0
      BY <1>1 DEF ParsedNbns
    <2>3. QED
      BY <2>1, <2>2
  <1> DEFINE entry == [hostname |-> ParsedNbns(packet), source |-> "nbns"]
  <1>3. entry \in Entries
    BY <1>2, CurrentIsOwn DEF Entries
  <1>4. Announced(m, entry, name[m])
    BY <1>2, CurrentIsOwn DEF Announced
  <1>5. entry.source = "nbns" /\ Learn(m, entry)
    BY <1>1, <1>2
  <1> HIDE DEF entry
  <1>6. QED
    BY <1>3, <1>4, <1>5

LEMMA LearnOwn ==
    ASSUME OwnInv, NEW m \in Macs, NEW entry \in Entries, Announced(m, entry, name[m]), Learn(m, entry),
           UNCHANGED <<name, state, kills>>
    PROVE  OwnInv'
  <1>1. cache' \in {cache, [cache EXCEPT ![m] = entry]} /\ file' \in {file, cache'}
    BY DEF Learn, Merged
  <1>2. cache \in [Macs -> Entries] /\ file \in [Macs -> Entries]
    BY DEF OwnInv, TypeOK
  <1>3. cache' \in [Macs -> Entries]
    BY <1>1, <1>2
  <1>4. \A n \in Macs : cache'[n] = cache[n] \/ (n = m /\ cache'[n] = entry)
    BY <1>1, <1>2
  <1>5. \A n \in Macs : Announced(n, cache'[n], name[n])
    BY <1>4 DEF OwnInv
  <1>6. file' \in [Macs -> Entries] /\ \A n \in Macs : Announced(n, file'[n], name[n])
    BY <1>1, <1>2, <1>3, <1>5 DEF OwnInv
  <1>7. dirty' \in BOOLEAN /\ age' \in 0 .. SaveInterval + 1
    <2>1. dirty' \in BOOLEAN
      BY Zenon DEF Learn
    <2>2. age \in 0 .. SaveInterval + 1 /\ age' \in {0, age}
      BY DEF Learn, OwnInv, TypeOK
    <2>3. QED
      BY <2>1, <2>2, SnifferAssumption
  <1>8. QED
    BY <1>3, <1>5, <1>6, <1>7 DEF OwnInv, TypeOK

LEMMA OwnStep ==
    ASSUME OwnInv, [Next]_vars
    PROVE  OwnInv'
  <1>1. ASSUME NEW m \in Macs, Dhcp(m) PROVE OwnInv'
    <2>1. UNCHANGED <<name, state, kills>>
      BY <1>1 DEF Dhcp
    <2>2. QED
      BY <1>1, <2>1, DhcpTells, LearnOwn
  <1>2. ASSUME NEW m \in Macs, Nbns(m) PROVE OwnInv'
    <2>1. UNCHANGED <<name, state, kills>>
      BY <1>2 DEF Nbns
    <2>2. QED
      BY <1>2, <2>1, NbnsTells, LearnOwn
  <1>3. ASSUME NEW m \in Macs, Rename(m) PROVE OwnInv'
    <2>1. PICK n \in Names : name' = [name EXCEPT ![m] = Append(@, n)]
      BY <1>3 DEF Rename
    <2>2. name \in [Macs -> Seq(Names)]
      BY DEF OwnInv, TypeOK
    <2> DEFINE longer == Append(name[m], n)
    <2>3. longer \in Seq(Names) /\ longer # <<>> /\ ToSet(name[m]) \subseteq ToSet(longer)
      <3>1. name[m] \in Seq(Names)
        BY <2>2
      <3>2. longer \in Seq(Names) /\ ToSet(longer) = ToSet(name[m]) \cup {n}
        BY <3>1, AppendAdds
      <3>3. longer # <<>>
        <4>1. Len(longer) = Len(name[m]) + 1 /\ Len(name[m]) \in Nat
          BY <3>1
        <4> HIDE DEF longer
        <4>2. QED
          BY <3>2, <4>1
      <3>4. QED
        BY <3>2, <3>3
    <2>4. \A k \in Macs : name'[k] = IF k = m THEN longer ELSE name[k]
      BY <2>1, <2>2
    <2> HIDE DEF longer
    <2>5. name' \in [Macs -> Seq(Names)]
      <3>1. name' = [name EXCEPT ![m] = longer]
        BY <2>1 DEF longer
      <3>2. QED
        BY <2>2, <2>3, <3>1
    <2>6. \A k \in Macs : name'[k] # <<>> /\ ToSet(name[k]) \subseteq ToSet(name'[k])
      BY <2>3, <2>4 DEF OwnInv
    <2>7. UNCHANGED <<memory, file, state, kills>>
      BY <1>3 DEF Rename
    <2>8. \A k \in Macs : Announced(k, cache'[k], name'[k]) /\ Announced(k, file'[k], name'[k])
      BY <2>6, <2>7 DEF OwnInv, Announced, memory
    <2>9. QED
      BY <2>5, <2>6, <2>7, <2>8 DEF OwnInv, TypeOK, memory
  <1>4. CASE Terminate
    BY <1>4 DEF Terminate, OwnInv, TypeOK, memory
  <1>5. CASE Exit
    <2>1. file' \in {cache, file} /\ cache' = cache /\ name' = name
      BY <1>5 DEF Exit
    <2>2. TypeOK'
      BY <1>5, <2>1 DEF Exit, OwnInv, TypeOK
    <2>3. QED
      BY <2>1, <2>2 DEF OwnInv
  <1>6. CASE Killed
    BY <1>6, SnifferAssumption DEF Killed, OwnInv, TypeOK, memory
  <1>7. CASE Restart
    <2>1. cache' = file /\ UNCHANGED <<name, file, kills>>
      BY <1>7 DEF Restart
    <2>2. dirty' \in BOOLEAN
      BY <1>7, Zenon DEF Restart
    <2>3. age' \in 0 .. SaveInterval + 1 /\ state' \in {"up", "stopping", "down"}
      BY <1>7, SnifferAssumption DEF Restart
    <2>4. QED
      BY <2>1, <2>2, <2>3 DEF OwnInv, TypeOK
  <1>8. CASE Tick
    BY <1>8, SnifferAssumption DEF Tick, OwnInv, TypeOK
  <1>9. CASE UNCHANGED vars
    BY <1>9 DEF vars, OwnInv, TypeOK, memory
  <1>10. QED
    BY <1>1, <1>2, <1>3, <1>4, <1>5, <1>6, <1>7, <1>8, <1>9 DEF Next

LEMMA OwnStart ==
    ASSUME Init
    PROVE  OwnInv
  <1>1. ASSUME NEW n \in Names PROVE <<n>> \in Seq(Names) /\ <<n>> # <<>>
    OBVIOUS
  <1>2. name \in [Macs -> Seq(Names)] /\ \A m \in Macs : name[m] # <<>>
    <2>1. \A m \in Macs : \E n \in Names : name[m] = <<n>>
      BY DEF Init
    <2>2. name \in [Macs -> {<<n>> : n \in Names}]
      BY DEF Init
    <2>3. QED
      BY <1>1, <2>1, <2>2
  <1>3. cache \in [Macs -> Entries] /\ file \in [Macs -> Entries]
    BY DEF Init, Entries
  <1>4. \A m \in Macs : Announced(m, cache[m], name[m]) /\ Announced(m, file[m], name[m])
    BY DEF Init, Announced, NoEntry
  <1>5. /\ dirty \in BOOLEAN /\ age \in 0 .. SaveInterval + 1
        /\ state \in {"up", "stopping", "down"} /\ kills \in Nat
    <2>1. dirty \in BOOLEAN
      BY Zenon DEF Init
    <2>2. age \in 0 .. SaveInterval + 1 /\ state \in {"up", "stopping", "down"} /\ kills \in Nat
      BY SnifferAssumption DEF Init
    <2>3. QED
      BY <2>1, <2>2
  <1>6. QED
    BY <1>2, <1>3, <1>4, <1>5 DEF OwnInv, TypeOK

\* The state of the sniffer keeps its type: what is in memory and in the file
\* is nothing, a whole name from DHCP or a cut one from NetBIOS.
THEOREM TypeCorrect == Spec => []TypeOK
  <1>1. OwnInv => TypeOK
    BY DEF OwnInv
  <1>2. QED
    BY <1>1, OwnStart, OwnStep, PTL DEF Spec

\* Every name the interface reads is one by which its machine or a DHCP server
\* has called it, whatever surrounds it in the packets, or that of the
\* workgroup; only NetBIOS names are cut.
THEOREM NameTheorem == Spec => []NameIsOwn
  <1>1. OwnInv => NameIsOwn
    BY DEF OwnInv, NameIsOwn, Announced
  <1>2. QED
    BY <1>1, OwnStart, OwnStep, PTL DEF Spec

-----------------------------------------------------------------------------
(* A full name stays.                                                      *)

\* The memory never knows less than the file: it begins with the file, and a
\* name from NetBIOS does not replace one from DHCP in it.
MemoryInv ==
    /\ cache = [m \in Macs |-> cache[m]]
    /\ \A m \in Macs : file[m].source = "dhcp" => cache[m].source = "dhcp"

LEMMA MergedKeeps ==
    ASSUME MemoryInv, NEW m \in Macs, NEW entry, entry.source \in {"dhcp", "nbns"},
           NEW n \in Macs, cache[n].source = "dhcp"
    PROVE  Merged(m, entry)[n].source = "dhcp"
  BY DEF MemoryInv, Merged

LEMMA MergedShape ==
    ASSUME MemoryInv, NEW m \in Macs, NEW entry
    PROVE  Merged(m, entry) = [n \in Macs |-> Merged(m, entry)[n]]
  BY DEF MemoryInv, Merged

LEMMA LearnKeeps ==
    ASSUME MemoryInv, NEW m \in Macs, NEW entry, entry.source \in {"dhcp", "nbns"}, Learn(m, entry)
    PROVE  MemoryInv' /\ \A n \in Macs : file[n].source = "dhcp" => file'[n].source = "dhcp"
  <1>1. cache' = Merged(m, entry) /\ file' \in {file, cache'}
    BY DEF Learn
  <1>2. \A n \in Macs : cache[n].source = "dhcp" => cache'[n].source = "dhcp"
    BY <1>1, MergedKeeps
  <1>3. cache' = [n \in Macs |-> cache'[n]]
    BY <1>1, MergedShape
  <1>4. \A n \in Macs : file[n].source = "dhcp" => cache'[n].source = "dhcp"
    BY <1>2 DEF MemoryInv
  <1>5. QED
    BY <1>1, <1>3, <1>4 DEF MemoryInv

LEMMA SnifferStep ==
    ASSUME MemoryInv, file = [m \in Macs |-> file[m]], [Next]_vars
    PROVE  /\ MemoryInv' /\ file' = [m \in Macs |-> file'[m]]
           /\ \A m \in Macs : file[m].source = "dhcp" => file'[m].source = "dhcp"
  <1>1. ASSUME NEW m \in Macs, Dhcp(m) \/ Nbns(m)
        PROVE  /\ MemoryInv' /\ file' = [n \in Macs |-> file'[n]]
               /\ \A n \in Macs : file[n].source = "dhcp" => file'[n].source = "dhcp"
    <2>1. PICK entry : entry.source \in {"dhcp", "nbns"} /\ Learn(m, entry)
      <3>1. CASE Dhcp(m)
        <4>1. PICK packet : Learn(m, [hostname |-> packet[2], source |-> "dhcp"])
          BY <3>1 DEF Dhcp
        <4>2. QED
          BY <4>1
      <3>2. CASE Nbns(m)
        <4>1. PICK packet : Learn(m, [hostname |-> ParsedNbns(packet), source |-> "nbns"])
          BY <3>2 DEF Nbns
        <4>2. QED
          BY <4>1
      <3>3. QED
        BY <1>1, <3>1, <3>2
    <2>2. file' \in {file, cache'}
      BY <2>1 DEF Learn
    <2>3. MemoryInv' /\ \A n \in Macs : file[n].source = "dhcp" => file'[n].source = "dhcp"
      BY <2>1, LearnKeeps
    <2>4. QED
      BY <2>2, <2>3 DEF MemoryInv
  <1>2. CASE Exit
    BY <1>2 DEF Exit, MemoryInv
  <1>3. CASE Restart
    BY <1>3 DEF Restart, MemoryInv
  <1>4. CASE UNCHANGED <<cache, file>>
    BY <1>4 DEF MemoryInv
  <1>5. QED
    BY <1>1, <1>2, <1>3, <1>4 DEF Next, Rename, Terminate, Killed, Tick, memory, vars

\* The interface never sees a machine's full name give way to a cut one or to
\* none, whatever is sent, saved, killed and started again.
THEOREM FullNameTheorem == Spec => FullNameStays
  <1> DEFINE Inv == MemoryInv /\ file = [m \in Macs |-> file[m]]
  <1>1. Init => Inv
    BY DEF Init, MemoryInv
  <1>2. Inv /\ [Next]_vars => Inv'
    BY SnifferStep
  <1>3. Inv /\ [Next]_vars => [\A m \in Macs : file[m].source = "dhcp" => file'[m].source = "dhcp"]_vars
    BY SnifferStep
  <1>4. QED
    BY <1>1, <1>2, <1>3, PTL DEF Spec, FullNameStays
=============================================================================
