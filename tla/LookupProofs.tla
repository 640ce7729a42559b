---------------------------- MODULE LookupProofs ----------------------------
(***************************************************************************)
(* The invariants of Lookup, for whatever the files, the environment and   *)
(* the servers say; and the addresses of InetAddr.                         *)
(*                                                                         *)
(* First come the entries of a file and the other databases, then what     *)
(* each part of a host lookup returns, from the loops inside outwards      *)
(* (getanswer(), the hosts file, the services in their order), then the    *)
(* invariant of the calls, and the theorems at the end.                    *)
(***************************************************************************)
EXTENDS Lookup, Iterations, SequenceTheorems, FiniteSetTheorems

-----------------------------------------------------------------------------
(***************************************************************************)
(* Lines of a file.                                                        *)
(***************************************************************************)
LEMMA LeastIs ==
    ASSUME NEW I \in SUBSET Nat, I # {}
    PROVE  Least(I) \in I /\ \A j \in I : Least(I) <= j
<1> DEFINE U == Nat \cap I
<1>1. PICK m \in U : \A j \in U : ~(<<j, m>> \in OpToRel(<, Nat))
  <2>1. U # {} /\ U \subseteq Nat
    OBVIOUS
  <2> HIDE DEF U
  <2> QED BY <2>1, WFMin, NatLessThanWellFounded, Zenon
<1>2. \A j \in U : ~(j < m)
  BY <1>1, LessThan
<1>3. m \in I /\ \A j \in I : m <= j
  BY <1>2
<1> QED BY <1>3 DEF Least

\* The entries between two places of a file, and those behind a place.
Between(all, b, p) == {i \in all : b < i /\ i <= p}
Behind(all, p) == {i \in all : p < i}

\* What a stream can have read, and what is ahead of it.
LEMMA AheadIs ==
    ASSUME NEW lines, lines # Missing => IsSequence(lines), NEW pos \in Nat
    PROVE  /\ Ahead(lines, Rewound(lines)) \in SUBSET (Nat \ {0})
           /\ lines # Missing => Len(lines) \in Nat
           /\ Ahead(lines, [open |-> lines # Missing, pos |-> pos]) =
                 Behind(Ahead(lines, Rewound(lines)), pos)
<1>1. lines # Missing => Len(lines) \in Nat
  BY DEF IsSequence
<1> QED BY <1>1 DEF Ahead, Rewound, Behind

\* The entries between b and p, once the stream is read on from p.
LEMMA NoneBefore ==
    ASSUME NEW all \in SUBSET (Nat \ {0}) PROVE Between(all, 0, 0) = {}
<1>1. \A i \in all : ~(0 < i /\ i <= 0)
  OBVIOUS
<1> QED BY <1>1 DEF Between

LEMMA NoneAhead ==
    ASSUME NEW all \in SUBSET Nat, NEW b \in Nat, NEW p \in Nat, NEW end \in Nat,
           p <= end, Behind(all, p) = {}
    PROVE  Between(all, b, p) = Between(all, b, end) /\ Between(all, b, p) = Behind(all, b)
<1>1. \A i \in all : i <= p /\ i <= end
  BY DEF Behind
<1> QED BY <1>1 DEF Between, Behind

LEMMA OneAhead ==
    ASSUME NEW all \in SUBSET Nat, NEW b \in Nat, NEW p \in Nat, b <= p,
           NEW end \in Behind(all, p), \A i \in Behind(all, p) : end <= i
    PROVE  Between(all, b, p) \cup {end} = Between(all, b, end)
<1>1. end \in all /\ p < end /\ \A i \in all : p < i => end <= i
  BY DEF Behind
<1>2. \A i \in all : (b < i /\ i <= end) <=> (b < i /\ i <= p) \/ i = end
  BY <1>1
<1> QED BY <1>1, <1>2 DEF Between

-----------------------------------------------------------------------------
(***************************************************************************)
(* The other databases.                                                    *)
(***************************************************************************)
\* A stream that is open is in a file, and the entries seen are those between
\* the place where the iteration began and the place it has come to.
End == Len(NetDb!Lines)

Place(f, b, saw) ==
    f.open =>
       /\ NetDb!Lines # Missing
       /\ f = [open |-> TRUE, pos |-> f.pos]
       /\ f.pos \in Nat /\ b \in Nat /\ b <= f.pos /\ f.pos <= End
       /\ saw = Between(NetDb!AllEntries, b, f.pos)

Stream ==
    /\ kind \in Kind
    /\ stayopen \in BOOLEAN
    /\ Place(at, began, seen)

\* NetDb reads its files as the host lookups read theirs.
LEMMA SameFiles ==
    /\ NetDb!Shut = Shut
    /\ \A lines : NetDb!Rewound(lines) = Rewound(lines)
    /\ \A lines, f : NetDb!Opened(lines, f) = Opened(lines, f)
    /\ \A lines, f : NetDb!Ahead(lines, f) = Ahead(lines, f)
    /\ \A I : NetDb!Least(I) = Least(I) /\ NetDb!Read(I) = Read(I)
    /\ \A lines, f, I : NetDb!ReadTo(lines, f, I) = ReadTo(lines, f, I)
BY DEF NetDb!Shut, NetDb!Rewound, NetDb!Opened, NetDb!Ahead, NetDb!Least, NetDb!Read,
       NetDb!ReadTo, Shut, Rewound, Opened, Ahead, Least, Read, ReadTo

LEMMA EntriesOfFile ==
    ASSUME kind \in Kind
    PROVE  LET lines == NetDb!Lines
               all == NetDb!AllEntries
           IN /\ all \in SUBSET (Nat \ {0})
              /\ lines # Missing => End \in Nat /\ \A i \in all : i <= End
              /\ lines = Missing => all = {}
              /\ \A p \in Nat : Ahead(lines, [open |-> lines # Missing, pos |-> p]) =
                                  Behind(all, p)
<1> DEFINE lines == NetDb!Lines
           all == NetDb!AllEntries
<1>1. lines # Missing => IsSequence(lines)
  BY FileOfAssumption DEF NetDb!Lines
<1>2. all = Ahead(lines, Rewound(lines))
  BY SameFiles DEF NetDb!AllEntries
<1> HIDE DEF lines, all
<1>3. all \in SUBSET (Nat \ {0}) /\ (lines # Missing => Len(lines) \in Nat)
  BY <1>1, <1>2, AheadIs
<1>4. \A p \in Nat : Ahead(lines, [open |-> lines # Missing, pos |-> p]) = Behind(all, p)
  BY <1>1, <1>2, AheadIs
<1>5. CASE lines = Missing
  <2>1. all = {}
    BY <1>2, <1>5 DEF Ahead, Rewound
  <2> QED BY <1>3, <1>4, <1>5, <2>1 DEF lines, all
<1>6. CASE lines # Missing
  <2>1. all = {i \in 1 .. Len(lines) : lines[i].kind = "entry"}
    <3>1. 0 + 1 = 1
      OBVIOUS
    <3> QED BY <1>2, <1>6, <3>1 DEF Ahead, Rewound
  <2>2. \A i \in all : i <= Len(lines)
    BY <1>3, <1>6, <2>1
  <2> QED BY <1>3, <1>4, <1>6, <2>2 DEF lines, all, End
<1> QED BY <1>5, <1>6

\* A stream that is opened or rewound, and one that is read on.
LEMMA FromStart ==
    ASSUME kind \in Kind
    PROVE  Place(Rewound(NetDb!Lines), 0, {})
<1>1. Between(NetDb!AllEntries, 0, 0) = {}
  BY EntriesOfFile, NoneBefore
<1>2. NetDb!Lines # Missing => End \in Nat
  BY EntriesOfFile
<1>3. CASE NetDb!Lines = Missing
  BY <1>3 DEF Place, Rewound
<1>4. CASE NetDb!Lines # Missing
  <2>1. Rewound(NetDb!Lines) = [open |-> TRUE, pos |-> 0]
    BY <1>4 DEF Rewound
  <2> QED BY <1>1, <1>2, <1>4, <2>1 DEF Place
<1> QED BY <1>3, <1>4

LEMMA PlaceAt ==
    ASSUME NetDb!Lines # Missing, NEW p \in Nat, NEW b \in Nat, b <= p, p <= End
    PROVE  Place([open |-> TRUE, pos |-> p], b, Between(NetDb!AllEntries, b, p))
<1> DEFINE f == [open |-> TRUE, pos |-> p]
<1>1. f.open /\ f.pos = p
  OBVIOUS
<1> HIDE DEF f
<1>2. f = [open |-> TRUE, pos |-> f.pos]
  BY <1>1 DEF f
<1>3. Place(f, b, Between(NetDb!AllEntries, b, p))
  BY <1>1, <1>2 DEF Place
<1> QED BY <1>3 DEF f

LEMMA ReadOn ==
    ASSUME kind \in Kind, NEW f, NEW b, NEW saw, Place(f, b, saw), f.open,
           NEW I, I = Ahead(NetDb!Lines, f)
    PROVE  /\ Place(ReadTo(NetDb!Lines, f, I), b, saw \cup ({Read(I)} \ {0}))
           /\ Read(I) = 0 => saw = Behind(NetDb!AllEntries, b)
<1> DEFINE lines == NetDb!Lines
           all == NetDb!AllEntries
           p == f.pos
<1>1. /\ lines # Missing /\ f = [open |-> TRUE, pos |-> p]
      /\ p \in Nat /\ b \in Nat /\ b <= p /\ p <= End /\ saw = Between(all, b, p)
  BY DEF Place
<1>2. /\ all \in SUBSET (Nat \ {0}) /\ \A i \in all : i <= End
      /\ End \in Nat
  BY <1>1, EntriesOfFile
<1>3. I = Behind(all, p)
  <2>1. Ahead(lines, [open |-> lines # Missing, pos |-> p]) = Behind(all, p)
    BY <1>1, EntriesOfFile
  <2>2. f = [open |-> lines # Missing, pos |-> p]
    BY <1>1
  <2> HIDE DEF all, p
  <2> QED BY <2>1, <2>2
<1> HIDE DEF lines, all, p
<1>4. CASE I = {}
  <2>1. saw = Between(all, b, End) /\ saw = Behind(all, b)
    <3>1. all \in SUBSET Nat /\ Behind(all, p) = {}
      BY <1>2, <1>3, <1>4
    <3>2. Between(all, b, p) = Between(all, b, End) /\ Between(all, b, p) = Behind(all, b)
      BY <1>1, <1>2, <3>1, NoneAhead
    <3> QED BY <1>1, <3>2
  <2>2. ReadTo(lines, f, I) = [open |-> TRUE, pos |-> End] /\ Read(I) = 0
    BY <1>1, <1>4 DEF ReadTo, Read, End, lines
  <2>3. saw \cup ({Read(I)} \ {0}) = saw
    BY <2>2
  <2>4. b <= End
    BY <1>1, <1>2
  <2>5. Place([open |-> TRUE, pos |-> End], b, Between(all, b, End))
    BY <1>1, <1>2, <2>4, PlaceAt DEF lines, all
  <2> QED BY <2>1, <2>2, <2>3, <2>5 DEF lines, all
<1>5. CASE I # {}
  <2> DEFINE end == Least(I)
  <2>1. I \in SUBSET Nat
    BY <1>2, <1>3 DEF Behind
  <2>2. end \in I /\ \A j \in I : end <= j
    BY <1>5, <2>1, LeastIs
  <2>3. ReadTo(lines, f, I) = [open |-> TRUE, pos |-> end] /\ Read(I) = end
    BY <1>1, <1>5 DEF ReadTo, Read
  <2> HIDE DEF end
  <2>4. end \in all /\ p < end
    BY <1>3, <2>2 DEF Behind
  <2>5. end # 0 /\ end \in Nat /\ end <= End /\ b <= end
    BY <1>1, <1>2, <2>4
  <2>6. saw \cup {end} = Between(all, b, end)
    BY <1>1, <1>2, <1>3, <2>2, OneAhead
  <2>7. saw \cup ({Read(I)} \ {0}) = saw \cup {end} /\ Read(I) # 0
    BY <2>3, <2>5
  <2>8. Place([open |-> TRUE, pos |-> end], b, Between(all, b, end))
    BY <1>1, <2>5, PlaceAt DEF lines, all
  <2> QED BY <2>3, <2>6, <2>7, <2>8 DEF lines, all
<1> QED BY <1>4, <1>5

\* A stream that a lookup leaves, where a further iteration begins.
LEMMA PlaceRead ==
    ASSUME kind \in Kind, NEW sought,
           NEW f, f = ReadTo(NetDb!Lines, Rewound(NetDb!Lines),
                             sought \cap Ahead(NetDb!Lines, Rewound(NetDb!Lines)))
    PROVE  Place(f, f.pos, {})
<1> DEFINE lines == NetDb!Lines
           I == sought \cap Ahead(lines, Rewound(lines))
<1> SUFFICES ASSUME lines # Missing PROVE Place(f, f.pos, {})
  <2>1. lines = Missing => ~f.open
    BY DEF ReadTo, Rewound
  <2> QED BY <2>1 DEF Place
<1> DEFINE p == IF I = {} THEN End ELSE Least(I)
<1>1. f = [open |-> TRUE, pos |-> p]
  <2>1. Rewound(lines) = [open |-> TRUE, pos |-> 0]
    BY DEF Rewound
  <2>2. f = ReadTo(lines, [open |-> TRUE, pos |-> 0], I) /\ End = Len(lines)
    BY <2>1 DEF End
  <2> HIDE DEF I, lines
  <2> QED BY <2>2 DEF ReadTo
<1>2. p \in Nat /\ p <= End
  <2>1. /\ NetDb!AllEntries \in SUBSET Nat /\ \A i \in NetDb!AllEntries : i <= End
        /\ End \in Nat
    BY EntriesOfFile
  <2>2. I \in SUBSET NetDb!AllEntries
    BY SameFiles DEF NetDb!AllEntries
  <2> HIDE DEF I
  <2>3. I # {} => Least(I) \in I
    BY <2>1, <2>2, LeastIs
  <2>4. CASE I = {}
    BY <2>1, <2>4
  <2>5. CASE I # {}
    BY <2>1, <2>2, <2>3, <2>5
  <2> QED BY <2>4, <2>5
<1> HIDE DEF p
<1>3. Between(NetDb!AllEntries, p, p) = {}
  <2>1. \A i \in NetDb!AllEntries : ~(p < i /\ i <= p)
    <3>1. NetDb!AllEntries \in SUBSET Nat
      BY EntriesOfFile
    <3> QED BY <1>2, <3>1
  <2> QED BY <2>1 DEF Between
<1>4. p <= p
  BY <1>2
<1> QED BY <1>1, <1>2, <1>3, <1>4, PlaceAt

\* A number is found unless no short holds it.
LEMMA NumbersFound ==
    ASSUME kind \in Kind, NEW i \in NetDb!AllEntries, NEW key \in Key
    PROVE  NetDb!Number(NetDb!Lines[i]) = key <=>
              ~NetDb!TooLarge(key) /\ key = NetDb!Lines[i].key
<1> DEFINE lines == NetDb!Lines
<1>1. CASE kind = Networks
  BY <1>1 DEF NetDb!Number, NetDb!TooLarge
<1>2. CASE kind # Networks
  <2>1. lines = FileOf[kind]
    BY DEF NetDb!Lines
  <2>2. i \in Ahead(lines, Rewound(lines))
    BY SameFiles DEF NetDb!AllEntries
  <2> HIDE DEF lines
  <2>3. lines # Missing /\ i \in DOMAIN lines /\ lines[i].kind = "entry"
    <3>1. lines # Missing /\ i \in 0 + 1 .. Len(lines) /\ lines[i].kind = "entry"
      BY <2>2 DEF Ahead, Rewound
    <3>2. IsSequence(lines)
      BY <2>1, <3>1, FileOfAssumption
    <3>3. DOMAIN lines = 1 .. Len(lines)
      BY <3>2 DEF IsSequence
    <3> QED BY <3>1, <3>3
  <2> DEFINE m == lines[i].key
  <2>4. m \in Nat /\ m < 65536 /\ key \in Nat
    BY <1>2, <2>1, <2>3, NumbersAssumption
  <2> HIDE DEF m
  <2>5. NetDb!AsShort(m) = key <=> ~(key >= 32768) /\ key = m
    BY <2>4 DEF NetDb!AsShort
  <2> QED BY <1>2, <2>5 DEF NetDb!Number, NetDb!TooLarge, lines, m
<1> QED BY <1>1, <1>2

LEMMA StreamKept == Stream /\ NetDb!NetDbNext =>
                       Stream' /\ LookupFindsFirst' /\ IterationComplete'
<1> SUFFICES ASSUME Stream, NetDb!NetDbNext
             PROVE  Stream' /\ LookupFindsFirst' /\ IterationComplete'
  OBVIOUS
<1> DEFINE lines == NetDb!Lines
           all == NetDb!AllEntries
<1>1. kind \in Kind /\ kind' = kind /\ stayopen \in BOOLEAN
  BY DEF NetDb!NetDbNext, NetDb!setent, NetDb!endent, NetDb!getent,
         NetDb!getbyname, NetDb!getbykey, NetDb!Lookup, Stream
<1>2. lines' = lines /\ all' = all /\ End' = End
  BY <1>1 DEF NetDb!Lines, NetDb!AllEntries, End
<1>3. ASSUME stayopen' \in BOOLEAN, Place(at', began', seen') PROVE Stream'
  BY <1>1, <1>2, <1>3 DEF Stream, Place
<1> USE DEF LookupFindsFirst, IterationComplete,
            NetDb!LookupFindsFirst, NetDb!IterationComplete, NetDb!NoCall, NetDb!IsLookup
<1>4. ASSUME NEW keep \in BOOLEAN, NetDb!setent(keep)
      PROVE  Stream' /\ LookupFindsFirst' /\ IterationComplete'
  <2>1. /\ at' = Rewound(lines) /\ began' = 0 /\ seen' = {}
        /\ stayopen' = (stayopen \/ keep) /\ found' = NetDb!NoCall
    BY <1>4, SameFiles DEF NetDb!setent, NetDb!SetStream
  <2>2. Stream'
    BY <1>1, <1>3, <2>1, FromStart
  <2> QED BY <2>1, <2>2
<1>5. CASE NetDb!endent
  <2>1. at' = Shut /\ stayopen' = FALSE /\ found' = NetDb!NoCall
    BY <1>5, SameFiles DEF NetDb!endent, NetDb!Ended
  <2>2. Place(at', began', seen')
    BY <2>1 DEF Place, Shut
  <2> QED BY <1>3, <2>1, <2>2
<1>6. CASE NetDb!getent
  <2> DEFINE f == Opened(lines, at)
             I == Ahead(lines, f)
             b == IF at.open THEN began ELSE 0
             had == IF at.open THEN seen ELSE {}
  <2>1. /\ at' = ReadTo(lines, f, I) /\ stayopen' = stayopen
        /\ began' = b /\ seen' = had \cup ({Read(I)} \ {0})
        /\ found' = [NetDb!NoCall EXCEPT !.call = "getent", !.rv = Read(I)]
    BY <1>6, SameFiles DEF NetDb!getent, NetDb!Entries
  <2>2. Place(f, b, had)
    BY <1>1, FromStart DEF Stream, Opened
  <2> HIDE DEF f, I, b, had
  <2>3. CASE f.open
    <3>1. /\ Place(at', began', seen')
          /\ Read(I) = 0 => had = Behind(all, b)
      BY <1>1, <2>1, <2>2, <2>3, ReadOn DEF I
    <3>2. IterationComplete'
      BY <1>2, <2>1, <3>1 DEF Behind
    <3> QED BY <1>1, <1>3, <2>1, <3>1, <3>2
  <2>4. CASE ~f.open
    <3>1. at' = f /\ I = {} /\ Read(I) = 0
      BY <2>1, <2>4 DEF ReadTo, I, Ahead, Read
    <3>2. had = {} /\ all = {}
      <4>1. lines = Missing
        BY <2>4 DEF f, Opened, Rewound
      <4> QED BY <1>1, <2>4, <4>1, EntriesOfFile DEF had, f, Opened
    <3> QED BY <1>1, <1>2, <1>3, <2>1, <2>2, <2>4, <3>1, <3>2 DEF Place
  <2> QED BY <2>3, <2>4
<1>7. ASSUME NEW fn \in {"byname", "bykey"}, NEW arg, NEW proto, NEW sought,
             NetDb!Lookup(fn, arg, proto, sought), sought \subseteq all
      PROVE  /\ Stream' /\ IterationComplete'
             /\ found' = [call |-> fn, arg |-> arg, proto |-> proto, rv |-> Read(sought)]
  <2> DEFINE f == Rewound(lines)
             I == sought \cap Ahead(lines, f)
  <2>1. /\ stayopen => at' = ReadTo(lines, f, I) /\ stayopen' = stayopen
        /\ ~stayopen => at' = Shut /\ stayopen' = FALSE
        /\ began' = at'.pos /\ seen' = {}
        /\ found' = [call |-> fn, arg |-> arg, proto |-> proto, rv |-> Read(I)]
    BY <1>7, SameFiles DEF NetDb!Lookup, NetDb!SetStream, NetDb!Entries, NetDb!Ended
  <2>2. I = sought
    BY <1>7, SameFiles DEF NetDb!AllEntries
  <2> HIDE DEF f, I
  <2>3. CASE ~stayopen
    <3>1. Place(at', began', seen')
      BY <2>1, <2>3 DEF Place, Shut
    <3> QED BY <1>3, <1>7, <2>1, <2>2, <2>3, <3>1, SameFiles
  <2>4. CASE stayopen
    <3>1. Place(at', began', seen')
      BY <1>1, <2>1, <2>4, PlaceRead DEF I, f
    <3> QED BY <1>1, <1>3, <1>7, <2>1, <2>2, <2>4, <3>1, SameFiles
  <2> QED BY <2>3, <2>4
<1>8. ASSUME NEW name \in Key \cup Alias, NEW proto \in Proto \cup {AnyProto},
             NetDb!getbyname(name, proto)
      PROVE  Stream' /\ LookupFindsFirst' /\ IterationComplete'
  <2> DEFINE sought == {i \in all : /\ name \in NetDb!Names(lines[i])
                                   /\ NetDb!OfProto(lines[i], proto)}
  <2>1. NetDb!Lookup("byname", name, proto, sought) /\ sought \subseteq all
    BY <1>8 DEF NetDb!getbyname
  <2>2. /\ Stream' /\ IterationComplete'
        /\ found' = [call |-> "byname", arg |-> name, proto |-> proto, rv |-> Read(sought)]
    <3> HIDE DEF sought
    <3> QED BY <1>7, <2>1
  <2>3. \A line : NetDb!Matches(line)' <=>
                    name \in NetDb!Names(line) /\ NetDb!OfProto(line, proto)
    BY <1>1, <2>2 DEF NetDb!Matches, NetDb!Names, NetDb!OfProto
  <2>4. {i \in all : NetDb!Matches(lines[i])}' = sought
    BY <1>2, <2>3
  <2>5. found'.call = "byname" /\ found'.rv = Read(sought)
    BY <2>2
  <2> HIDE DEF sought
  <2>6. LookupFindsFirst'
    BY <2>4, <2>5, SameFiles
  <2> QED BY <2>2, <2>6
<1>9. ASSUME NEW key \in Key, NEW proto \in Proto \cup {AnyProto},
             NetDb!getbykey(key, proto)
      PROVE  Stream' /\ LookupFindsFirst' /\ IterationComplete'
  <2> DEFINE sought == {i \in all : /\ NetDb!Number(lines[i]) = key
                                   /\ NetDb!OfProto(lines[i], proto)}
  <2>1. NetDb!Lookup("bykey", key, proto, sought) /\ sought \subseteq all
    BY <1>9 DEF NetDb!getbykey
  <2>2. /\ Stream' /\ IterationComplete'
        /\ found' = [call |-> "bykey", arg |-> key, proto |-> proto, rv |-> Read(sought)]
    <3> HIDE DEF sought
    <3> QED BY <1>7, <2>1
  <2>3. \A line : NetDb!Matches(line)' <=> key = line.key /\ NetDb!OfProto(line, proto)
    BY <1>1, <2>2 DEF NetDb!Matches, NetDb!OfProto
  <2>4. sought = IF NetDb!TooLarge(key) THEN {} ELSE {i \in all : NetDb!Matches(lines[i])}'
    <3>1. \A i \in all : NetDb!Number(lines[i]) = key <=>
                            ~NetDb!TooLarge(key) /\ key = lines[i].key
      BY <1>1, NumbersFound
    <3> QED BY <1>2, <2>3, <3>1
  <2>5. /\ found'.call = "bykey" /\ found'.arg = key /\ found'.rv = Read(sought)
        /\ NetDb!TooLarge(key)' = NetDb!TooLarge(key)
    BY <1>1, <2>2 DEF NetDb!TooLarge
  <2> HIDE DEF sought
  <2>6. LookupFindsFirst'
    <3>1. NetDb!Read({}) = 0
      BY DEF NetDb!Read
    <3> QED BY <2>4, <2>5, <3>1, SameFiles
  <2> QED BY <2>2, <2>6
<1> QED BY <1>4, <1>5, <1>6, <1>8, <1>9 DEF NetDb!NetDbNext

LEMMA OpenKept == OpenAsAsked /\ NetDb!NetDbNext => OpenAsAsked'
<1> SUFFICES ASSUME OpenAsAsked, NetDb!NetDbNext PROVE OpenAsAsked'
  OBVIOUS
<1> DEFINE lines == NetDb!Lines
           Open(f, asked) == asked /\ lines # Missing => f.open
<1>1. lines' = lines
  BY DEF NetDb!NetDbNext, NetDb!setent, NetDb!endent, NetDb!getent,
         NetDb!getbyname, NetDb!getbykey, NetDb!Lookup, NetDb!Lines
<1>2. /\ Open(at, stayopen)
      /\ Open(Rewound(lines), TRUE)
      /\ \A f, I : Open(f, stayopen) => Open(ReadTo(lines, f, I), stayopen)
  <2>1. Open(at, stayopen)
    BY DEF OpenAsAsked, NetDb!OpenAsAsked
  <2>2. Open(Rewound(lines), TRUE)
    BY DEF Rewound
  <2> HIDE DEF lines
  <2>3. ASSUME NEW f, NEW I, Open(f, stayopen) PROVE Open(ReadTo(lines, f, I), stayopen)
    <3>1. CASE ~f.open
      BY <2>3, <3>1 DEF ReadTo
    <3>2. CASE f.open
      BY <2>3, <3>2 DEF ReadTo
    <3> QED BY <3>1, <3>2
  <2> QED BY <2>1, <2>2, <2>3
<1> SUFFICES Open(at', stayopen') /\ (NetDb!IsLookup' /\ ~stayopen' => ~at'.open)
  BY <1>1 DEF OpenAsAsked, NetDb!OpenAsAsked
<1> HIDE DEF lines
<1>3. ASSUME NEW keep \in BOOLEAN, NetDb!setent(keep)
      PROVE  Open(at', stayopen') /\ ~NetDb!IsLookup'
  BY <1>2, <1>3, SameFiles DEF NetDb!setent, NetDb!SetStream, NetDb!NoCall, NetDb!IsLookup, lines
<1>4. CASE NetDb!endent
  BY <1>4 DEF NetDb!endent, NetDb!Ended, NetDb!NoCall, NetDb!IsLookup
<1>5. CASE NetDb!getent
  <2>1. /\ \E I : at' = ReadTo(lines, Opened(lines, at), I)
        /\ stayopen' = stayopen /\ ~NetDb!IsLookup'
    BY <1>5, SameFiles DEF NetDb!getent, NetDb!NoCall, NetDb!IsLookup, lines
  <2>2. Open(Opened(lines, at), stayopen)
    BY <1>2 DEF Opened
  <2> QED BY <1>2, <2>1, <2>2
<1>6. ASSUME NEW fn, NEW arg, NEW proto, NEW sought, NetDb!Lookup(fn, arg, proto, sought)
      PROVE  Open(at', stayopen') /\ (~stayopen' => ~at'.open)
  <2>1. /\ stayopen => stayopen' = stayopen /\ \E I : at' = ReadTo(lines, Rewound(lines), I)
        /\ ~stayopen => at' = Shut /\ stayopen' = FALSE
    BY <1>6, SameFiles DEF NetDb!Lookup, NetDb!SetStream, NetDb!Ended, lines
  <2> QED BY <1>2, <2>1 DEF Shut
<1> QED BY <1>3, <1>4, <1>5, <1>6 DEF NetDb!NetDbNext, NetDb!getbyname, NetDb!getbykey
-----------------------------------------------------------------------------
(***************************************************************************)
(* Addresses: inet_netof() and inet_lnaof() take one apart, and            *)
(* inet_makeaddr() puts it together.                                       *)
(***************************************************************************)
\* The bytes of numbers of two and of three bytes.
LEMMA BytesOf2 ==
  ASSUME NEW a \in 0 .. 255, NEW b \in 0 .. 255
  PROVE  Byte2(Of2(a, b)) = a /\ Byte1(Of2(a, b)) = b
BY SMTT(30) DEF Byte1, Byte2, Of2

LEMMA BytesOf3 ==
  ASSUME NEW a \in 0 .. 255, NEW b \in 0 .. 255, NEW c \in 0 .. 255
  PROVE  /\ Byte3(Of3(a, b, c)) = a
         /\ Byte2(Of3(a, b, c)) = b
         /\ Byte1(Of3(a, b, c)) = c
BY SMTT(30) DEF Byte1, Byte2, Byte3, Of3

\* The numbers of class B are too large for class A, the rest for class B.
LEMMA NumberOfB ==
  ASSUME NEW a \in 128 .. 191, NEW b \in 0 .. 255
  PROVE  ~NetA(Of2(a, b)) /\ NetAB(Of2(a, b))
BY SMT DEF NetA, NetAB, Of2

LEMMA NumberOfC ==
  ASSUME NEW a \in 192 .. 255, NEW b \in 0 .. 255, NEW c \in 0 .. 255
  PROVE  ~NetA(Of3(a, b, c)) /\ ~NetAB(Of3(a, b, c))
BY SMT DEF NetA, NetAB, Of3

\* The class of an address, by its first byte.
LEMMA Classes ==
  ASSUME NEW x \in InAddr
  PROVE  \/ IN_CLASSA(x) /\ NetA(x[1])
         \/ ~IN_CLASSA(x) /\ IN_CLASSB(x) /\ x[1] \in 128 .. 191
         \/ ~IN_CLASSA(x) /\ ~IN_CLASSB(x) /\ x[1] \in 192 .. 255
<1>1. x[1] \in 0 .. 255
  BY SMT DEF InAddr, Byte
<1> QED BY <1>1, SMT DEF IN_CLASSA, IN_CLASSB, NetA

(***************************************************************************)
(* The network number of an address says as which class inet_makeaddr()    *)
(* must put it together, so that nothing of the address is lost.           *)
(***************************************************************************)
THEOREM AddressComesBack ==
  \A x \in InAddr : inet_makeaddr(inet_netof(x), inet_lnaof(x)) = x
<1> SUFFICES ASSUME NEW x \in InAddr
             PROVE  inet_makeaddr(inet_netof(x), inet_lnaof(x)) = x
  OBVIOUS
<1>1. /\ x[1] \in 0 .. 255 /\ x[2] \in 0 .. 255
      /\ x[3] \in 0 .. 255 /\ x[4] \in 0 .. 255
  BY SMT DEF InAddr, Byte
<1>2. x = <<x[1], x[2], x[3], x[4]>>
  BY SMT DEF InAddr
<1>3. CASE IN_CLASSA(x) /\ NetA(x[1])
  <2>1. inet_netof(x) = x[1] /\ inet_lnaof(x) = Of3(x[2], x[3], x[4])
    BY <1>3, SMT DEF inet_netof, inet_lnaof
  <2> DEFINE host == Of3(x[2], x[3], x[4])
  <2>2. Byte3(host) = x[2] /\ Byte2(host) = x[3] /\ Byte1(host) = x[4]
    BY <1>1, BytesOf3, ZenonT(60)
  <2> HIDE DEF host
  <2>3. inet_makeaddr(x[1], host) = <<x[1], Byte3(host), Byte2(host), Byte1(host)>>
    BY <1>3, Zenon DEF inet_makeaddr
  <2> QED BY <1>2, <2>1, <2>2, <2>3, Zenon DEF host
<1>4. CASE ~IN_CLASSA(x) /\ IN_CLASSB(x) /\ x[1] \in 128 .. 191
  <2>1. inet_netof(x) = Of2(x[1], x[2]) /\ inet_lnaof(x) = Of2(x[3], x[4])
    BY <1>4, SMT DEF inet_netof, inet_lnaof
  <2> DEFINE net == Of2(x[1], x[2])
             host == Of2(x[3], x[4])
  <2>2. /\ Byte2(net) = x[1] /\ Byte1(net) = x[2]
        /\ Byte2(host) = x[3] /\ Byte1(host) = x[4]
    BY <1>1, BytesOf2, Zenon
  <2>3. ~NetA(net) /\ NetAB(net)
    BY <1>1, <1>4, NumberOfB, Zenon
  <2> HIDE DEF net, host
  <2>4. inet_makeaddr(net, host) =
            <<Byte2(net), Byte1(net), Byte2(host), Byte1(host)>>
    BY <2>3, Zenon DEF inet_makeaddr
  <2> QED BY <1>2, <2>1, <2>2, <2>4, Zenon DEF net, host
<1>5. CASE ~IN_CLASSA(x) /\ ~IN_CLASSB(x) /\ x[1] \in 192 .. 255
  <2>1. inet_netof(x) = Of3(x[1], x[2], x[3]) /\ inet_lnaof(x) = x[4]
    BY <1>5, SMT DEF inet_netof, inet_lnaof
  <2>2. Byte1(x[4]) = x[4]
    BY <1>1, SMT DEF Byte1
  <2> DEFINE net == Of3(x[1], x[2], x[3])
  <2>3. Byte3(net) = x[1] /\ Byte2(net) = x[2] /\ Byte1(net) = x[3]
    BY <1>1, BytesOf3, ZenonT(60)
  <2>4. ~NetA(net) /\ ~NetAB(net)
    BY <1>1, <1>5, NumberOfC, Zenon
  <2> HIDE DEF net
  <2>5. inet_makeaddr(net, x[4]) =
            <<Byte3(net), Byte2(net), Byte1(net), Byte1(x[4])>>
    BY <2>4, Zenon DEF inet_makeaddr
  <2> QED BY <1>2, <2>1, <2>2, <2>3, <2>5, Zenon DEF net
<1> QED BY <1>3, <1>4, <1>5, Classes
-----------------------------------------------------------------------------
(***************************************************************************)
(* Sequences.                                                              *)
(***************************************************************************)
LEMMA OneMore ==
    ASSUME NEW V, NEW s \in Seq(V), NEW e \in V
    PROVE  Append(s, e) \in Seq(V) /\ Range(Append(s, e)) = Range(s) \cup {e}
<1> DEFINE t == Append(s, e)
           L == Len(s)
<1>1. /\ t \in Seq(V) /\ Len(t) = L + 1 /\ t[L + 1] = e
      /\ \A i \in 1 .. L : t[i] = s[i]
      /\ L \in Nat /\ DOMAIN s = 1 .. L /\ DOMAIN t = 1 .. L + 1
  BY AppendProperties, LenProperties
<1> HIDE DEF t, L
<1>2. \A i \in 1 .. L + 1 : i \in 1 .. L \/ i = L + 1
  BY <1>1
<1>3. \A i \in 1 .. L : i \in 1 .. L + 1
  BY <1>1
<1>4. L + 1 \in 1 .. L + 1
  BY <1>1
<1>5. Range(t) = Range(s) \cup {e}
  <2>1. ASSUME NEW x \in Range(t) PROVE x \in Range(s) \cup {e}
    BY <1>1, <1>2, <2>1 DEF Range
  <2>2. ASSUME NEW x \in Range(s) \cup {e} PROVE x \in Range(t)
    BY <1>1, <1>3, <1>4, <2>2 DEF Range
  <2> QED BY <2>1, <2>2
<1> QED BY <1>1, <1>5 DEF t

-----------------------------------------------------------------------------
\* The lines of the hosts file.
LEMMA InOrderHas ==
    ASSUME Len(Lines) \in Nat, NEW I \in SUBSET (1 .. Len(Lines))
    PROVE  InOrder(I) \in Seq(I) /\ Range(InOrder(I)) = I
<1> DEFINE N == Len(Lines)
           R == Seq(I)
           step == [n \in 1 .. N |-> [u \in R |-> IF n \in I THEN Append(u, n) ELSE u]]
           read[n \in 0 .. N] ==
               IF n = 0 THEN <<>>
               ELSE IF n \in I THEN Append(read[n - 1], n) ELSE read[n - 1]
           P == [n \in 0 .. N |-> {u \in R : Range(u) = {i \in I : i <= n}}]
<1>1. N \in Nat /\ I \in SUBSET (1 .. N) /\ <<>> \in R
  OBVIOUS
<1> HIDE DEF N
<1>2. step \in [1 .. N -> [R -> R]]
  OBVIOUS
<1>3. PICK f : Iterates(f, N, R, <<>>, step)
  <2> HIDE DEF step, R, read, P
  <2> QED BY <1>1, <1>2, Iteration, Zenon
<1>4. f \in [0 .. N -> R] /\ f[0] = <<>>
  BY <1>3 DEF Iterates
<1>5. ASSUME NEW i \in 1 .. N
      PROVE  f[i] = IF i \in I THEN Append(f[i - 1], i) ELSE f[i - 1]
  <2>1. i - 1 \in 0 .. N
    BY <1>1
  <2>2. f[i - 1] \in R /\ f[i] = step[i][f[i - 1]]
    BY <1>3, <1>4, <2>1 DEF Iterates
  <2> HIDE DEF R
  <2> QED BY <2>2
<1>6. f = [n \in 0 .. N |-> IF n = 0 THEN <<>>
                            ELSE IF n \in I THEN Append(f[n - 1], n) ELSE f[n - 1]]
  <2> HIDE DEF R
  <2>1. ASSUME NEW n \in 0 .. N
        PROVE  f[n] = IF n = 0 THEN <<>>
                      ELSE IF n \in I THEN Append(f[n - 1], n) ELSE f[n - 1]
    <3>1. n = 0 \/ n \in 1 .. N
      BY <1>1
    <3> QED BY <1>1, <1>4, <1>5, <3>1
  <2>2. f = [n \in 0 .. N |-> f[n]]
    BY <1>4
  <2> QED BY <2>1, <2>2, Zenon
<1>7. read = [n \in 0 .. N |-> IF n = 0 THEN <<>>
                               ELSE IF n \in I THEN Append(read[n - 1], n) ELSE read[n - 1]]
  BY <1>6
<1>8. InOrder(I) = read[N]
  BY Zenon DEF InOrder, N
<1> HIDE DEF read
<1>9. read[0] \in P[0]
  <2>1. read[0] = <<>> /\ 0 \in 0 .. N
    BY <1>1, <1>7
  <2>2. Range(<<>>) = {} /\ {i \in I : i <= 0} = {}
    <3>1. \A i \in I : ~(i <= 0)
      BY <1>1
    <3>2. {i \in I : i <= 0} = {}
      BY <3>1
    <3>3. Range(<<>>) = {}
      BY DEF Range
    <3> QED BY <3>2, <3>3
  <2>3. <<>> \in P[0]
    BY <1>1, <2>1, <2>2
  <2> QED BY <2>1, <2>3
<1>10. ASSUME NEW i \in 1 .. N, read[i - 1] \in P[i - 1] PROVE read[i] \in P[i]
  <2> DEFINE u == read[i - 1]
  <2>1. i \in 0 .. N /\ i - 1 \in 0 .. N /\ i # 0
    BY <1>1
  <2>2. read[i] = IF i \in I THEN Append(u, i) ELSE u
    BY <1>7, <2>1
  <2>3. u \in Seq(I) /\ Range(u) = {k \in I : k <= i - 1}
    BY <1>10, <2>1
  <2> HIDE DEF u
  <2>4. CASE i \in I
    <3>1. Append(u, i) \in Seq(I) /\ Range(Append(u, i)) = Range(u) \cup {i}
      BY <2>3, <2>4, OneMore
    <3>2. \A k \in I : k <= i <=> k <= i - 1 \/ k = i
      BY <1>1
    <3>3. {k \in I : k <= i - 1} \cup {i} = {k \in I : k <= i}
      BY <2>4, <3>2
    <3>4. Append(u, i) \in P[i]
      BY <2>1, <2>3, <3>1, <3>3
    <3> QED BY <2>2, <2>4, <3>4
  <2>5. CASE i \notin I
    <3>1. \A k \in I : k <= i <=> k <= i - 1
      BY <1>1, <2>5
    <3>2. {k \in I : k <= i - 1} = {k \in I : k <= i}
      BY <3>1
    <3>3. u \in P[i]
      BY <2>1, <2>3, <3>2
    <3> QED BY <2>2, <2>5, <3>3
  <2> QED BY <2>4, <2>5
<1>11. read[N] \in P[N]
  <2>1. \A i \in 0 .. N : read[i] \in P[i]
    <3> HIDE DEF P, R
    <3> QED BY <1>1, <1>9, <1>10, AlongEach
  <2> HIDE DEF P
  <2> QED BY <1>1, <2>1
<1>12. {i \in I : i <= N} = I
  <2>1. \A i \in I : i <= N
    BY <1>1
  <2> QED BY <2>1
<1>13. P[N] = {u \in R : Range(u) = {i \in I : i <= N}}
  BY <1>1
<1> HIDE DEF P
<1> QED BY <1>8, <1>11, <1>12, <1>13

\* The addresses change places and none is lost.
LEMMA NearestKeeps ==
    ASSUME Len(Lines) \in Nat, Naming(Localname) \in SUBSET (1 .. Len(Lines)),
           NEW V, NEW addrs \in Seq(V)
    PROVE  NearestFirst(addrs) \in Seq(V) /\ Range(NearestFirst(addrs)) = Range(addrs)
<1> DEFINE locals == InOrder(Naming(Localname))
           D == DOMAIN addrs
           pairs == (DOMAIN locals) \X D
           Value(p) == Xor(Lines[locals[p[1]]].key, Swapped(addrs[p[2]]))
           best == {p \in pairs : \A q \in pairs : Value(p) <= Value(q)}
           Is(p) == \A q \in best : p[1] < q[1] \/ (p[1] = q[1] /\ p[2] <= q[2])
           first == CHOOSE p \in best : Is(p)
<1>1. DOMAIN locals \in SUBSET Nat /\ D = 1 .. Len(addrs) /\ Len(addrs) \in Nat
  <2>1. locals \in Seq(Naming(Localname))
    BY InOrderHas
  <2> HIDE DEF locals
  <2> QED BY <2>1, LenProperties
<1>2. NearestFirst(addrs) = IF best = {} THEN addrs
                            ELSE [addrs EXCEPT ![1] = addrs[first[2]], ![first[2]] = addrs[1]]
  BY Zenon DEF NearestFirst
<1>3. best \in SUBSET ((DOMAIN locals) \X D)
  OBVIOUS
<1> HIDE DEF locals, D, best
<1>4. CASE best = {}
  BY <1>2, <1>4
<1>5. CASE best # {}
  <2> DEFINE lefts == {p[1] : p \in best}
             l == Least(lefts)
             rights == {p[2] : p \in {q \in best : q[1] = l}}
             r == Least(rights)
  <2>1. l \in lefts /\ \A k \in lefts : l <= k
    <3>1. lefts \in SUBSET Nat /\ lefts # {}
      BY <1>1, <1>3, <1>5
    <3> HIDE DEF lefts
    <3> QED BY <3>1, LeastIs
  <2> HIDE DEF l
  <2>2. r \in rights /\ \A k \in rights : r <= k
    <3>1. rights \in SUBSET Nat /\ rights # {}
      BY <1>1, <1>3, <2>1
    <3> HIDE DEF rights
    <3> QED BY <3>1, LeastIs
  <2> HIDE DEF r
  <2>3. PICK p \in best : p[1] = l /\ p[2] = r
    BY <2>2
  <2>4. Is(p)
    <3> SUFFICES ASSUME NEW q \in best
                 PROVE  p[1] < q[1] \/ (p[1] = q[1] /\ p[2] <= q[2])
      OBVIOUS
    <3>1. q[1] \in lefts /\ l <= q[1] /\ q[1] \in Nat /\ l \in Nat
      BY <1>1, <1>3, <2>1
    <3>2. q[1] = l => q[2] \in rights
      OBVIOUS
    <3> QED BY <2>2, <2>3, <3>1, <3>2
  <2>5. first \in best
    <3> HIDE DEF Is
    <3> QED BY <2>4
  <2> DEFINE k == first[2]
  <2>6. k \in D /\ 1 \in D
    <3>1. k \in D
      BY <1>3, <2>5
    <3> QED BY <1>1, <3>1
  <2>7. NearestFirst(addrs) = [addrs EXCEPT ![1] = addrs[k], ![k] = addrs[1]]
    BY <1>2, <1>5
  <2> HIDE DEF k
  <2> DEFINE t == [addrs EXCEPT ![1] = addrs[k], ![k] = addrs[1]]
  <2>8. t \in Seq(V) /\ DOMAIN t = D
    BY <1>1, <2>6 DEF D
  <2>9. \A i \in D : t[i] = IF i = k THEN addrs[1] ELSE IF i = 1 THEN addrs[k] ELSE addrs[i]
    BY <1>1, <2>6 DEF D
  <2> HIDE DEF t
  <2>10. ASSUME NEW i \in D PROVE \E j \in D : t[i] = addrs[j]
    BY <2>6, <2>9
  <2>11. ASSUME NEW i \in D PROVE \E j \in D : addrs[i] = t[j]
    BY <2>6, <2>9
  <2>12. Range(t) = Range(addrs)
    BY <2>8, <2>10, <2>11 DEF Range, D
  <2> QED BY <2>7, <2>8, <2>12 DEF t
<1> QED BY <1>4, <1>5
-----------------------------------------------------------------------------
(***************************************************************************)
(* Answers.                                                                *)
(***************************************************************************)
\* The records of an answer, as InputsAssumption has them.
IsRecords(rrs) ==
    /\ Len(rrs) \in Nat /\ DOMAIN rrs = 1 .. Len(rrs)
    /\ \A n \in DOMAIN rrs :
          /\ rrs[n].type \in {"PTR", "CNAME"} => IsSequence(rrs[n].data)
          /\ rrs[n].type = "A" => IsSequence(rrs[n].owner)

IsAnswer(ans) ==
    /\ ans.room \in Nat
    /\ IsRecords(ans.rrs) /\ IsRecords(ans.astray) /\ Len(ans.astray) = Len(ans.rrs)

NoPointers(ans) == \A n \in DOMAIN ans.rrs : ans.rrs[n].type # "PTR"

\* The addresses are those of the records, in their order, or the first of them.
Taken(rrs, addrs, K) ==
    \E from \in [1 .. Len(addrs) -> K] :
       /\ \A i \in 1 .. Len(addrs) : addrs[i] = rrs[from[i]].data
       /\ \A i, j \in 1 .. Len(addrs) : i < j => from[i] < from[j]
       /\ \A k \in K :
             \/ \E i \in 1 .. Len(addrs) : from[i] = k
             \/ Len(addrs) = MAXADDRS - 1 /\ \A i \in 1 .. Len(addrs) : from[i] < k

\* One more record gives one more address.
LEMMA OneMoreAddress ==
    ASSUME NEW rrs, NEW V, NEW addrs \in Seq(V), NEW n \in Nat, rrs[n].data \in V,
           NEW A, A \subseteq 1 .. n - 1, Taken(rrs, addrs, A), Len(addrs) < MAXADDRS - 1
    PROVE  Taken(rrs, Append(addrs, rrs[n].data), A \cup {n})
<1> DEFINE L == Len(addrs)
           d == rrs[n].data
           more == Append(addrs, d)
           B == A \cup {n}
<1>1. /\ more \in Seq(V) /\ Len(more) = L + 1 /\ more[L + 1] = d
      /\ \A i \in 1 .. L : more[i] = addrs[i]
      /\ L \in Nat
  BY AppendProperties, LenProperties
<1>2. PICK r \in [1 .. L -> A] :
         /\ \A k \in A : \E i \in 1 .. L : r[i] = k
         /\ \A i \in 1 .. L : addrs[i] = rrs[r[i]].data
         /\ \A i, j \in 1 .. L : i < j => r[i] < r[j]
  <2>1. L # MAXADDRS - 1
    BY <1>1, InputsAssumption
  <2> QED BY <2>1 DEF Taken
<1> HIDE DEF L, more, B, d
<1> DEFINE q == [i \in 1 .. L + 1 |-> IF i = L + 1 THEN n ELSE r[i]]
<1>4. \A i \in 1 .. L + 1 : i \in 1 .. L \/ i = L + 1
  BY <1>1
<1>5. \A i \in 1 .. L : i \in 1 .. L + 1 /\ i # L + 1
  BY <1>1
<1>6. L + 1 \in 1 .. L + 1
  BY <1>1
<1>7. q[L + 1] = n /\ \A i \in 1 .. L : q[i] = r[i]
  BY <1>5, <1>6
<1>8. q \in [1 .. L + 1 -> B]
  BY <1>2, <1>4 DEF B
<1> HIDE DEF q
<1>9. \A k \in B : \E i \in 1 .. L + 1 : q[i] = k
  BY <1>2, <1>5, <1>6, <1>7 DEF B
<1>10. \A i \in 1 .. L + 1 : more[i] = rrs[q[i]].data
  BY <1>1, <1>2, <1>4, <1>7 DEF d
<1>11. ASSUME NEW i \in 1 .. L + 1, NEW j \in 1 .. L + 1, i < j PROVE q[i] < q[j]
  <2>1. i \in 1 .. L
    BY <1>1, <1>11
  <2>2. CASE j \in 1 .. L
    BY <1>2, <1>7, <1>11, <2>1, <2>2
  <2>3. CASE j = L + 1
    <3>1. r[i] \in 1 .. n - 1
      BY <1>2, <2>1
    <3>2. r[i] < n
      BY <3>1
    <3> QED BY <1>7, <2>1, <2>3, <3>2
  <2> QED BY <1>4, <2>2, <2>3
<1>12. Taken(rrs, more, B)
  <2>1. DOMAIN q = 1 .. Len(more)
    BY <1>1, <1>8
  <2> DEFINE l == Len(more)
  <2> HIDE DEF l
  <2>2. l = L + 1
    BY <1>1 DEF l
  <2>3. /\ q \in [1 .. l -> B] /\ \A i \in 1 .. l : more[i] = rrs[q[i]].data
        /\ \A i, j \in 1 .. l : i < j => q[i] < q[j]
        /\ \A k \in B : \E i \in 1 .. l : q[i] = k
    BY <1>8, <1>9, <1>10, <1>11, <2>2
  <2> QED BY <2>3, Zenon DEF Taken, l
<1> QED BY <1>12 DEF more, d, B

\* One more record gives no address when the array holds no more.
LEMMA NoMoreAddress ==
    ASSUME NEW rrs, NEW V, NEW addrs \in Seq(V), NEW n \in Nat,
           NEW A, A \subseteq 1 .. n - 1, Taken(rrs, addrs, A), Len(addrs) = MAXADDRS - 1
    PROVE  Taken(rrs, addrs, A \cup {n})
<1> DEFINE L == Len(addrs)
           B == A \cup {n}
<1>1. PICK r \in [1 .. L -> A] :
         /\ \A i \in 1 .. L : addrs[i] = rrs[r[i]].data
         /\ \A i, j \in 1 .. L : i < j => r[i] < r[j]
         /\ \A k \in A : (\E i \in 1 .. L : r[i] = k) \/ \A i \in 1 .. L : r[i] < k
  BY DEF Taken
<1>2. L = MAXADDRS - 1
  OBVIOUS
<1> HIDE DEF L
<1>3. r \in [1 .. L -> B] /\ \A i \in 1 .. L : r[i] < n
  <2>1. \A k \in A : k < n
    OBVIOUS
  <2> HIDE DEF L
  <2> QED BY <1>1, <2>1
<1>4. \A k \in B : (\E i \in 1 .. L : r[i] = k) \/ \A i \in 1 .. L : r[i] < k
  BY <1>1, <1>3
<1> HIDE DEF B
<1>5. Taken(rrs, addrs, B)
  BY <1>1, <1>2, <1>3, <1>4 DEF Taken, L
<1> QED BY <1>5 DEF B

\* A host as getanswer() has it so far.
NamesOf(rrs) ==
    {rrs[n].data : n \in {k \in DOMAIN rrs : rrs[k].type \in {"PTR", "CNAME"}}}
       \cup {rrs[n].owner : n \in {k \in DOMAIN rrs : rrs[k].type = "A"}}
NamesIn(ans) == {<<>>} \cup NamesOf(ans.rrs) \cup NamesOf(ans.astray)
SaidBy(rrs) == {rrs[n].data : n \in DOMAIN rrs} \cup {rrs[n].owner : n \in DOMAIN rrs}
Said(ans) == SaidBy(ans.rrs) \cup SaidBy(ans.astray)
HostsIn(ans) ==
    [name : NamesIn(ans), aliases : Seq(Said(ans)), addrs : Seq(Said(ans)),
     stray : BOOLEAN, found : BOOLEAN, over : BOOLEAN, aborts : BOOLEAN]

\* What a record is read as.
LEMMA RecordIs ==
    ASSUME NEW ans, IsAnswer(ans), NEW h, NEW n \in 1 .. Len(ans.rrs)
    PROVE  LET rr == RecordAt(ans, h, n)
           IN /\ rr.data \in Said(ans) /\ rr.owner \in Said(ans)
              /\ rr.type \in {"PTR", "CNAME"} => rr.data \in NamesIn(ans)
              /\ rr.type = "A" => rr.owner \in NamesIn(ans)
<1> DEFINE Good(rrs) ==
              /\ rrs[n].data \in SaidBy(rrs) /\ rrs[n].owner \in SaidBy(rrs)
              /\ rrs[n].type \in {"PTR", "CNAME"} => rrs[n].data \in NamesOf(rrs)
              /\ rrs[n].type = "A" => rrs[n].owner \in NamesOf(rrs)
<1>1. ASSUME NEW rrs, n \in DOMAIN rrs PROVE Good(rrs)
  BY <1>1 DEF SaidBy, NamesOf
<1>2. n \in DOMAIN ans.rrs /\ n \in DOMAIN ans.astray
  BY DEF IsAnswer, IsRecords
<1>3. Good(ans.rrs) /\ Good(ans.astray)
  BY <1>1, <1>2
<1> QED BY <1>3 DEF RecordAt, Said, NamesIn

\* One record more, from whatever place it is read.
LEMMA AnswerTyped ==
    ASSUME NEW ans, IsAnswer(ans), NEW qtype, NEW h \in HostsIn(ans),
           NEW n \in 1 .. Len(ans.rrs)
    PROVE  AnswerAt(qtype, ans, h, n) \in HostsIn(ans)
<1> DEFINE rr == RecordAt(ans, h, n)
           fits == DataFits(ans, n)
<1>1. /\ rr.data \in Said(ans) /\ rr.owner \in Said(ans)
      /\ rr.type \in {"PTR", "CNAME"} => rr.data \in NamesIn(ans)
      /\ rr.type = "A" => rr.owner \in NamesIn(ans)
  BY RecordIs
<1> HIDE DEF rr, fits
<1>2. Over(h) \in HostsIn(ans)
  BY DEF HostsIn, Over
<1>3. [h EXCEPT !.over = ~fits] \in HostsIn(ans)
  BY DEF HostsIn
<1>4. ASSUME rr.type = "CNAME" PROVE Canonical(h, rr, fits) \in HostsIn(ans)
  <2>1. [h EXCEPT !.stray = TRUE] \in HostsIn(ans)
    BY DEF HostsIn
  <2> DEFINE more == Append(h.aliases, rr.owner)
             g == [h EXCEPT !.aliases = more,
                            !.name = IF fits THEN rr.data ELSE h.name, !.over = ~fits]
  <2>2. h.aliases \in Seq(Said(ans)) /\ h.name \in NamesIn(ans)
    BY DEF HostsIn
  <2>3. more \in Seq(Said(ans)) /\ rr.data \in NamesIn(ans)
    BY <1>1, <1>4, <2>2, OneMore
  <2>4. Canonical(h, rr, fits) = IF Len(h.aliases) >= MAXALIASES - 1
                                 THEN [h EXCEPT !.stray = TRUE] ELSE g
    BY DEF Canonical
  <2> HIDE DEF more
  <2>5. CASE fits
    <3>1. g = [h EXCEPT !.aliases = more, !.name = rr.data, !.over = FALSE]
      BY <2>5
    <3>2. g \in HostsIn(ans)
      BY <2>3, <3>1 DEF HostsIn
    <3> HIDE DEF g
    <3> QED BY <2>1, <2>4, <3>2
  <2>6. CASE ~fits
    <3>1. g = [h EXCEPT !.aliases = more, !.name = h.name, !.over = TRUE]
      BY <2>6
    <3>2. g \in HostsIn(ans)
      BY <2>2, <2>3, <3>1 DEF HostsIn
    <3> HIDE DEF g
    <3> QED BY <2>1, <2>4, <3>2
  <2> QED BY <2>5, <2>6
<1>5. ASSUME rr.type = "PTR"
      PROVE  Over([h EXCEPT !.name = rr.data, !.found = TRUE]) \in HostsIn(ans)
  <2>1. rr.data \in NamesIn(ans)
    BY <1>1, <1>5
  <2> QED BY <2>1 DEF HostsIn, Over
<1>6. ASSUME rr.type = "A" PROVE Address(h, rr, fits) \in HostsIn(ans)
  <2> DEFINE more == Append(h.addrs, rr.data)
             addrs == IF fits /\ Len(h.addrs) < MAXADDRS - 1 THEN more ELSE h.addrs
             name == IF h.addrs = <<>> THEN rr.owner ELSE h.name
  <2>1. h.addrs \in Seq(Said(ans)) /\ h.name \in NamesIn(ans)
    BY DEF HostsIn
  <2>2. more \in Seq(Said(ans)) /\ name \in NamesIn(ans)
    BY <1>1, <1>6, <2>1, OneMore
  <2>3. Address(h, rr, fits) = [h EXCEPT !.name = name, !.addrs = addrs, !.over = ~fits]
    BY DEF Address
  <2> HIDE DEF more, name
  <2>4. addrs \in Seq(Said(ans))
    BY <2>1, <2>2
  <2> HIDE DEF addrs
  <2>5. [h EXCEPT !.name = name, !.addrs = addrs, !.over = ~fits] \in HostsIn(ans)
    BY <2>2, <2>4 DEF HostsIn
  <2> QED BY <2>3, <2>5
<1>7. Over([h EXCEPT !.aborts = TRUE]) \in HostsIn(ans)
  BY DEF HostsIn, Over
<1>8. Answer(qtype, h, rr, fits) \in HostsIn(ans)
  BY <1>2, <1>3, <1>4, <1>5, <1>6, <1>7, Zenon DEF Answer
<1> QED BY <1>2, <1>8, Zenon DEF AnswerAt, rr, fits

\* The records up to the nth that offer an address, and those that are aliases.
Offers(ans, k) ==
    /\ ans.rrs[k].type = "A" /\ DataFits(ans, k)
    /\ \A m \in 1 .. k : ans.rrs[m].type # "malformed"
OffersTo(ans, n) == {k \in 1 .. n : Offers(ans, k)}
CnamesTo(ans, n) == {k \in 1 .. n : ans.rrs[k].type = "CNAME"}

\* What getanswer() has found in n records when it has kept its place.
AfterRecords(ans, h, n) ==
    /\ ~h.stray /\ ~h.found
    /\ Len(h.aliases) <= Cardinality(CnamesTo(ans, n))
    /\ Len(h.addrs) <= MAXADDRS - 1
    /\ h.aborts => h.over /\ Unexpected(ans)
    /\ h.over /\ ~h.aborts => OffersTo(ans, Len(ans.rrs)) \subseteq 1 .. n
    /\ ~h.over => \A m \in 1 .. n : ans.rrs[m].type # "malformed"
    /\ ~h.aborts => Taken(ans.rrs, h.addrs, OffersTo(ans, n))

LEMMA OffersNext ==
    ASSUME NEW ans, NEW n \in Nat \ {0}
    PROVE  /\ Offers(ans, n) => OffersTo(ans, n) = OffersTo(ans, n - 1) \cup {n}
           /\ ~Offers(ans, n) => OffersTo(ans, n) = OffersTo(ans, n - 1)
           /\ OffersTo(ans, n - 1) \subseteq 1 .. n - 1
<1>1. \A k \in 1 .. n : k \in 1 .. n - 1 \/ k = n
  OBVIOUS
<1>2. n \in 1 .. n /\ \A k \in 1 .. n - 1 : k \in 1 .. n
  OBVIOUS
<1> QED BY <1>1, <1>2 DEF OffersTo

LEMMA CnamesNext ==
    ASSUME NEW ans, NEW n \in Nat \ {0}
    PROVE  /\ Cardinality(CnamesTo(ans, n)) \in Nat /\ Cardinality(CnamesTo(ans, n - 1)) \in Nat
           /\ Cardinality(CnamesTo(ans, n - 1)) <= Cardinality(CnamesTo(ans, n))
           /\ ans.rrs[n].type = "CNAME" =>
                 Cardinality(CnamesTo(ans, n)) = Cardinality(CnamesTo(ans, n - 1)) + 1
<1> DEFINE A == CnamesTo(ans, n - 1)
           B == CnamesTo(ans, n)
<1>1. \A k \in 1 .. n : k \in 1 .. n - 1 \/ k = n
  OBVIOUS
<1>2. n \in 1 .. n /\ n \notin 1 .. n - 1 /\ \A k \in 1 .. n - 1 : k \in 1 .. n
  OBVIOUS
<1>3. A \subseteq B /\ n \notin A /\ (ans.rrs[n].type = "CNAME" => B = A \cup {n})
  BY <1>1, <1>2 DEF CnamesTo
<1>4. IsFiniteSet(B)
  <2>1. B \subseteq 1 .. n /\ IsFiniteSet(1 .. n)
    BY FS_Interval DEF CnamesTo
  <2> QED BY <2>1, FS_Subset
<1> HIDE DEF A, B
<1>5. IsFiniteSet(A) /\ Cardinality(A) <= Cardinality(B)
  BY <1>3, <1>4, FS_Subset
<1>6. Cardinality(A) \in Nat /\ Cardinality(B) \in Nat
  BY <1>4, <1>5, FS_CardinalityType
<1>7. Cardinality(A \cup {n}) = Cardinality(A) + 1
  BY <1>3, <1>5, FS_AddElement
<1> QED BY <1>3, <1>5, <1>6, <1>7 DEF A, B

\* The aliases fit in their array.
LEMMA KeepsPlace ==
    ASSUME NEW ans, IsAnswer(ans), ~Astray(ans), NEW n \in 1 .. Len(ans.rrs),
           ans.rrs[n].type = "CNAME"
    PROVE  Cardinality(CnamesTo(ans, n - 1)) < MAXALIASES - 1
<1> DEFINE N == Len(ans.rrs)
           A == CnamesTo(ans, n - 1)
           B == CnamesTo(ans, n)
           all == CnamesTo(ans, N)
<1>1. N \in Nat /\ DOMAIN ans.rrs = 1 .. N /\ n \in Nat \ {0}
  BY DEF IsAnswer, IsRecords
<1>2. ~(Cardinality(all) >= MAXALIASES)
  BY <1>1 DEF Astray, CnamesTo
<1> HIDE DEF N
<1>3. B \subseteq all
  <2>1. \A k \in 1 .. n : k \in 1 .. N
    BY <1>1 DEF N
  <2> QED BY <2>1 DEF CnamesTo
<1>4. IsFiniteSet(all)
  <2>1. all \subseteq 1 .. N /\ IsFiniteSet(1 .. N)
    BY <1>1, FS_Interval DEF CnamesTo
  <2> QED BY <2>1, FS_Subset
<1> HIDE DEF A, B, all
<1>5. Cardinality(B) <= Cardinality(all) /\ Cardinality(all) \in Nat
  BY <1>3, <1>4, FS_Subset, FS_CardinalityType
<1>6. Cardinality(A) \in Nat /\ Cardinality(B) = Cardinality(A) + 1
  BY <1>1, CnamesNext DEF A, B
<1> QED BY <1>2, <1>5, <1>6, AliasesAssumption DEF A

\* One record more, in its place.
LEMMA AnswerKeeps ==
    ASSUME NEW ans, IsAnswer(ans), NoPointers(ans), ~Astray(ans), NEW h \in HostsIn(ans),
           NEW n \in 1 .. Len(ans.rrs), AfterRecords(ans, h, n - 1)
    PROVE  AfterRecords(ans, AnswerAt("A", ans, h, n), n)
<1> DEFINE rr == ans.rrs[n]
           g == AnswerAt("A", ans, h, n)
           N == Len(ans.rrs)
           a == Cardinality(CnamesTo(ans, n - 1))
           b == Cardinality(CnamesTo(ans, n))
<1>1. /\ n \in Nat \ {0} /\ N \in Nat /\ n <= N /\ ans.room \in Nat
      /\ n \in DOMAIN ans.rrs
  BY DEF IsAnswer, IsRecords
<1>2. /\ a \in Nat /\ b \in Nat /\ a <= b
      /\ rr.type = "CNAME" => b = a + 1 /\ a < MAXALIASES - 1
  BY <1>1, CnamesNext, KeepsPlace
<1>3. /\ Offers(ans, n) => OffersTo(ans, n) = OffersTo(ans, n - 1) \cup {n}
      /\ ~Offers(ans, n) => OffersTo(ans, n) = OffersTo(ans, n - 1)
      /\ OffersTo(ans, n - 1) \subseteq 1 .. n - 1
  BY <1>1, OffersNext
<1>4. \A k \in 1 .. n : k \in 1 .. n - 1 \/ k = n
  BY <1>1
<1>5. \A k \in 1 .. n - 1 : k \in 1 .. n
  BY <1>1
<1>6. /\ h.aliases \in Seq(Said(ans)) /\ h.addrs \in Seq(Said(ans))
      /\ rr.data \in Said(ans) /\ rr.owner \in Said(ans)
  <2>1. rr.data \in SaidBy(ans.rrs) /\ rr.owner \in SaidBy(ans.rrs)
    BY <1>1 DEF SaidBy
  <2> QED BY <2>1 DEF HostsIn, Said
<1>7. /\ ~h.stray /\ ~h.found /\ Len(h.aliases) <= a /\ Len(h.addrs) <= MAXADDRS - 1
      /\ h.aborts => h.over /\ Unexpected(ans)
      /\ h.over /\ ~h.aborts => OffersTo(ans, N) \subseteq 1 .. n - 1
      /\ ~h.over => \A m \in 1 .. n - 1 : ans.rrs[m].type # "malformed"
      /\ ~h.aborts => Taken(ans.rrs, h.addrs, OffersTo(ans, n - 1))
  BY DEF AfterRecords
<1>8. rr.type # "PTR"
  BY <1>1 DEF NoPointers
<1> DEFINE none == OffersTo(ans, N) \subseteq 1 .. n
\* No record behind one that is malformed or does not fit offers an address.
<1>9. ASSUME rr.type = "malformed" \/ ~DataFits(ans, n) PROVE none /\ ~Offers(ans, n)
  <2> SUFFICES ASSUME NEW k \in 1 .. N, Offers(ans, k), k >= n PROVE FALSE
    BY <1>1 DEF OffersTo
  <2>1. CASE rr.type = "malformed"
    BY <1>1, <2>1 DEF Offers
  <2>2. CASE ~DataFits(ans, n)
    <3>1. ~DataFits(ans, k)
      BY <1>1, <2>2 DEF DataFits
    <3> QED BY <3>1 DEF Offers
  <2> QED BY <1>9, <2>1, <2>2
\* A record that gives no address, but may be the last.
<1>10. ASSUME NEW u, u.stray = h.stray, u.found = h.found, u.addrs = h.addrs,
              Len(u.aliases) <= b, u.aborts \/ ~Offers(ans, n),
              u.aborts => u.over /\ Unexpected(ans),
              u.over /\ ~u.aborts => none,
              ~u.over => ~h.over /\ rr.type # "malformed",
              ~u.aborts => ~h.aborts
       PROVE  AfterRecords(ans, u, n)
  <2>1. ~u.over => \A m \in 1 .. n : ans.rrs[m].type # "malformed"
    BY <1>4, <1>7, <1>10
  <2>2. ~u.aborts => Taken(ans.rrs, u.addrs, OffersTo(ans, n))
    BY <1>3, <1>7, <1>10
  <2>3. Len(u.addrs) <= MAXADDRS - 1 /\ ~u.stray /\ ~u.found
    BY <1>7, <1>10
  <2> HIDE DEF rr, g
  <2> QED BY <1>10, <2>1, <2>2, <2>3, Zenon DEF AfterRecords
<1> DEFINE l == Len(h.aliases)
<1>11. l \in Nat /\ l <= a /\ l <= b
  <2>1. l \in Nat
    BY <1>6
  <2> HIDE DEF a, b, l
  <2>2. l <= a
    BY <1>7 DEF l, a
  <2> QED BY <1>2, <2>1, <2>2
<1>12. CASE h.over
  <2>1. g = h
    BY <1>12 DEF AnswerAt
  <2>2. ~h.aborts => none /\ ~Offers(ans, n)
    <3>1. n \in 1 .. N /\ n \notin 1 .. n - 1
      BY <1>1
    <3>2. ~h.aborts => OffersTo(ans, N) \subseteq 1 .. n - 1
      BY <1>7, <1>12
    <3> QED BY <1>5, <3>1, <3>2 DEF OffersTo
  <2>3. AfterRecords(ans, h, n)
    <3> HIDE DEF rr, g, none
    <3> QED BY <1>7, <1>10, <1>11, <1>12, <2>2
  <2> QED BY <2>1, <2>3
<1>13. CASE ~h.over /\ ~OwnerFits(ans, n)
  <2>1. g = Over(h)
    BY <1>13 DEF AnswerAt
  <2>2. ~DataFits(ans, n)
    BY <1>1, <1>13 DEF OwnerFits, DataFits
  <2>3. none /\ ~Offers(ans, n)
    BY <1>9, <2>2
  <2> DEFINE u == Over(h)
  <2>4. /\ u.stray = h.stray /\ u.found = h.found /\ u.addrs = h.addrs
        /\ u.aliases = h.aliases /\ u.over /\ u.aborts = h.aborts
    BY DEF Over, HostsIn
  <2> HIDE DEF u, rr, none
  <2>5. AfterRecords(ans, u, n)
    BY <1>7, <1>10, <1>11, <1>13, <2>3, <2>4
  <2> QED BY <2>1, <2>5 DEF u
<1>14. ASSUME ~h.over, OwnerFits(ans, n) PROVE AfterRecords(ans, g, n)
  <2>1. g = Answer("A", h, rr, DataFits(ans, n))
    BY <1>7, <1>14 DEF AnswerAt, RecordAt
  <2>2. ~h.aborts
    BY <1>7, <1>14
  <2> DEFINE fits == DataFits(ans, n)
  <2>3. rr.type # "A" \/ ~fits => ~Offers(ans, n)
    BY <1>9 DEF Offers
  <2>4. fits \/ none
    BY <1>9
  <2> HIDE DEF fits, rr, none, g
  <2>5. CASE rr.type = "foreign"
    <3>1. g = h
      BY <2>1, <2>5 DEF Answer, fits
    <3>2. AfterRecords(ans, h, n)
      BY <1>7, <1>10, <1>11, <1>14, <2>2, <2>3, <2>5
    <3> QED BY <3>1, <3>2
  <2>6. CASE rr.type = "malformed"
    <3> DEFINE u == Over(h)
    <3>1. g = u
      BY <2>1, <2>6 DEF Answer, fits
    <3>2. /\ u.stray = h.stray /\ u.found = h.found /\ u.addrs = h.addrs
          /\ u.aliases = h.aliases /\ u.over /\ u.aborts = h.aborts
      BY DEF Over, HostsIn
    <3>3. none
      BY <1>9, <2>6
    <3> HIDE DEF u
    <3>4. AfterRecords(ans, u, n)
      BY <1>7, <1>10, <1>11, <1>14, <2>2, <2>3, <2>6, <3>2, <3>3
    <3> QED BY <3>1, <3>4
  <2>7. CASE rr.type = "CNAME"
    <3> DEFINE more == Append(h.aliases, rr.owner)
               name == IF fits THEN rr.data ELSE h.name
               u == [h EXCEPT !.aliases = more, !.name = name, !.over = ~fits]
    <3>1. g = Canonical(h, rr, fits)
      BY <2>1, <2>7 DEF Answer, fits
    <3>2. ~(l >= MAXALIASES - 1)
      <4> HIDE DEF l, a, b
      <4> QED BY <1>2, <1>11, <2>7, AliasesAssumption
    <3>3. g = u
      BY <3>1, <3>2 DEF Canonical
    <3>4. Len(more) = l + 1
      BY <1>6, AppendProperties
    <3>5. Len(more) <= b
      <4> HIDE DEF l, a, b, more
      <4> QED BY <1>2, <1>11, <2>7, <3>4
    <3> HIDE DEF more, name
    <3>6. /\ u.stray = h.stray /\ u.found = h.found /\ u.addrs = h.addrs
          /\ u.aliases = more /\ (u.over <=> ~fits) /\ u.aborts = h.aborts
      BY DEF HostsIn
    <3> HIDE DEF u, a, b
    <3>7. AfterRecords(ans, u, n)
      BY <1>7, <1>10, <1>14, <2>2, <2>3, <2>4, <2>7, <3>5, <3>6
    <3> QED BY <3>3, <3>7
  <2>8. CASE rr.type = "A"
    <3> DEFINE more == Append(h.addrs, rr.data)
               addrs == IF fits /\ Len(h.addrs) < MAXADDRS - 1 THEN more ELSE h.addrs
               name == IF h.addrs = <<>> THEN rr.owner ELSE h.name
               u == [h EXCEPT !.name = name, !.addrs = addrs, !.over = ~fits]
               p == Len(h.addrs)
    <3>1. g = u
      BY <2>1, <2>8 DEF Answer, Address, fits
    <3>2. Len(more) = p + 1 /\ p \in Nat
      BY <1>6, AppendProperties
    <3>3. CASE ~fits
      <4>1. addrs = h.addrs
        BY <3>3
      <4> HIDE DEF name, addrs
      <4>2. /\ u.stray = h.stray /\ u.found = h.found /\ u.addrs = h.addrs
            /\ u.aliases = h.aliases /\ u.over /\ u.aborts = h.aborts
        BY <3>3, <4>1 DEF HostsIn
      <4> HIDE DEF u
      <4>3. AfterRecords(ans, u, n)
        BY <1>7, <1>10, <1>11, <1>14, <2>2, <2>3, <2>4, <3>3, <4>2
      <4> QED BY <3>1, <4>3
    <3>4. CASE fits
      <4>1. Offers(ans, n)
        <5>1. rr.type # "malformed"
          BY <2>8
        <5> QED BY <1>4, <1>7, <1>14, <2>8, <3>4, <5>1 DEF Offers, rr, fits
      <4> DEFINE A == OffersTo(ans, n - 1)
                 B == OffersTo(ans, n)
      <4>2. B = A \cup {n} /\ A \subseteq 1 .. n - 1
        BY <1>3, <4>1
      <4>3. Taken(ans.rrs, h.addrs, A)
        BY <1>7, <2>2
      <4> HIDE DEF A, B
      <4>4. p < MAXADDRS - 1 => Taken(ans.rrs, more, B)
        BY <1>1, <1>6, <4>2, <4>3, OneMoreAddress DEF rr
      <4>5. p = MAXADDRS - 1 => Taken(ans.rrs, h.addrs, B)
        BY <1>1, <1>6, <4>2, <4>3, NoMoreAddress
      <4> HIDE DEF more
      <4>6. Taken(ans.rrs, addrs, B) /\ Len(addrs) <= MAXADDRS - 1
        <5>1. p <= MAXADDRS - 1
          BY <1>7
        <5>2. CASE p < MAXADDRS - 1
          <6>1. addrs = more
            BY <3>4, <5>2
          <6> HIDE DEF addrs, p
          <6> QED BY <3>2, <4>4, <5>2, <6>1, InputsAssumption
        <5>3. CASE ~(p < MAXADDRS - 1)
          <6>1. addrs = h.addrs
            BY <5>3
          <6>2. p = MAXADDRS - 1
            <7> HIDE DEF addrs, p
            <7> QED BY <3>2, <5>1, <5>3, InputsAssumption
          <6> HIDE DEF addrs
          <6> QED BY <4>5, <5>1, <6>1, <6>2
        <5> QED BY <5>2, <5>3
      <4> HIDE DEF addrs, name
      <4>7. /\ u.stray = h.stray /\ u.found = h.found /\ u.addrs = addrs
            /\ u.aliases = h.aliases /\ ~u.over /\ u.aborts = h.aborts
        BY <3>4 DEF HostsIn
      <4>8. \A m \in 1 .. n : ans.rrs[m].type # "malformed"
        BY <4>1 DEF Offers
      <4> HIDE DEF u
      <4>9. Len(u.aliases) <= b
        BY <1>11, <4>7
      <4> HIDE DEF l, a, b
      <4>10. AfterRecords(ans, u, n)
        BY <1>7, <2>2, <4>6, <4>7, <4>8, <4>9, Zenon DEF AfterRecords, B, b
      <4> QED BY <3>1, <4>10
    <3> QED BY <3>3, <3>4
  <2>9. CASE rr.type \notin {"foreign", "malformed", "CNAME", "PTR", "A"}
    <3> DEFINE u == Over([h EXCEPT !.aborts = TRUE])
    <3>1. g = u
      BY <2>1, <2>9 DEF Answer, fits
    <3>2. /\ u.stray = h.stray /\ u.found = h.found /\ u.addrs = h.addrs
          /\ u.aliases = h.aliases /\ u.over /\ u.aborts
      BY DEF Over, HostsIn
    <3>3. Unexpected(ans)
      BY <1>1, <2>9 DEF Unexpected, rr
    <3> HIDE DEF u
    <3>4. AfterRecords(ans, u, n)
      BY <1>7, <1>10, <1>11, <1>14, <3>2, <3>3
    <3> QED BY <3>1, <3>4
  <2> QED BY <1>8, <2>5, <2>6, <2>7, <2>8, <2>9
<1> QED BY <1>12, <1>13, <1>14

\* What getanswer() makes of all the records.
LEMMA AnsweredIs ==
    ASSUME NEW ans, IsAnswer(ans), NEW qtype
    PROVE  /\ Answered(qtype, ans) \in HostsIn(ans)
           /\ qtype = "A" /\ NoPointers(ans) /\ ~Astray(ans) =>
                 AfterRecords(ans, Answered(qtype, ans), Len(ans.rrs))
<1> DEFINE N == Len(ans.rrs)
           R == HostsIn(ans)
           placed == qtype = "A" /\ NoPointers(ans) /\ ~Astray(ans)
           step == [n \in 1 .. N |-> [u \in R |-> AnswerAt(qtype, ans, u, n)]]
           h[n \in 0 .. N] ==
               IF n = 0 THEN Unanswered ELSE AnswerAt(qtype, ans, h[n - 1], n)
           P == [n \in 0 .. N |-> {u \in R : placed => AfterRecords(ans, u, n)}]
<1>1. N \in Nat
  BY DEF IsAnswer, IsRecords
<1>2. Unanswered \in R
  <2>1. <<>> \in Seq(Said(ans)) /\ <<>> \in NamesIn(ans)
    BY DEF NamesIn
  <2> QED BY <2>1 DEF HostsIn, Unanswered
<1>3. step \in [1 .. N -> [R -> R]]
  <2>1. ASSUME NEW n \in 1 .. N, NEW u \in R PROVE AnswerAt(qtype, ans, u, n) \in R
    BY AnswerTyped
  <2> HIDE DEF R
  <2> QED BY <2>1
<1> HIDE DEF N
<1>4. PICK f : Iterates(f, N, R, Unanswered, step)
  <2> HIDE DEF step, R, h, P
  <2> QED BY <1>1, <1>2, <1>3, Iteration, Zenon
<1>5. f \in [0 .. N -> R] /\ f[0] = Unanswered
  BY <1>4 DEF Iterates
<1>6. ASSUME NEW i \in 1 .. N PROVE f[i] = AnswerAt(qtype, ans, f[i - 1], i)
  <2>1. i - 1 \in 0 .. N
    BY <1>1
  <2>2. f[i - 1] \in R /\ f[i] = step[i][f[i - 1]]
    BY <1>4, <1>5, <2>1 DEF Iterates
  <2> HIDE DEF R
  <2> QED BY <2>2
<1>7. f = [n \in 0 .. N |-> IF n = 0 THEN Unanswered ELSE AnswerAt(qtype, ans, f[n - 1], n)]
  <2> HIDE DEF R
  <2>1. ASSUME NEW n \in 0 .. N
        PROVE  f[n] = IF n = 0 THEN Unanswered ELSE AnswerAt(qtype, ans, f[n - 1], n)
    <3>1. n = 0 \/ n \in 1 .. N
      BY <1>1
    <3> QED BY <1>1, <1>5, <1>6, <3>1
  <2>2. f = [n \in 0 .. N |-> f[n]]
    BY <1>5
  <2> QED BY <2>1, <2>2, Zenon
<1>8. h = [n \in 0 .. N |-> IF n = 0 THEN Unanswered ELSE AnswerAt(qtype, ans, h[n - 1], n)]
  BY <1>7
<1>9. Answered(qtype, ans) = h[N]
  BY Zenon DEF Answered, N
<1> HIDE DEF h
<1>10. h[0] \in P[0]
  <2>1. h[0] = Unanswered /\ 0 \in 0 .. N
    BY <1>1, <1>8
  <2>2. AfterRecords(ans, Unanswered, 0)
    <3>1. 1 .. 0 = {}
      OBVIOUS
    <3>2. OffersTo(ans, 0) = {} /\ CnamesTo(ans, 0) = {} /\ Cardinality({}) = 0
      BY <3>1, FS_EmptySet DEF OffersTo, CnamesTo
    <3> DEFINE none == [i \in 1 .. 0 |-> i]
    <3>3. none \in [1 .. 0 -> {}] /\ Len(<<>>) = 0
      BY <3>1
    <3> HIDE DEF none
    <3>4. Taken(ans.rrs, <<>>, {})
      BY <3>1, <3>3 DEF Taken
    <3>5. 0 <= MAXADDRS - 1
      BY InputsAssumption
    <3> DEFINE u == Unanswered
    <3>6. /\ u.aliases = <<>> /\ u.addrs = <<>> /\ u.stray = FALSE /\ u.found = FALSE
          /\ u.over = FALSE /\ u.aborts = FALSE
      BY DEF Unanswered
    <3> HIDE DEF u
    <3>7. /\ ~u.stray /\ ~u.found /\ ~u.over /\ ~u.aborts
          /\ Len(u.aliases) <= Cardinality(CnamesTo(ans, 0)) /\ Len(u.addrs) <= MAXADDRS - 1
      <4> DEFINE l == Len(u.aliases)
                 m == Len(u.addrs)
                 c == Cardinality(CnamesTo(ans, 0))
      <4>1. l = 0 /\ m = 0 /\ c = 0
        BY <3>2, <3>3, <3>6, Zenon
      <4> HIDE DEF l, m, c
      <4>2. l <= c /\ m <= MAXADDRS - 1
        BY <3>5, <4>1
      <4> QED BY <3>6, <4>2 DEF l, m, c
    <3>8. \A m \in 1 .. 0 : ans.rrs[m].type # "malformed"
      BY <3>1
    <3>9. Taken(ans.rrs, u.addrs, OffersTo(ans, 0))
      BY <3>2, <3>4, <3>6
    <3>10. AfterRecords(ans, u, 0)
      BY <3>7, <3>8, <3>9, Zenon DEF AfterRecords
    <3> QED BY <3>10 DEF u
  <2> HIDE DEF R, placed
  <2> QED BY <1>2, <2>1, <2>2
<1>11. ASSUME NEW i \in 1 .. N, h[i - 1] \in P[i - 1] PROVE h[i] \in P[i]
  <2>1. i \in 0 .. N /\ i - 1 \in 0 .. N /\ i # 0
    BY <1>1
  <2>2. h[i] = AnswerAt(qtype, ans, h[i - 1], i)
    BY <1>8, <2>1
  <2>3. h[i - 1] \in R /\ (placed => AfterRecords(ans, h[i - 1], i - 1))
    BY <1>11, <2>1
  <2>4. h[i] \in R
    BY <2>2, <2>3, AnswerTyped DEF N
  <2>5. placed => AfterRecords(ans, h[i], i)
    BY <2>2, <2>3, AnswerKeeps DEF N
  <2> HIDE DEF R, placed
  <2> QED BY <2>1, <2>4, <2>5
<1>12. h[N] \in P[N]
  <2>1. \A i \in 0 .. N : h[i] \in P[i]
    <3> HIDE DEF P, R
    <3> QED BY <1>1, <1>10, <1>11, AlongEach
  <2> HIDE DEF P
  <2> QED BY <1>1, <2>1
<1> HIDE DEF R, placed
<1>13. P[N] = {u \in R : placed => AfterRecords(ans, u, N)}
  BY <1>1
<1> HIDE DEF P
<1>14. h[N] \in R /\ (placed => AfterRecords(ans, h[N], N))
  BY <1>12, <1>13
<1> QED BY <1>9, <1>14 DEF R, N, placed

HasAddrs(hp) == "addrs" \in DOMAIN hp
IsHost(hp) == hp = [name |-> hp.name, aliases |-> hp.aliases, addrs |-> hp.addrs]

\* An answer with addresses, and one without.
LEMMA GetanswerA ==
    ASSUME NEW ans, IsAnswer(ans), NoPointers(ans)
    PROVE  LET hp == getanswer("A", ans)
               all == OffersTo(ans, Len(ans.rrs))
           IN \/ hp = Aborts /\ (~Astray(ans) => Unexpected(ans))
              \/ hp = Null /\ (~Astray(ans) => all = {})
              \/ /\ HasAddrs(hp) /\ IsHost(hp) /\ hp.addrs \in Seq(Said(ans))
                 /\ ~Astray(ans) => all # {} /\ Taken(ans.rrs, hp.addrs, all)
<1> DEFINE h == Answered("A", ans)
           all == OffersTo(ans, Len(ans.rrs))
           hp == [name |-> h.name, aliases |-> h.aliases, addrs |-> h.addrs]
<1>1. h \in HostsIn(ans)
  BY AnsweredIs
<1>2. ~Astray(ans) =>
         ~h.found /\ (h.aborts => Unexpected(ans)) /\ (~h.aborts => Taken(ans.rrs, h.addrs, all))
  BY AnsweredIs DEF AfterRecords
<1>3. getanswer("A", ans) = CASE h.aborts -> Aborts
                              [] ~h.aborts /\ ~h.found /\ h.addrs = <<>> -> Null
                              [] OTHER -> hp
  BY Zenon DEF getanswer
<1> HIDE DEF h, all
<1>4. h.addrs \in Seq(Said(ans)) /\ h.aborts \in BOOLEAN /\ h.found \in BOOLEAN
  BY <1>1 DEF HostsIn
<1>5. HasAddrs(hp) /\ IsHost(hp) /\ hp.addrs = h.addrs
  BY DEF HasAddrs, IsHost
<1> HIDE DEF hp
<1>6. CASE h.aborts
  BY <1>2, <1>3, <1>6
<1>7. CASE ~h.aborts /\ ~h.found /\ h.addrs = <<>>
  <2>1. getanswer("A", ans) = Null
    BY <1>3, <1>7
  <2>2. ASSUME ~Astray(ans), all # {} PROVE FALSE
    <3>1. Taken(ans.rrs, <<>>, all) /\ Len(<<>>) = 0 /\ 1 .. 0 = {}
      BY <1>2, <1>7, <2>2
    <3>2. 0 = MAXADDRS - 1
      BY <2>2, <3>1 DEF Taken
    <3> QED BY <3>2, InputsAssumption
  <2> QED BY <2>1, <2>2 DEF all
<1>8. CASE ~h.aborts /\ ~(~h.found /\ h.addrs = <<>>)
  <2>1. getanswer("A", ans) = hp
    BY <1>3, <1>8
  <2>2. ASSUME ~Astray(ans) PROVE all # {}
    <3>1. Taken(ans.rrs, h.addrs, all) /\ h.addrs # <<>>
      BY <1>2, <1>8, <2>2
    <3> DEFINE n == Len(h.addrs)
    <3>2. n \in Nat /\ n # 0
      BY <1>4, <3>1
    <3> HIDE DEF n
    <3>3. 1 \in 1 .. n
      BY <3>2
    <3>4. PICK from : from \in [1 .. n -> all]
      BY <3>1 DEF Taken, n
    <3> QED BY <3>3, <3>4
  <2> QED BY <1>2, <1>4, <1>5, <1>8, <2>1, <2>2 DEF all
<1> QED BY <1>4, <1>6, <1>7, <1>8

\* Offers, in the words of the invariants.
LEMMA OfferingIs ==
    ASSUME NEW ans, IsAnswer(ans), ans.rc = "NETDB_SUCCESS"
    PROVE  Offering(ans) = OffersTo(ans, Len(ans.rrs))
BY DEF Offering, OffersTo, Offers, IsAnswer, IsRecords

LEMMA TakenIsFirst ==
    ASSUME NEW ans, NEW V, NEW addrs \in Seq(V), Taken(ans.rrs, addrs, Offering(ans))
    PROVE  FirstOf(addrs, ans)
<1> DEFINE n == Len(addrs)
           K == Offering(ans)
<1>1. DOMAIN addrs = 1 .. n /\ n \in Nat
  OBVIOUS
<1>2. PICK from \in [1 .. n -> K] :
         /\ \A i \in 1 .. n : addrs[i] = ans.rrs[from[i]].data
         /\ \A i, j \in 1 .. n : i < j => from[i] < from[j]
         /\ \A k \in K : \/ \E i \in 1 .. n : from[i] = k
                         \/ n = MAXADDRS - 1 /\ \A i \in 1 .. n : from[i] < k
  BY Zenon DEF Taken
<1> HIDE DEF n, K
<1>3. \A i \in 1 .. n : from[i] \in Range(from)
  BY <1>2 DEF Range
<1>4. \A k \in K \ Range(from) : n = MAXADDRS - 1 /\ \A i \in 1 .. n : from[i] < k
  BY <1>2, <1>3
<1> QED BY <1>1, <1>2, <1>4 DEF FirstOf, n, K

\* What the server says of an address.
LEMMA GetanswerPTR ==
    ASSUME NEW ans, IsAnswer(ans)
    PROVE  LET hp == getanswer("PTR", ans)
           IN \/ hp \in {Aborts, Null}
              \/ HasAddrs(hp) /\ IsSequence(hp.name) /\ IsHost(hp)
<1> DEFINE h == Answered("PTR", ans)
           hp == [name |-> h.name, aliases |-> h.aliases, addrs |-> h.addrs]
<1>1. h \in HostsIn(ans)
  BY AnsweredIs
<1>2. IsSequence(h.name)
  <2>1. \A x \in NamesIn(ans) : IsSequence(x)
    <3>1. IsSequence(<<>>)
      BY DEF IsSequence
    <3> QED BY <3>1 DEF NamesIn, NamesOf, IsAnswer, IsRecords
  <2> HIDE DEF h
  <2>2. h.name \in NamesIn(ans)
    BY <1>1 DEF HostsIn
  <2> QED BY <2>1, <2>2
<1>3. getanswer("PTR", ans) \in {Aborts, Null, hp}
  <2>1. getanswer("PTR", ans) = CASE h.aborts -> Aborts
                              [] ~h.aborts /\ ~h.found /\ h.addrs = <<>> -> Null
                              [] OTHER -> hp
    BY Zenon DEF getanswer
  <2> HIDE DEF h, hp
  <2> QED BY <2>1
<1>4. HasAddrs(hp) /\ hp.name = h.name /\ IsHost(hp)
  BY DEF HasAddrs, IsHost
<1> HIDE DEF hp, h
<1> DEFINE g == getanswer("PTR", ans)
<1> HIDE DEF g
<1>5. CASE g = hp
  <2>1. HasAddrs(g) /\ IsSequence(g.name) /\ IsHost(g)
    BY <1>2, <1>4, <1>5
  <2> QED BY <2>1 DEF g
<1> QED BY <1>3, <1>5 DEF g
-----------------------------------------------------------------------------
(***************************************************************************)
(* What a call finds out.                                                  *)
(***************************************************************************)
IsResult(r) ==
    /\ r = [rv |-> r.rv, err |-> r.err, at |-> r.at, db |-> r.db, asked |-> r.asked,
            by |-> r.by, over |-> r.over]
    /\ r.over \in BOOLEAN

\* The hosts file is closed again, if it was read and shall not stay open.
ClosedAgain(r) == "hosts" \in r.asked /\ r.at.open => stay

LEMMA Results ==
    ASSUME NEW r, IsResult(r), NEW hp, NEW service, NEW err
    PROVE  /\ Found(r, service, hp) =
                 [rv |-> hp, err |-> "NETDB_SUCCESS", at |-> r.at, db |-> r.db,
                  asked |-> r.asked, by |-> service, over |-> TRUE]
           /\ NotFound(r, err) =
                 [rv |-> Null, err |-> err, at |-> r.at, db |-> r.db,
                  asked |-> r.asked, by |-> None, over |-> r.over]
           /\ Asked(r, service) =
                 [rv |-> r.rv, err |-> r.err, at |-> r.at, db |-> r.db,
                  asked |-> r.asked \cup {service}, by |-> r.by, over |-> r.over]
<1> DEFINE v == r.rv
           e == r.err
           a == r.at
           d == r.db
           k == r.asked
           b == r.by
           o == r.over
<1>1. r = [rv |-> v, err |-> e, at |-> a, db |-> d, asked |-> k, by |-> b, over |-> o]
  BY DEF IsResult
<1> HIDE DEF v, e, a, d, k, b, o
<1>2. Found(r, service, hp) =
         [rv |-> hp, err |-> "NETDB_SUCCESS", at |-> a, db |-> d, asked |-> k,
          by |-> service, over |-> TRUE]
  <2> DEFINE r1 == [r EXCEPT !.rv = hp]
             r2 == [r1 EXCEPT !.err = "NETDB_SUCCESS"]
             r3 == [r2 EXCEPT !.by = service]
  <2>1. r1 = [rv |-> hp, err |-> e, at |-> a, db |-> d, asked |-> k, by |-> b, over |-> o]
    BY <1>1
  <2>2. Found(r, service, hp) = [r3 EXCEPT !.over = TRUE]
    BY Zenon DEF Found
  <2> HIDE DEF r1
  <2>3. r2 = [rv |-> hp, err |-> "NETDB_SUCCESS", at |-> a, db |-> d, asked |-> k, by |-> b,
              over |-> o]
    BY <2>1
  <2> HIDE DEF r2
  <2>4. r3 = [rv |-> hp, err |-> "NETDB_SUCCESS", at |-> a, db |-> d, asked |-> k,
              by |-> service, over |-> o]
    BY <2>3
  <2> HIDE DEF r3
  <2> QED BY <2>2, <2>4
<1>3. NotFound(r, err) =
         [rv |-> Null, err |-> err, at |-> a, db |-> d, asked |-> k, by |-> None, over |-> o]
  <2> DEFINE r1 == [r EXCEPT !.rv = Null]
             r2 == [r1 EXCEPT !.err = err]
  <2>1. r1 = [rv |-> Null, err |-> e, at |-> a, db |-> d, asked |-> k, by |-> b, over |-> o]
    BY <1>1
  <2>2. NotFound(r, err) = [r2 EXCEPT !.by = None]
    BY Zenon DEF NotFound
  <2> HIDE DEF r1
  <2>3. r2 = [rv |-> Null, err |-> err, at |-> a, db |-> d, asked |-> k, by |-> b, over |-> o]
    BY <2>1
  <2> HIDE DEF r2
  <2> QED BY <2>2, <2>3
<1>4. Asked(r, service) =
         [rv |-> v, err |-> e, at |-> a, db |-> d, asked |-> k \cup {service}, by |-> b,
          over |-> o]
  BY <1>1 DEF Asked
<1> QED BY <1>2, <1>3, <1>4 DEF v, e, a, d, k, b, o

\* A record is one with these values.
LEMMA IsOne ==
    ASSUME NEW v, NEW e, NEW a, NEW d, NEW k, NEW b, NEW o \in BOOLEAN, NEW r,
           r = [rv |-> v, err |-> e, at |-> a, db |-> d, asked |-> k, by |-> b, over |-> o]
    PROVE  /\ IsResult(r) /\ r.rv = v /\ r.by = b /\ r.over = o
           /\ ClosedAgain(r) <=> ("hosts" \in k /\ a.open => stay)
<1>1. r.rv = v /\ r.by = b /\ r.over = o /\ r.at = a /\ r.asked = k /\ r.err = e /\ r.db = d
  OBVIOUS
<1>2. IsResult(r)
  BY <1>1 DEF IsResult
<1> QED BY <1>1, <1>2 DEF ClosedAgain

LEMMA FoundIs ==
    ASSUME NEW r, IsResult(r), NEW hp, NEW service
    PROVE  /\ IsResult(Found(r, service, hp)) /\ Found(r, service, hp).over
           /\ Found(r, service, hp).rv = hp /\ Found(r, service, hp).by = service
           /\ ClosedAgain(r) => ClosedAgain(Found(r, service, hp))
<1> DEFINE yes == TRUE
           success == "NETDB_SUCCESS"
<1>1. yes \in BOOLEAN
  OBVIOUS
<1> DEFINE q == Found(r, service, hp)
<1>2. q = [rv |-> hp, err |-> success, at |-> r.at, db |-> r.db,
           asked |-> r.asked, by |-> service, over |-> yes]
  BY Results
<1> HIDE DEF q, yes, success
<1>3. /\ IsResult(q) /\ q.rv = hp /\ q.by = service /\ q.over = yes
      /\ ClosedAgain(q) <=> ("hosts" \in r.asked /\ r.at.open => stay)
  BY <1>1, <1>2, IsOne
<1>4. yes = TRUE
  BY DEF yes
<1> QED BY <1>3, <1>4 DEF ClosedAgain, q

LEMMA NotFoundIs ==
    ASSUME NEW r, IsResult(r), NEW err
    PROVE  /\ IsResult(NotFound(r, err)) /\ NotFound(r, err).over = r.over
           /\ NotFound(r, err).rv = Null /\ NotFound(r, err).by = None
           /\ ClosedAgain(r) => ClosedAgain(NotFound(r, err))
<1>1. r.over \in BOOLEAN
  BY DEF IsResult
<1> DEFINE q == NotFound(r, err)
<1>2. q = [rv |-> Null, err |-> err, at |-> r.at, db |-> r.db,
           asked |-> r.asked, by |-> None, over |-> r.over]
  BY Results
<1> HIDE DEF q
<1>3. /\ IsResult(q) /\ q.rv = Null /\ q.by = None /\ q.over = r.over
      /\ ClosedAgain(q) <=> ("hosts" \in r.asked /\ r.at.open => stay)
  BY <1>1, <1>2, IsOne
<1> QED BY <1>3 DEF ClosedAgain, q

LEMMA AskedIs ==
    ASSUME NEW r, IsResult(r), ClosedAgain(r)
    PROVE  /\ IsResult(Asked(r, "bind")) /\ ClosedAgain(Asked(r, "bind"))
           /\ Asked(r, "bind").over = r.over /\ Asked(r, "bind").rv = r.rv
           /\ Asked(r, "bind").by = r.by
<1>1. r.over \in BOOLEAN
  BY DEF IsResult
<1>2. "hosts" \in r.asked \cup {"bind"} => "hosts" \in r.asked
  OBVIOUS
<1> DEFINE q == Asked(r, "bind")
<1>3. q = [rv |-> r.rv, err |-> r.err, at |-> r.at, db |-> r.db,
           asked |-> r.asked \cup {"bind"}, by |-> r.by, over |-> r.over]
  BY Results
<1> HIDE DEF q
<1>4. /\ IsResult(q) /\ q.rv = r.rv /\ q.by = r.by /\ q.over = r.over
      /\ ClosedAgain(q) <=> ("hosts" \in r.asked \cup {"bind"} /\ r.at.open => stay)
  BY <1>1, <1>3, IsOne
<1> QED BY <1>2, <1>4 DEF ClosedAgain, q

LEMMA ScannedIs ==
    ASSUME NEW r, IsResult(r), NEW I
    PROVE  /\ IsResult(Scanned(r, I)) /\ ClosedAgain(Scanned(r, I))
           /\ Scanned(r, I).over = r.over
<1> DEFINE f == _endhtent(ReadTo(Lines, _sethtent(r.at), I), stay)
           q == Scanned(r, I)
<1>1. f.open => stay
  BY DEF _endhtent, Shut
<1>2. Asked(r, "hosts") =
         [rv |-> r.rv, err |-> r.err, at |-> r.at, db |-> r.db,
          asked |-> r.asked \cup {"hosts"}, by |-> r.by, over |-> r.over]
  BY Results
<1>3. q = [Asked(r, "hosts") EXCEPT !.at = f, !.db = TRUE]
  BY DEF Scanned
<1> DEFINE q1 == [Asked(r, "hosts") EXCEPT !.at = f]
<1> HIDE DEF f, q
<1>Q. q1 = [rv |-> r.rv, err |-> r.err, at |-> f, db |-> r.db,
           asked |-> r.asked \cup {"hosts"}, by |-> r.by, over |-> r.over]
  BY <1>2
<1>R. q = [q1 EXCEPT !.db = TRUE]
  BY <1>3, Zenon
<1> HIDE DEF q1
<1>4. q = [rv |-> r.rv, err |-> r.err, at |-> f, db |-> TRUE,
           asked |-> r.asked \cup {"hosts"}, by |-> r.by, over |-> r.over]
  BY <1>Q, <1>R
<1>5. r.over \in BOOLEAN
  BY DEF IsResult
<1>6. IsResult(q) /\ ClosedAgain(q) /\ q.over = r.over
  BY <1>1, <1>4, <1>5, IsOne
<1> QED BY <1>6 DEF q

\* A host keeps its addresses when its names are trimmed.
LEMMA Trimmed ==
    ASSUME NEW hp, HasAddrs(hp), NEW domains
    PROVE  /\ HasAddrs(trim_domains(domains, hp))
           /\ trim_domains(domains, hp).addrs = hp.addrs
<1>1. hp # Null /\ hp # Aborts
  BY NullAssumption DEF HasAddrs
<1> DEFINE n == Trim(domains, hp.name)
           a == [k \in DOMAIN hp.aliases |-> Trim(domains, hp.aliases[k])]
           g == [hp EXCEPT !.name = n]
<1>2. trim_domains(domains, hp) = [hp EXCEPT !.name = n, !.aliases = a]
  BY <1>1 DEF trim_domains
<1> HIDE DEF n, a
<1>3. HasAddrs(g) /\ g.addrs = hp.addrs
  BY DEF HasAddrs
<1>4. trim_domains(domains, hp) = [g EXCEPT !.aliases = a]
  BY <1>2, Zenon
<1> HIDE DEF g
<1> QED BY <1>3, <1>4 DEF HasAddrs

-----------------------------------------------------------------------------
\* The entries of the hosts file.
LEMMA EntriesOfHosts ==
    ASSUME input \in Inputs
    PROVE  \/ AllEntries = {}
           \/ Len(Lines) \in Nat /\ AllEntries \in SUBSET (1 .. Len(Lines))
<1>1. CASE Lines = Missing
  BY <1>1 DEF AllEntries, Ahead, Rewound
<1>2. CASE Lines # Missing
  <2>1. Len(Lines) \in Nat
    BY <1>2, InputsAssumption DEF Lines, IsSequence
  <2>2. 0 + 1 = 1
    OBVIOUS
  <2>3. AllEntries = {i \in 1 .. Len(Lines) : Lines[i].kind = "entry"}
    BY <1>2, <2>2 DEF AllEntries, Ahead, Rewound
  <2> QED BY <2>1, <2>3
<1> QED BY <1>1, <1>2

KeysOf(I) == {Lines[i].key : i \in I}

LEMMA AllOfIs ==
    ASSUME input \in Inputs, NEW name, Naming(name) # {}
    PROVE  LET hp == AllOf(name, Naming(name))
           IN /\ HasAddrs(hp) /\ Range(hp.addrs) = KeysOf(Naming(name)) /\ hp.addrs # <<>>
              /\ hp = [name |-> hp.name, aliases |-> hp.aliases, addrs |-> hp.addrs]
<1> DEFINE I == Naming(name)
           seq == InOrder(I)
           keys == [n \in DOMAIN seq |-> Lines[seq[n]].key]
           hp == AllOf(name, I)
<1>1. /\ Len(Lines) \in Nat /\ I \in SUBSET (1 .. Len(Lines))
      /\ Naming(Localname) \in SUBSET (1 .. Len(Lines))
  <2>1. I \in SUBSET AllEntries /\ Naming(Localname) \in SUBSET AllEntries
    BY DEF Naming
  <2> HIDE DEF I
  <2> QED BY <2>1, EntriesOfHosts DEF I
<1> HIDE DEF I
<1>2. seq \in Seq(I) /\ Range(seq) = I
  BY <1>1, InOrderHas
<1> HIDE DEF seq
<1>3. keys \in Seq(KeysOf(I)) /\ Range(keys) = KeysOf(I)
  <2>1. Len(seq) \in Nat /\ DOMAIN seq = 1 .. Len(seq) /\ \A n \in DOMAIN seq : seq[n] \in I
    BY <1>2
  <2>2. keys \in Seq(KeysOf(I))
    BY <2>1 DEF KeysOf
  <2>3. Range(keys) = {Lines[seq[n]].key : n \in DOMAIN seq}
    BY DEF Range
  <2>4. {Lines[seq[n]].key : n \in DOMAIN seq} = KeysOf(I)
    BY <1>2, <2>1 DEF KeysOf, Range
  <2> QED BY <2>2, <2>3, <2>4
<1> HIDE DEF keys
<1>4. NearestFirst(keys) \in Seq(KeysOf(I)) /\ Range(NearestFirst(keys)) = KeysOf(I)
  BY <1>1, <1>3, NearestKeeps
<1> DEFINE near == NearestFirst(keys)
           n1 == hp.name
           a1 == hp.aliases
<1>5. /\ hp.addrs = near /\ HasAddrs(hp)
      /\ hp = [name |-> hp.name, aliases |-> hp.aliases, addrs |-> hp.addrs]
  <2>1. \E x, y : hp = [name |-> x, aliases |-> y, addrs |-> near]
    BY Zenon DEF AllOf, keys, seq
  <2> HIDE DEF hp, near
  <2> QED BY <2>1 DEF HasAddrs
<1>6. near # <<>>
  <2>1. Range(near) # {} /\ Len(near) \in Nat /\ DOMAIN near = 1 .. Len(near)
    BY <1>4 DEF KeysOf, I
  <2> HIDE DEF near
  <2> QED BY <2>1 DEF Range
<1> HIDE DEF hp, near
<1> QED BY <1>4, <1>5, <1>6 DEF hp, I, near

LEMMA Replies ==
    /\ \A ans \in ForwardAnswers \cup {NoAnswer} : IsAnswer(ans) /\ NoPointers(ans)
    /\ \A ans \in ReverseAnswers \cup {NoAnswer} : IsAnswer(ans)
<1>1. \A ans \in ForwardAnswers \cup ReverseAnswers : IsAnswer(ans)
  <2> SUFFICES ASSUME NEW ans \in ForwardAnswers \cup ReverseAnswers PROVE IsAnswer(ans)
    OBVIOUS
  <2>1. /\ ans.room \in Nat /\ IsSequence(ans.rrs) /\ IsSequence(ans.astray)
        /\ Len(ans.astray) = Len(ans.rrs)
        /\ \A rrs \in {ans.rrs, ans.astray} : \A n \in DOMAIN rrs :
              /\ rrs[n].type \in {"PTR", "CNAME"} => IsSequence(rrs[n].data)
              /\ rrs[n].type = "A" => IsSequence(rrs[n].owner)
    BY InputsAssumption
  <2>2. \A s : IsSequence(s) => Len(s) \in Nat /\ DOMAIN s = 1 .. Len(s)
    BY DEF IsSequence
  <2>3. \A rrs \in {ans.rrs, ans.astray} : IsRecords(rrs)
    BY <2>1, <2>2 DEF IsRecords
  <2> QED BY <2>1, <2>3 DEF IsAnswer
<1>2. \A ans \in ForwardAnswers : NoPointers(ans)
  BY InputsAssumption DEF NoPointers
<1>3. IsAnswer(NoAnswer) /\ NoPointers(NoAnswer)
  <2>1. /\ NoAnswer.rrs = <<>> /\ NoAnswer.astray = <<>> /\ NoAnswer.room = 0
        /\ Len(<<>>) = 0 /\ DOMAIN <<>> = {} /\ 1 .. 0 = {}
    BY DEF NoAnswer
  <2>2. IsRecords(<<>>)
    BY <2>1 DEF IsRecords
  <2> QED BY <2>1, <2>2 DEF IsAnswer, NoPointers
<1> QED BY <1>1, <1>2, <1>3

\* A service that knows the name has given these addresses; of an answer in
\* which getanswer() loses its place nothing is said.
GivenBy(q, service, multi, ans, known) ==
    /\ q.over /\ q.by = service /\ HasAddrs(q.rv)
    /\ ~Astray(ans) => known # {} /\ Serves(service, q.rv.addrs, known, multi, ans)

LEMMA HostGives ==
    ASSUME input \in Inputs, NEW c, NEW name, NEW ans, NEW r, IsResult(r), ~r.over
    PROVE  LET q == HostByName(c, name, r)
           IN /\ IsResult(q) /\ ClosedAgain(q)
              /\ \/ Naming(name) = {} /\ ~q.over /\ q.rv = Null /\ q.by = None
                 \/ GivenBy(q, "hosts", c.multi, ans, KeysOf(Naming(name)))
<1> DEFINE I == Naming(name)
           J == Naming(name) \cap Ahead(Lines, _sethtent(r.at))
           s == Scanned(r, IF c.multi THEN {} ELSE J)
           q == HostByName(c, name, r)
<1>1. J = I
  BY DEF Naming, AllEntries, _sethtent
<1>2. IsResult(s) /\ ClosedAgain(s) /\ s.over = r.over
  BY ScannedIs
<1>3. q = IF J = {} THEN NotFound(s, "HOST_NOT_FOUND")
          ELSE Found(s, "hosts", trim_domains(c.trim, IF c.multi THEN AllOf(name, J)
                                                      ELSE Entry(Least(J))))
  BY Zenon DEF HostByName
<1> HIDE DEF J, s, q
<1>4. CASE I = {}
  <2>1. q = NotFound(s, "HOST_NOT_FOUND")
    BY <1>1, <1>3, <1>4
  <2> QED BY <1>2, <1>4, <2>1, NotFoundIs DEF q
<1>5. CASE I # {} /\ c.multi
  <2> DEFINE all == AllOf(name, I)
             hp == trim_domains(c.trim, all)
  <2>1. q = Found(s, "hosts", hp)
    BY <1>1, <1>3, <1>5
  <2>2. /\ HasAddrs(all) /\ Range(all.addrs) = KeysOf(I)
        /\ all = [name |-> all.name, aliases |-> all.aliases, addrs |-> all.addrs]
    BY <1>5, AllOfIs
  <2> HIDE DEF all
  <2>3. HasAddrs(hp) /\ hp.addrs = all.addrs
    BY <2>2, Trimmed
  <2>4. KeysOf(I) # {}
    BY <1>5 DEF KeysOf
  <2> HIDE DEF hp, I
  <2>5. IsResult(q) /\ ClosedAgain(q) /\ q.over /\ q.rv = hp /\ q.by = "hosts"
    BY <1>2, <2>1, FoundIs
  <2> QED BY <1>5, <2>2, <2>3, <2>4, <2>5 DEF GivenBy, Serves, q, I
<1>6. CASE I # {} /\ ~c.multi
  <2> DEFINE i == Least(I)
             one == Entry(i)
             hp == trim_domains(c.trim, one)
  <2>1. q = Found(s, "hosts", hp)
    BY <1>1, <1>3, <1>6
  <2>2. i \in I
    <3>1. I \in SUBSET Nat
      <4>1. I \in SUBSET AllEntries
        BY DEF Naming
      <4> HIDE DEF I
      <4> QED BY <4>1, EntriesOfHosts
    <3> HIDE DEF I
    <3> QED BY <1>6, <3>1, LeastIs
  <2> HIDE DEF i
  <2> DEFINE n == Lines[i].names[1]
             a == Tail(NamesKept(Lines[i]))
             k == Lines[i].key
  <2>3. one = [name |-> n, aliases |-> a, addrs |-> <<k>>]
    BY DEF Entry
  <2> HIDE DEF one, n, a
  <2>4. /\ HasAddrs(one) /\ one.addrs = <<k>>
        /\ one = [name |-> one.name, aliases |-> one.aliases, addrs |-> one.addrs]
    BY <2>3 DEF HasAddrs
  <2>5. HasAddrs(hp) /\ hp.addrs = <<k>>
    BY <2>4, Trimmed
  <2>6. k \in KeysOf(I)
    BY <2>2 DEF KeysOf
  <2> HIDE DEF hp, I, k
  <2>7. IsResult(q) /\ ClosedAgain(q) /\ q.over /\ q.rv = hp /\ q.by = "hosts"
    BY <1>2, <2>1, FoundIs
  <2>8. <<k>> # <<>> /\ Range(<<k>>) = {k}
    BY DEF Range
  <2> QED BY <1>6, <2>5, <2>6, <2>7, <2>8 DEF GivenBy, Serves, q, I
<1> QED BY <1>4, <1>5, <1>6

LEMMA BindGives ==
    ASSUME NEW c, NEW ans \in ForwardAnswers \cup {NoAnswer},
           NEW r, IsResult(r), ~r.over, ClosedAgain(r)
    PROVE  LET q == BindByName(c, ans, r)
           IN /\ IsResult(q) /\ ClosedAgain(q)
              /\ \/ ~q.over /\ q.rv = Null /\ q.by = None /\ (~Astray(ans) => Offered(ans) = {})
                 \/ q.over /\ q.rv = Aborts /\ q.by = "bind" /\ (~Astray(ans) => Unexpected(ans))
                 \/ GivenBy(q, "bind", c.multi, ans, Offered(ans))
<1> DEFINE hp == getanswer("A", ans)
           a == Asked(r, "bind")
           q == BindByName(c, ans, r)
           all == OffersTo(ans, Len(ans.rrs))
<1>1. /\ \/ hp = Aborts /\ (~Astray(ans) => Unexpected(ans))
         \/ hp = Null /\ (~Astray(ans) => all = {})
         \/ /\ HasAddrs(hp) /\ IsHost(hp) /\ hp.addrs \in Seq(Said(ans))
            /\ ~Astray(ans) => all # {} /\ Taken(ans.rrs, hp.addrs, all)
      /\ IsAnswer(ans)
  BY Replies, GetanswerA
<1>2. /\ ans.rc # "NETDB_SUCCESS" => Offered(ans) = {}
      /\ ans.rc = "NETDB_SUCCESS" => Offering(ans) = all
      /\ Offering(ans) = {} <=> Offered(ans) = {}
  <2>1. Offering(ans) = {} <=> Offered(ans) = {}
    BY DEF Offered
  <2>2. ans.rc # "NETDB_SUCCESS" => Offering(ans) = {}
    BY DEF Offering
  <2>3. ans.rc = "NETDB_SUCCESS" => Offering(ans) = all
    BY <1>1, OfferingIs
  <2> QED BY <2>1, <2>2, <2>3
<1>3. IsResult(a) /\ ClosedAgain(a) /\ a.over = r.over
  BY AskedIs
<1>4. /\ ans.rc # "NETDB_SUCCESS" => q = NotFound(a, ans.rc)
      /\ ans.rc = "NETDB_SUCCESS" /\ hp = Null => q = NotFound(a, "TRY_AGAIN")
      /\ ans.rc = "NETDB_SUCCESS" /\ hp # Null => q = Found(a, "bind", trim_domains(c.trim, hp))
  <2> HIDE DEF hp, a
  <2> QED BY DEF BindByName, hp, a
<1> HIDE DEF hp, a, q, all
<1>5. CASE ans.rc # "NETDB_SUCCESS"
  <2>1. q = NotFound(a, ans.rc)
    BY <1>4, <1>5
  <2> QED BY <1>2, <1>3, <1>5, <2>1, NotFoundIs DEF q
<1>6. CASE ans.rc = "NETDB_SUCCESS" /\ hp = Null
  <2>1. q = NotFound(a, "TRY_AGAIN")
    BY <1>4, <1>6
  <2>2. ~Astray(ans) => Offered(ans) = {}
    BY <1>1, <1>2, <1>6, NullAssumption DEF HasAddrs
  <2> QED BY <1>3, <1>6, <2>1, <2>2, NotFoundIs DEF q
<1>7. CASE ans.rc = "NETDB_SUCCESS" /\ hp = Aborts
  <2>1. q = Found(a, "bind", Aborts)
    BY <1>4, <1>7, NullAssumption DEF trim_domains
  <2>2. ~Astray(ans) => Unexpected(ans)
    BY <1>1, <1>7, NullAssumption DEF HasAddrs
  <2> QED BY <1>3, <2>1, <2>2, FoundIs DEF q
<1>8. CASE ans.rc = "NETDB_SUCCESS" /\ hp \notin {Null, Aborts}
  <2> DEFINE trimmed == trim_domains(c.trim, hp)
  <2>1. q = Found(a, "bind", trimmed)
    BY <1>4, <1>8
  <2>2. /\ HasAddrs(hp) /\ hp.addrs \in Seq(Said(ans))
        /\ ~Astray(ans) => Offered(ans) # {} /\ Taken(ans.rrs, hp.addrs, Offering(ans))
    BY <1>1, <1>2, <1>8
  <2>3. HasAddrs(trimmed) /\ trimmed.addrs = hp.addrs
    BY <2>2, Trimmed
  <2>4. ~Astray(ans) => FirstOf(hp.addrs, ans)
    BY <2>2, TakenIsFirst
  <2> HIDE DEF trimmed
  <2>5. IsResult(q) /\ ClosedAgain(q) /\ q.over /\ q.rv = trimmed /\ q.by = "bind"
    BY <1>3, <2>1, FoundIs
  <2>6. GivenBy(q, "bind", c.multi, ans, Offered(ans))
    BY <2>2, <2>3, <2>4, <2>5 DEF GivenBy, Serves
  <2> QED BY <2>5, <2>6 DEF q
<1> QED BY <1>5, <1>6, <1>7, <1>8
-----------------------------------------------------------------------------
(***************************************************************************)
(* The services, one after the other.                                      *)
(***************************************************************************)
\* The addresses a service has for a name with this configuration.
AddressesWith(c, service, name, ans) ==
    IF service = "hosts" THEN KeysOf(Naming(Trim(c.trim, name)))
    ELSE IF service = "bind" THEN Offered(ans) ELSE {}

\* When the first n services have been asked, none of them knows the name, or
\* the first one that does has given its addresses, or the program has aborted.
NoneKnows(c, name, ans, n) ==
    ~Astray(ans) => \A k \in 1 .. n : AddressesWith(c, c.order[k], name, ans) = {}
FirstGives(c, name, ans, q, n) ==
    \E m \in 1 .. n :
       /\ NoneKnows(c, name, ans, m - 1)
       /\ GivenBy(q, c.order[m], c.multi, ans, AddressesWith(c, c.order[m], name, ans))

AfterServices(c, name, ans, q, n) ==
    /\ IsResult(q) /\ ClosedAgain(q)
    /\ ~q.over => q.rv = Null /\ NoneKnows(c, name, ans, n)
    /\ q.over => \/ q.rv = Aborts /\ q.by = "bind" /\ (~Astray(ans) => Unexpected(ans))
                 \/ FirstGives(c, name, ans, q, n)

LEMMA AskedNext ==
    ASSUME input \in Inputs, NEW c, NEW name, NEW ans \in ForwardAnswers \cup {NoAnswer},
           NEW q, NEW n \in Nat, n # 0, AfterServices(c, name, ans, q, n - 1)
    PROVE  AfterServices(c, name, ans, AskByName(c, name, ans, q, c.order[n]), n)
<1> DEFINE service == c.order[n]
           s == AskByName(c, name, ans, q, service)
           known == AddressesWith(c, service, name, ans)
<1>1. n \in 1 .. n /\ \A k \in 1 .. n - 1 : k \in 1 .. n
  OBVIOUS
<1>2. \A k \in 1 .. n : k \in 1 .. n - 1 \/ k = n
  OBVIOUS
<1>3. IsResult(q) /\ ClosedAgain(q) /\ q.over \in BOOLEAN
  BY DEF AfterServices, IsResult
<1>4. NoneKnows(c, name, ans, n - 1) /\ (~Astray(ans) => known = {}) => NoneKnows(c, name, ans, n)
  BY <1>2 DEF NoneKnows
<1> HIDE DEF service, s
<1>5. CASE q.over
  <2>1. s = q
    BY <1>5 DEF s, AskByName
  <2>2. FirstGives(c, name, ans, q, n - 1) => FirstGives(c, name, ans, q, n)
    BY <1>1 DEF FirstGives
  <2> QED BY <1>5, <2>1, <2>2 DEF AfterServices, s, service
<1>6. CASE ~q.over /\ service = "bind"
  <2>1. s = BindByName(c, ans, q)
    BY <1>6 DEF s, AskByName
  <2>2. known = Offered(ans)
    BY <1>6 DEF AddressesWith
  <2>3. /\ IsResult(s) /\ ClosedAgain(s)
        /\ \/ ~s.over /\ s.rv = Null /\ (~Astray(ans) => known = {})
           \/ s.over /\ s.rv = Aborts /\ s.by = "bind" /\ (~Astray(ans) => Unexpected(ans))
           \/ GivenBy(s, service, c.multi, ans, known)
    BY <1>3, <1>6, <2>1, <2>2, BindGives
  <2>4. NoneKnows(c, name, ans, n - 1)
    BY <1>6 DEF AfterServices
  <2> HIDE DEF known
  <2>5. CASE ~s.over /\ s.rv = Null /\ (~Astray(ans) => known = {})
    BY <1>4, <2>3, <2>4, <2>5 DEF AfterServices, s, service
  <2>6. CASE s.over /\ s.rv = Aborts /\ s.by = "bind" /\ (~Astray(ans) => Unexpected(ans))
    BY <2>3, <2>6 DEF AfterServices, s, service
  <2>7. CASE GivenBy(s, service, c.multi, ans, known)
    <3>1. FirstGives(c, name, ans, s, n)
      BY <1>1, <2>4, <2>7 DEF FirstGives, service, known
    <3>2. s.over
      BY <2>7 DEF GivenBy
    <3> QED BY <2>3, <3>1, <3>2 DEF AfterServices, s, service
  <2> QED BY <2>3, <2>5, <2>6, <2>7
<1>7. CASE ~q.over /\ service = "hosts"
  <2> DEFINE trimmed == Trim(c.trim, name)
  <2>1. s = HostByName(c, trimmed, q)
    BY <1>7 DEF s, AskByName
  <2>2. known = KeysOf(Naming(trimmed))
    BY <1>7 DEF AddressesWith
  <2> HIDE DEF trimmed
  <2>3. /\ IsResult(s) /\ ClosedAgain(s)
        /\ \/ Naming(trimmed) = {} /\ ~s.over /\ s.rv = Null
           \/ GivenBy(s, "hosts", c.multi, ans, KeysOf(Naming(trimmed)))
    BY <1>3, <1>7, <2>1, HostGives
  <2>4. NoneKnows(c, name, ans, n - 1)
    BY <1>7 DEF AfterServices
  <2>5. Naming(trimmed) = {} => known = {}
    BY <2>2 DEF KeysOf
  <2> HIDE DEF known
  <2>6. CASE Naming(trimmed) = {} /\ ~s.over /\ s.rv = Null
    BY <1>4, <2>3, <2>4, <2>5, <2>6 DEF AfterServices, s, service
  <2>7. CASE GivenBy(s, "hosts", c.multi, ans, KeysOf(Naming(trimmed)))
    <3>1. GivenBy(s, service, c.multi, ans, known)
      BY <1>7, <2>2, <2>7
    <3>2. FirstGives(c, name, ans, s, n)
      BY <1>1, <2>4, <3>1 DEF FirstGives, service, known
    <3>3. s.over
      BY <2>7 DEF GivenBy
    <3> QED BY <2>3, <3>2, <3>3 DEF AfterServices, s, service
  <2> QED BY <2>3, <2>6, <2>7
<1>8. CASE ~q.over /\ service \notin {"bind", "hosts"}
  <2>1. s = q
    BY <1>8 DEF s, AskByName
  <2>2. known = {}
    BY <1>8 DEF AddressesWith
  <2>3. NoneKnows(c, name, ans, n)
    BY <1>4, <1>8, <2>2 DEF AfterServices
  <2> QED BY <1>8, <2>1, <2>3 DEF AfterServices, s, service
<1> QED BY <1>3, <1>5, <1>6, <1>7, <1>8

\* The loop has a value.
LEMMA TurnsByName ==
    ASSUME NEW c, NEW name, NEW ans, NEW r, NEW N \in Nat
    PROVE  \E f : f = [n \in 0 .. N |-> IF n = 0 THEN r
                                        ELSE AskByName(c, name, ans, f[n - 1], c.order[n])]
<1> DEFINE Turn(q, n) == AskByName(c, name, ans, q, c.order[n])
           Is(f, m) == f = [n \in 0 .. m |-> IF n = 0 THEN r ELSE Turn(f[n - 1], n)]
           T == {m \in Nat : \E f : Is(f, m)}
<1> HIDE DEF Turn
<1>1. 0 \in T
  <2>1. Is([n \in 0 .. 0 |-> r], 0)
    OBVIOUS
  <2> QED BY <2>1
<1>2. ASSUME NEW m \in T PROVE m + 1 \in T
  <2>1. PICK f : Is(f, m)
    OBVIOUS
  <2> DEFINE g == [n \in 0 .. m + 1 |-> IF n = m + 1 THEN Turn(f[m], m + 1) ELSE f[n]]
  <2>2. m \in Nat
    OBVIOUS
  <2>3. ASSUME NEW n \in 0 .. m + 1
        PROVE  g[n] = IF n = 0 THEN r ELSE Turn(g[n - 1], n)
    <3>1. CASE n = m + 1
      <4>1. n # 0 /\ n - 1 = m /\ m \in 0 .. m + 1 /\ m # m + 1
        BY <2>2, <3>1
      <4>2. g[n] = Turn(f[m], m + 1) /\ g[n - 1] = f[m]
        BY <3>1, <4>1
      <4> QED BY <3>1, <4>1, <4>2
    <3>2. CASE n # m + 1
      <4>1. n \in 0 .. m /\ (n # 0 => n - 1 \in 0 .. m + 1 /\ n - 1 # m + 1)
        BY <2>2, <3>2
      <4>2. g[n] = f[n] /\ (n # 0 => g[n - 1] = f[n - 1])
        BY <3>2, <4>1
      <4>3. f[n] = IF n = 0 THEN r ELSE Turn(f[n - 1], n)
        BY <2>1, <4>1
      <4> QED BY <4>2, <4>3
    <3> QED BY <3>1, <3>2
  <2>4. g = [n \in 0 .. m + 1 |-> g[n]]
    OBVIOUS
  <2> HIDE DEF g
  <2>5. Is(g, m + 1)
    BY <2>3, <2>4, Zenon
  <2> QED BY <2>2, <2>5
<1>3. N \in T
  <2>1. T \in SUBSET Nat
    OBVIOUS
  <2> HIDE DEF T
  <2> QED BY <1>1, <1>2, <2>1, Climb
<1> QED BY <1>3 DEF Turn

LEMMA ByNameIs ==
    ASSUME input \in Inputs, NEW c, Len(c.order) \in Nat, NEW name,
           NEW ans \in ForwardAnswers \cup {NoAnswer},
           NEW r, AfterServices(c, name, ans, r, 0)
    PROVE  AfterServices(c, name, ans, ByName(c, name, ans, r), Len(c.order))
<1> DEFINE N == Len(c.order)
           q[n \in 0 .. N] ==
               IF n = 0 THEN r ELSE AskByName(c, name, ans, q[n - 1], c.order[n])
           P == [n \in 0 .. N |-> {x \in {q[n]} : AfterServices(c, name, ans, x, n)}]
<1>1. q = [n \in 0 .. N |-> IF n = 0 THEN r
                            ELSE AskByName(c, name, ans, q[n - 1], c.order[n])]
  BY TurnsByName
<1>2. ByName(c, name, ans, r) = q[N]
  BY Zenon DEF ByName
<1> HIDE DEF q, N
<1>3. N \in Nat
  BY DEF N
<1>4. q[0] \in P[0]
  <2>1. q[0] = r /\ 0 \in 0 .. N
    BY <1>1, <1>3
  <2> QED BY <2>1
<1>5. ASSUME NEW i \in 1 .. N, q[i - 1] \in P[i - 1] PROVE q[i] \in P[i]
  <2>1. i \in 0 .. N /\ i - 1 \in 0 .. N /\ i # 0 /\ i \in Nat
    BY <1>3
  <2>2. q[i] = AskByName(c, name, ans, q[i - 1], c.order[i])
    BY <1>1, <2>1
  <2>3. AfterServices(c, name, ans, q[i - 1], i - 1)
    BY <1>5, <2>1
  <2>4. AfterServices(c, name, ans, q[i], i)
    BY <2>1, <2>2, <2>3, AskedNext
  <2> QED BY <2>1, <2>4
<1>6. q[N] \in P[N]
  <2>1. \A i \in 0 .. N : q[i] \in P[i]
    <3> HIDE DEF P
    <3> QED BY <1>3, <1>4, <1>5, AlongEach
  <2> HIDE DEF P
  <2> QED BY <1>3, <2>1
<1>7. AfterServices(c, name, ans, q[N], N)
  <2>1. N \in 0 .. N
    BY <1>3
  <2> QED BY <1>6, <2>1
<1> QED BY <1>2, <1>7 DEF N

IsConf(c) ==
    /\ c = [order |-> c.order, multi |-> c.multi, spoof |-> c.spoof, trim |-> c.trim,
            errs |-> c.errs]
    /\ c.order \in Seq(Service)

\* The names an entry has are names of its line.
LEMMA KeptNames ==
    ASSUME NEW line, IsSequence(line.names)
    PROVE  Range(NamesKept(line)) \subseteq Range(line.names)
<1> DEFINE names == line.names
           n == Len(names)
           k == IF n < MAXALIASES THEN n ELSE MAXALIASES
           kept == [i \in 1 .. k |-> names[i]]
<1>1. n \in Nat /\ DOMAIN names = 1 .. n
  BY DEF IsSequence
<1>2. NamesKept(line) = SubSeq(names, 1, k)
  BY Zenon DEF NamesKept
<1> HIDE DEF n, names
<1>3. k \in Nat /\ k <= n
  BY <1>1, AliasesAssumption
<1> HIDE DEF k
<1>4. SubSeq(names, 1, k) = kept
  BY <1>3
<1>5. DOMAIN kept = 1 .. k /\ \A i \in 1 .. k : kept[i] = names[i] /\ i \in 1 .. n
  BY <1>1, <1>3
<1> HIDE DEF kept
<1>6. Range(kept) \subseteq Range(names)
  BY <1>1, <1>5 DEF Range
<1> QED BY <1>2, <1>4, <1>6 DEF names

\* A name that ends in a dot is in no hosts file.
LEMMA Rooted ==
    ASSUME input \in Inputs, NEW name, IsSequence(name)
    PROVE  Naming(Append(name, Root)) = {}
<1> DEFINE full == Append(name, Root)
<1>1. full # <<>> /\ Last(full) = Root
  <2>1. name \in Seq({name[n] : n \in DOMAIN name} \cup {Root})
    <3>1. name \in Seq({name[n] : n \in DOMAIN name})
      BY DEF IsSequence
    <3> QED BY <3>1
  <2> QED BY <2>1, AppendProperties DEF Last
<1> HIDE DEF full
<1>2. SUFFICES ASSUME NEW i \in AllEntries, full \in Range(NamesKept(Lines[i])) PROVE FALSE
  BY DEF Naming, full
<1>3. Lines # Missing /\ i \in DOMAIN Lines /\ Lines[i].kind = "entry"
  <2>1. Lines # Missing
    BY DEF AllEntries, Ahead, Rewound
  <2>2. Len(Lines) \in Nat /\ DOMAIN Lines = 1 .. Len(Lines)
    BY <2>1, InputsAssumption DEF Lines, IsSequence
  <2>3. 0 + 1 = 1
    OBVIOUS
  <2>4. AllEntries = {k \in 1 .. Len(Lines) : Lines[k].kind = "entry"}
    BY <2>1, <2>3 DEF AllEntries, Ahead, Rewound
  <2> QED BY <2>1, <2>2, <2>4
<1>4. /\ IsSequence(Lines[i].names)
      /\ \A k \in DOMAIN Lines[i].names :
            Lines[i].names[k] = <<>> \/ Last(Lines[i].names[k]) # Root
  BY <1>3, InputsAssumption DEF Lines
<1>5. full \in Range(Lines[i].names)
  BY <1>2, <1>4, KeptNames
<1> QED BY <1>1, <1>4, <1>5 DEF Range

\* No domains trim nothing.
LEMMA NoTrim == \A name : Trim(<<>>, name) = name
<1> SUFFICES ASSUME NEW name PROVE Trim(<<>>, name) = name
  OBVIOUS
<1> DEFINE Cut(n, d) == IF Len(n) > Len(d) /\ IsSuffix(d, n)
                        THEN SubSeq(n, 1, Len(n) - Len(d)) ELSE n
           trimmed[n \in 0 .. Len(<<>>)] ==
               IF n = 0 THEN name ELSE Cut(trimmed[n - 1], <<>>[n])
           f == [n \in 0 .. 0 |-> name]
<1>1. Len(<<>>) = 0 /\ 0 \in 0 .. 0 /\ \A n \in 0 .. 0 : n = 0
  OBVIOUS
<1>2. f = [n \in 0 .. Len(<<>>) |-> IF n = 0 THEN name ELSE Cut(f[n - 1], <<>>[n])]
  <2> HIDE DEF Cut
  <2> QED BY <1>1
<1>3. trimmed = [n \in 0 .. Len(<<>>) |-> IF n = 0 THEN name ELSE Cut(trimmed[n - 1], <<>>[n])]
  <2> HIDE DEF Cut, f
  <2> QED BY <1>2
<1>4. Trim(<<>>, name) = trimmed[Len(<<>>)]
  BY Zenon DEF Trim
<1> HIDE DEF trimmed, Cut
<1>5. trimmed[0] = name
  BY <1>1, <1>3
<1> QED BY <1>1, <1>4, <1>5
-----------------------------------------------------------------------------
(***************************************************************************)
(* gethostbyaddr(): what DNS says of an address has that address, and has  *)
(* been confirmed if it shall be.                                          *)
(***************************************************************************)
Confirmed(c, addr, fwd, q) ==
    /\ IsResult(q) /\ ClosedAgain(q)
    /\ ~q.over => q.rv = Null /\ q.by # "bind"
    /\ q.by = "bind" /\ q.rv # Aborts =>
          addr \in Range(q.rv.addrs) /\ (c.spoof /\ ~Astray(fwd) => addr \in Offered(fwd))

\* A result that is final although nothing was found.
LEMMA FinalIs ==
    ASSUME NEW r, IsResult(r), ClosedAgain(r), NEW err
    PROVE  LET q == [NotFound(r, err) EXCEPT !.over = TRUE]
           IN IsResult(q) /\ ClosedAgain(q) /\ q.over /\ q.rv = Null /\ q.by = None
<1> DEFINE yes == TRUE
           q == [NotFound(r, err) EXCEPT !.over = yes]
<1>1. yes \in BOOLEAN
  OBVIOUS
<1>2. NotFound(r, err) = [rv |-> Null, err |-> err, at |-> r.at, db |-> r.db,
                          asked |-> r.asked, by |-> None, over |-> r.over]
  BY Results
<1> HIDE DEF yes
<1>3. q = [rv |-> Null, err |-> err, at |-> r.at, db |-> r.db,
           asked |-> r.asked, by |-> None, over |-> yes]
  BY <1>2
<1> HIDE DEF q
<1>4. /\ IsResult(q) /\ q.rv = Null /\ q.by = None /\ q.over = yes
      /\ ClosedAgain(q) <=> ("hosts" \in r.asked /\ r.at.open => stay)
  BY <1>1, <1>3, IsOne
<1>5. ClosedAgain(q) /\ yes
  BY <1>4 DEF ClosedAgain, yes
<1> QED BY <1>4, <1>5 DEF q, yes

LEMMA NothingTrimmed ==
    ASSUME NEW c, IsConf(c)
    PROVE  LET d == [c EXCEPT !.trim = <<>>]
           IN d.order = c.order /\ d.trim = <<>>
BY DEF IsConf

\* The services have been asked for the name with the final dot, which only
\* DNS can know.
LEMMA Verifies ==
    ASSUME input \in Inputs, NEW c, IsConf(c), NEW addr, NEW name, IsSequence(name),
           NEW fwd \in ForwardAnswers \cup {NoAnswer},
           NEW r, IsResult(r), ClosedAgain(r), ~r.over, r.rv = Null
    PROVE  Confirmed(c, addr, fwd, Verified(c, addr, name, fwd, r))
<1> DEFINE d == [c EXCEPT !.trim = <<>>]
           full == Append(name, Root)
           q == ByName(d, full, fwd, r)
           v == Verified(c, addr, name, fwd, r)
<1>1. d.order = c.order /\ d.trim = <<>> /\ Len(d.order) \in Nat
  <2>1. d.order = c.order /\ d.trim = <<>>
    BY NothingTrimmed
  <2>2. c.order \in Seq(Service)
    BY DEF IsConf
  <2> QED BY <2>1, <2>2
<1>2. Naming(full) = {}
  BY Rooted
<1> HIDE DEF d, full
<1>3. AfterServices(d, full, fwd, r, 0)
  <2>1. 1 .. 0 = {}
    OBVIOUS
  <2> QED BY <2>1 DEF AfterServices, NoneKnows
<1>4. AfterServices(d, full, fwd, q, Len(d.order))
  BY <1>1, <1>3, ByNameIs
<1>5. /\ q.rv = Aborts => v = q
      /\ q.rv \notin {Null, Aborts} /\ Confirms(q.rv, name, addr) =>
            v = Found(q, "bind", trim_domains(c.trim, q.rv))
      /\ q.rv # Aborts /\ ~(q.rv \notin {Null, Aborts} /\ Confirms(q.rv, name, addr)) =>
            v = [NotFound(q, "HOST_NOT_FOUND") EXCEPT !.over = TRUE]
  <2>1. v = CASE q.rv = Aborts -> q
              [] q.rv \notin {Null, Aborts} /\ Confirms(q.rv, name, addr) ->
                    Found(q, "bind", trim_domains(c.trim, q.rv))
              [] OTHER -> [NotFound(q, "HOST_NOT_FOUND") EXCEPT !.over = TRUE]
    BY Zenon DEF Verified, d, full
  <2> HIDE DEF q, v
  <2> DEFINE k == Confirms(q.rv, name, addr)
             a == Found(q, "bind", trim_domains(c.trim, q.rv))
             b == [NotFound(q, "HOST_NOT_FOUND") EXCEPT !.over = TRUE]
  <2> HIDE DEF k, a, b
  <2>2. v = CASE q.rv = Aborts -> q
              [] q.rv \notin {Null, Aborts} /\ k -> a
              [] OTHER -> b
    BY <2>1 DEF a, b, k
  <2>3. /\ q.rv = Aborts => v = q
        /\ q.rv \notin {Null, Aborts} /\ k => v = a
        /\ q.rv # Aborts /\ ~(q.rv \notin {Null, Aborts} /\ k) => v = b
    BY <2>2
  <2> QED BY <2>3 DEF a, b, k
<1> HIDE DEF q, v
<1>6. IsResult(q) /\ ClosedAgain(q)
  BY <1>4 DEF AfterServices
<1>7. None # "bind"
  BY NullAssumption DEF Service
<1>8. CASE q.rv = Aborts
  <2>1. q.over
    BY <1>4, <1>8, NullAssumption DEF AfterServices
  <2> QED BY <1>5, <1>6, <1>8, <2>1 DEF Confirmed, v
<1>9. CASE q.rv \notin {Null, Aborts} /\ Confirms(q.rv, name, addr)
  <2> DEFINE hp == trim_domains(c.trim, q.rv)
  <2>1. v = Found(q, "bind", hp)
    BY <1>5, <1>9
  <2>2. FirstGives(d, full, fwd, q, Len(d.order))
    BY <1>4, <1>9 DEF AfterServices
  <2>3. PICK service : GivenBy(q, service, d.multi, fwd, AddressesWith(d, service, full, fwd))
    BY <2>2 DEF FirstGives
  <2>4. ASSUME ~Astray(fwd) PROVE service = "bind"
    <3>1. AddressesWith(d, service, full, fwd) # {}
      BY <2>3, <2>4 DEF GivenBy, Serves
    <3>2. Trim(d.trim, full) = full
      BY <1>1, NoTrim
    <3>3. KeysOf(Naming(full)) = {}
      BY <1>2 DEF KeysOf
    <3> QED BY <3>1, <3>2, <3>3 DEF AddressesWith
  <2>5. HasAddrs(q.rv) /\ (~Astray(fwd) => FirstOf(q.rv.addrs, fwd))
    BY <2>3, <2>4 DEF GivenBy, Serves
  <2>6. /\ addr \in Range(q.rv.addrs)
        /\ ~Astray(fwd) => addr \in Offered(fwd)
    <3>1. addr \in Range(q.rv.addrs)
      BY <1>9 DEF Confirms
    <3>2. PICK n \in DOMAIN q.rv.addrs : addr = q.rv.addrs[n]
      BY <3>1 DEF Range
    <3>3. ~Astray(fwd) => addr \in Offered(fwd)
      BY <2>5, <3>2 DEF FirstOf, Offered
    <3> QED BY <3>1, <3>3
  <2>7. hp.addrs = q.rv.addrs
    BY <2>5, Trimmed
  <2> HIDE DEF hp
  <2>8. IsResult(v) /\ ClosedAgain(v) /\ v.over /\ v.rv = hp
    BY <1>6, <2>1, FoundIs
  <2> QED BY <2>5, <2>6, <2>7, <2>8 DEF Confirmed, v
<1>10. CASE q.rv # Aborts /\ ~(q.rv \notin {Null, Aborts} /\ Confirms(q.rv, name, addr))
  <2>1. v = [NotFound(q, "HOST_NOT_FOUND") EXCEPT !.over = TRUE]
    BY <1>5, <1>10
  <2>2. IsResult(v) /\ ClosedAgain(v) /\ v.over /\ v.by = None
    BY <1>6, <2>1, FinalIs
  <2> QED BY <1>7, <2>2 DEF Confirmed, v
<1> QED BY <1>8, <1>9, <1>10

LEMMA BindSaysOf ==
    ASSUME input \in Inputs, NEW c, IsConf(c), NEW addr,
           NEW rev \in ReverseAnswers \cup {NoAnswer},
           NEW fwd \in ForwardAnswers \cup {NoAnswer},
           NEW r, IsResult(r), ClosedAgain(r), ~r.over, r.rv = Null
    PROVE  Confirmed(c, addr, fwd, BindByAddr(c, addr, rev, fwd, r))
<1> DEFINE hp == getanswer("PTR", rev)
           a == Asked(r, "bind")
           q == BindByAddr(c, addr, rev, fwd, r)
           one == [hp EXCEPT !.addrs = <<addr>>]
<1>1. \/ hp \in {Aborts, Null}
      \/ HasAddrs(hp) /\ IsSequence(hp.name) /\ IsHost(hp)
  BY Replies, GetanswerPTR
<1>2. IsResult(a) /\ ClosedAgain(a) /\ ~a.over /\ a.rv = Null
  BY AskedIs
<1>3. None # "bind" /\ Null # Aborts
  BY NullAssumption DEF Service
<1>4. /\ rev.rc # "NETDB_SUCCESS" => q = NotFound(a, rev.rc)
      /\ rev.rc = "NETDB_SUCCESS" /\ hp = Null => q = NotFound(a, "HOST_NOT_FOUND")
      /\ rev.rc = "NETDB_SUCCESS" /\ hp = Aborts => q = Found(a, "bind", Aborts)
      /\ rev.rc = "NETDB_SUCCESS" /\ hp \notin {Null, Aborts} =>
            q = IF c.spoof THEN Verified(c, addr, hp.name, fwd, a)
                ELSE Found(a, "bind", trim_domains(c.trim, one))
  <2> DEFINE n == NotFound(a, rev.rc)
             m == NotFound(a, "HOST_NOT_FOUND")
             f == Found(a, "bind", Aborts)
             w == IF c.spoof THEN Verified(c, addr, hp.name, fwd, a)
                  ELSE Found(a, "bind", trim_domains(c.trim, one))
  <2>1. q = CASE rev.rc # "NETDB_SUCCESS" -> n
              [] rev.rc = "NETDB_SUCCESS" /\ hp = Null -> m
              [] rev.rc = "NETDB_SUCCESS" /\ hp = Aborts -> f
              [] OTHER -> w
    BY Zenon DEF BindByAddr
  <2> HIDE DEF q, hp, a, n, m, f, w
  <2>2. /\ rev.rc # "NETDB_SUCCESS" => q = n
        /\ rev.rc = "NETDB_SUCCESS" /\ hp = Null => q = m
        /\ rev.rc = "NETDB_SUCCESS" /\ hp = Aborts => q = f
        /\ rev.rc = "NETDB_SUCCESS" /\ hp \notin {Null, Aborts} => q = w
    BY <1>3, <2>1
  <2> QED BY <2>2 DEF n, m, f, w
<1> HIDE DEF hp, a, q
<1>5. CASE rev.rc # "NETDB_SUCCESS"
  <2>1. q = NotFound(a, rev.rc)
    BY <1>4, <1>5
  <2> QED BY <1>2, <1>3, <2>1, NotFoundIs DEF Confirmed, q
<1>6. CASE rev.rc = "NETDB_SUCCESS" /\ hp = Null
  <2>1. q = NotFound(a, "HOST_NOT_FOUND")
    BY <1>4, <1>6
  <2> QED BY <1>2, <1>3, <2>1, NotFoundIs DEF Confirmed, q
<1>7. CASE rev.rc = "NETDB_SUCCESS" /\ hp = Aborts
  <2>1. q = Found(a, "bind", Aborts)
    BY <1>4, <1>7
  <2> QED BY <1>2, <2>1, FoundIs DEF Confirmed, q
<1>8. CASE rev.rc = "NETDB_SUCCESS" /\ hp \notin {Null, Aborts} /\ c.spoof
  <2>1. q = Verified(c, addr, hp.name, fwd, a)
    BY <1>4, <1>8
  <2>2. IsSequence(hp.name)
    BY <1>1, <1>8
  <2> QED BY <1>2, <2>1, <2>2, Verifies DEF q
<1>9. CASE rev.rc = "NETDB_SUCCESS" /\ hp \notin {Null, Aborts} /\ ~c.spoof
  <2> DEFINE t == trim_domains(c.trim, one)
  <2>1. q = Found(a, "bind", t)
    BY <1>4, <1>9
  <2>2. HasAddrs(one) /\ one.addrs = <<addr>>
    BY <1>1, <1>9 DEF HasAddrs, IsHost
  <2> HIDE DEF one
  <2>3. t.addrs = <<addr>>
    BY <2>2, Trimmed
  <2> HIDE DEF t
  <2>4. IsResult(q) /\ ClosedAgain(q) /\ q.over /\ q.rv = t /\ q.by = "bind"
    BY <1>2, <2>1, FoundIs
  <2>5. addr \in Range(<<addr>>)
    BY DEF Range
  <2> QED BY <1>9, <2>3, <2>4, <2>5 DEF Confirmed, q
<1> QED BY <1>5, <1>6, <1>7, <1>8, <1>9

LEMMA HostSaysOf ==
    ASSUME NEW c, NEW addr, NEW fwd, NEW r, IsResult(r), ~r.over
    PROVE  Confirmed(c, addr, fwd, HostByAddr(addr, r))
<1> DEFINE I == {i \in Ahead(Lines, _sethtent(r.at)) : Lines[i].key = addr}
           s == Scanned(r, I)
           q == HostByAddr(addr, r)
<1>1. IsResult(s) /\ ClosedAgain(s) /\ ~s.over
  BY ScannedIs
<1>2. q = IF I = {} THEN NotFound(s, "HOST_NOT_FOUND")
          ELSE Found(s, "hosts", Entry(Least(I)))
  BY Zenon DEF HostByAddr
<1>3. None # "bind" /\ "hosts" # "bind"
  BY NullAssumption DEF Service
<1> HIDE DEF q, s, I
<1>4. CASE I = {}
  <2>1. q = NotFound(s, "HOST_NOT_FOUND")
    BY <1>2, <1>4
  <2> QED BY <1>1, <1>3, <2>1, NotFoundIs DEF Confirmed, q
<1>5. CASE I # {}
  <2>1. q = Found(s, "hosts", Entry(Least(I)))
    BY <1>2, <1>5
  <2>2. IsResult(q) /\ ClosedAgain(q) /\ q.over /\ q.by = "hosts"
    BY <1>1, <2>1, FoundIs
  <2> QED BY <1>3, <2>2 DEF Confirmed, q
<1> QED BY <1>4, <1>5

LEMMA AskedNextOf ==
    ASSUME input \in Inputs, NEW c, IsConf(c), NEW addr,
           NEW rev \in ReverseAnswers \cup {NoAnswer},
           NEW fwd \in ForwardAnswers \cup {NoAnswer},
           NEW q, Confirmed(c, addr, fwd, q), NEW service
    PROVE  Confirmed(c, addr, fwd, AskByAddr(c, addr, rev, fwd, q, service))
<1>1. IsResult(q) /\ ClosedAgain(q) /\ q.over \in BOOLEAN /\ (~q.over => q.rv = Null)
  BY DEF Confirmed, IsResult
<1> DEFINE s == AskByAddr(c, addr, rev, fwd, q, service)
<1>2. CASE q.over
  <2>1. s = q
    BY <1>2 DEF AskByAddr
  <2> QED BY <2>1
<1>3. CASE ~q.over /\ service = "bind"
  <2>1. s = BindByAddr(c, addr, rev, fwd, q)
    BY <1>3 DEF AskByAddr
  <2> QED BY <1>1, <1>3, <2>1, BindSaysOf
<1>4. CASE ~q.over /\ service = "hosts"
  <2>1. s = HostByAddr(addr, q)
    BY <1>4 DEF AskByAddr
  <2> QED BY <1>1, <1>4, <2>1, HostSaysOf
<1>5. CASE ~q.over /\ service \notin {"bind", "hosts"}
  <2>1. s = q
    BY <1>5 DEF AskByAddr
  <2> QED BY <2>1
<1> QED BY <1>1, <1>2, <1>3, <1>4, <1>5

\* The loop has a value.
LEMMA TurnsByAddr ==
    ASSUME NEW c, NEW addr, NEW rev, NEW fwd, NEW r, NEW N \in Nat
    PROVE  \E f : f = [n \in 0 .. N |-> IF n = 0 THEN r
                                        ELSE AskByAddr(c, addr, rev, fwd, f[n - 1], c.order[n])]
<1> DEFINE Turn(q, n) == AskByAddr(c, addr, rev, fwd, q, c.order[n])
           Is(f, m) == f = [n \in 0 .. m |-> IF n = 0 THEN r ELSE Turn(f[n - 1], n)]
           T == {m \in Nat : \E f : Is(f, m)}
<1> HIDE DEF Turn
<1>1. 0 \in T
  <2>1. Is([n \in 0 .. 0 |-> r], 0)
    OBVIOUS
  <2> QED BY <2>1
<1>2. ASSUME NEW m \in T PROVE m + 1 \in T
  <2>1. PICK f : Is(f, m)
    OBVIOUS
  <2> DEFINE g == [n \in 0 .. m + 1 |-> IF n = m + 1 THEN Turn(f[m], m + 1) ELSE f[n]]
  <2>2. m \in Nat
    OBVIOUS
  <2>3. ASSUME NEW n \in 0 .. m + 1
        PROVE  g[n] = IF n = 0 THEN r ELSE Turn(g[n - 1], n)
    <3>1. CASE n = m + 1
      <4>1. n # 0 /\ n - 1 = m /\ m \in 0 .. m + 1 /\ m # m + 1
        BY <2>2, <3>1
      <4>2. g[n] = Turn(f[m], m + 1) /\ g[n - 1] = f[m]
        BY <3>1, <4>1
      <4> QED BY <3>1, <4>1, <4>2
    <3>2. CASE n # m + 1
      <4>1. n \in 0 .. m /\ (n # 0 => n - 1 \in 0 .. m + 1 /\ n - 1 # m + 1)
        BY <2>2, <3>2
      <4>2. g[n] = f[n] /\ (n # 0 => g[n - 1] = f[n - 1])
        BY <3>2, <4>1
      <4>3. f[n] = IF n = 0 THEN r ELSE Turn(f[n - 1], n)
        BY <2>1, <4>1
      <4> QED BY <4>2, <4>3
    <3> QED BY <3>1, <3>2
  <2>4. g = [n \in 0 .. m + 1 |-> g[n]]
    OBVIOUS
  <2> HIDE DEF g
  <2>5. Is(g, m + 1)
    BY <2>3, <2>4, Zenon
  <2> QED BY <2>2, <2>5
<1>3. N \in T
  <2>1. T \in SUBSET Nat
    OBVIOUS
  <2> HIDE DEF T
  <2> QED BY <1>1, <1>2, <2>1, Climb
<1> QED BY <1>3 DEF Turn

LEMMA ByAddrIs ==
    ASSUME input \in Inputs, NEW c, IsConf(c), NEW addr,
           NEW rev \in ReverseAnswers \cup {NoAnswer},
           NEW fwd \in ForwardAnswers \cup {NoAnswer},
           NEW r, Confirmed(c, addr, fwd, r)
    PROVE  Confirmed(c, addr, fwd, ByAddr(c, addr, rev, fwd, r))
<1> DEFINE N == Len(c.order)
           q[n \in 0 .. N] ==
               IF n = 0 THEN r ELSE AskByAddr(c, addr, rev, fwd, q[n - 1], c.order[n])
           P == [n \in 0 .. N |-> {x \in {q[n]} : Confirmed(c, addr, fwd, x)}]
<1>1. q = [n \in 0 .. N |-> IF n = 0 THEN r
                            ELSE AskByAddr(c, addr, rev, fwd, q[n - 1], c.order[n])]
  BY TurnsByAddr
<1>2. ByAddr(c, addr, rev, fwd, r) = q[N]
  BY Zenon DEF ByAddr
<1> HIDE DEF q, N
<1>3. N \in Nat
  <2>1. c.order \in Seq(Service)
    BY DEF IsConf
  <2> QED BY <2>1 DEF N
<1>4. q[0] \in P[0]
  <2>1. q[0] = r /\ 0 \in 0 .. N
    BY <1>1, <1>3
  <2> QED BY <2>1
<1>5. ASSUME NEW i \in 1 .. N, q[i - 1] \in P[i - 1] PROVE q[i] \in P[i]
  <2>1. i \in 0 .. N /\ i - 1 \in 0 .. N /\ i # 0 /\ i \in Nat
    BY <1>3
  <2>2. q[i] = AskByAddr(c, addr, rev, fwd, q[i - 1], c.order[i])
    BY <1>1, <2>1
  <2>3. Confirmed(c, addr, fwd, q[i - 1])
    BY <1>5, <2>1
  <2>4. Confirmed(c, addr, fwd, q[i])
    BY <2>1, <2>2, <2>3, AskedNextOf
  <2> QED BY <2>1, <2>4
<1>6. q[N] \in P[N]
  <2>1. \A i \in 0 .. N : q[i] \in P[i]
    <3> HIDE DEF P
    <3> QED BY <1>3, <1>4, <1>5, AlongEach
  <2> HIDE DEF P
  <2> QED BY <1>3, <2>1
<1>7. Confirmed(c, addr, fwd, q[N])
  <2>1. N \in 0 .. N
    BY <1>3
  <2> QED BY <1>6, <2>1
<1> QED BY <1>2, <1>7 DEF N
-----------------------------------------------------------------------------
(***************************************************************************)
(* What init_services() finds out is a configuration.                      *)
(***************************************************************************)
LEMMA ServicesAre ==
    ASSUME NEW words, IsSequence(words)
    PROVE  Services(words) \in Seq(Service)
<1> DEFINE N == Len(words)
           R == Seq(Service)
           step == [n \in 1 .. N |-> [u \in R |-> IF words[n] \in Service
                                                  THEN Append(u, words[n]) ELSE u]]
           known[n \in 0 .. N] ==
               IF n = 0 THEN <<>>
               ELSE IF words[n] \in Service THEN Append(known[n - 1], words[n])
               ELSE known[n - 1]
<1>1. N \in Nat /\ <<>> \in R
  BY DEF IsSequence
<1> HIDE DEF N
<1>2. step \in [1 .. N -> [R -> R]]
  OBVIOUS
<1>3. PICK f : Iterates(f, N, R, <<>>, step)
  <2> HIDE DEF step, R, known
  <2> QED BY <1>1, <1>2, Iteration, Zenon
<1>4. f \in [0 .. N -> R] /\ f[0] = <<>>
  BY <1>3 DEF Iterates
<1>5. ASSUME NEW i \in 1 .. N
      PROVE  f[i] = IF words[i] \in Service THEN Append(f[i - 1], words[i]) ELSE f[i - 1]
  <2>1. i - 1 \in 0 .. N
    BY <1>1
  <2>2. f[i - 1] \in R /\ f[i] = step[i][f[i - 1]]
    BY <1>3, <1>4, <2>1 DEF Iterates
  <2> HIDE DEF R
  <2> QED BY <2>2
<1>6. f = [n \in 0 .. N |-> IF n = 0 THEN <<>>
                            ELSE IF words[n] \in Service THEN Append(f[n - 1], words[n])
                            ELSE f[n - 1]]
  <2> HIDE DEF R
  <2>1. ASSUME NEW n \in 0 .. N
        PROVE  f[n] = IF n = 0 THEN <<>>
                      ELSE IF words[n] \in Service THEN Append(f[n - 1], words[n])
                      ELSE f[n - 1]
    <3>1. n = 0 \/ n \in 1 .. N
      BY <1>1
    <3> QED BY <1>1, <1>4, <1>5, <3>1
  <2>2. f = [n \in 0 .. N |-> f[n]]
    BY <1>4
  <2> QED BY <2>1, <2>2, Zenon
<1>7. known = [n \in 0 .. N |-> IF n = 0 THEN <<>>
                                ELSE IF words[n] \in Service
                                THEN Append(known[n - 1], words[n]) ELSE known[n - 1]]
  BY <1>6
<1>8. Services(words) = known[N]
  BY Zenon DEF Services, N
<1> HIDE DEF known
<1>9. known[0] \in R
  BY <1>1, <1>7
<1>10. ASSUME NEW i \in 1 .. N, known[i - 1] \in R PROVE known[i] \in R
  <2>1. i \in 0 .. N /\ i # 0
    BY <1>1
  <2>2. known[i] = IF words[i] \in Service THEN Append(known[i - 1], words[i])
                   ELSE known[i - 1]
    BY <1>7, <2>1
  <2> QED BY <1>10, <2>2
<1>11. known[N] \in R
  <2>1. \A i \in 0 .. N : known[i] \in R
    <3> HIDE DEF R
    <3> QED BY <1>1, <1>9, <1>10, Along
  <2> QED BY <1>1, <2>1
<1> QED BY <1>8, <1>11

LEMMA ConfWith ==
    ASSUME NEW c, IsConf(c), NEW v
    PROVE  /\ v \in Seq(Service) => IsConf([c EXCEPT !.order = v])
           /\ IsConf([c EXCEPT !.multi = v]) /\ IsConf([c EXCEPT !.spoof = v])
           /\ IsConf([c EXCEPT !.trim = v]) /\ IsConf([c EXCEPT !.errs = v])
<1> DEFINE o == c.order
           m == c.multi
           s == c.spoof
           t == c.trim
           e == c.errs
<1>1. c = [order |-> o, multi |-> m, spoof |-> s, trim |-> t, errs |-> e]
      /\ o \in Seq(Service)
  BY DEF IsConf
<1> HIDE DEF o, m, s, t, e
<1>2. \A a, b, d, f, g : a \in Seq(Service) =>
         IsConf([order |-> a, multi |-> b, spoof |-> d, trim |-> f, errs |-> g])
  BY DEF IsConf
<1>3. /\ [c EXCEPT !.order = v] = [order |-> v, multi |-> m, spoof |-> s, trim |-> t, errs |-> e]
      /\ [c EXCEPT !.multi = v] = [order |-> o, multi |-> v, spoof |-> s, trim |-> t, errs |-> e]
      /\ [c EXCEPT !.spoof = v] = [order |-> o, multi |-> m, spoof |-> v, trim |-> t, errs |-> e]
      /\ [c EXCEPT !.trim = v] = [order |-> o, multi |-> m, spoof |-> s, trim |-> v, errs |-> e]
      /\ [c EXCEPT !.errs = v] = [order |-> o, multi |-> m, spoof |-> s, trim |-> t, errs |-> v]
  BY <1>1
<1> QED BY <1>1, <1>2, <1>3

LEMMA LineKeeps ==
    ASSUME NEW c, IsConf(c), NEW line, line.cmd = "order" => IsSequence(line.args)
    PROVE  IsConf(Line(c, line))
<1>1. IsConf(Wrong(c))
  BY ConfWith DEF Wrong
<1>2. line.cmd = "order" => IsConf(Order(c, line.args))
  <2> SUFFICES ASSUME line.cmd = "order", line.args # <<>>
               PROVE  IsConf(Order(c, line.args))
    BY <1>1 DEF Order
  <2> DEFINE order == c.order \o Services(line.args)
             bad == Cardinality({n \in DOMAIN line.args : line.args[n] \notin Service})
             d == [c EXCEPT !.order = order]
             e == c.errs + bad + (IF order = <<>> THEN 1 ELSE 0)
  <2>1. order \in Seq(Service)
    BY ServicesAre DEF IsConf
  <2>2. Order(c, line.args) = [d EXCEPT !.errs = e]
    BY Zenon DEF Order
  <2> HIDE DEF order, e
  <2>3. IsConf(d)
    BY <2>1, ConfWith
  <2> HIDE DEF d
  <2>4. IsConf([d EXCEPT !.errs = e])
    BY <2>3, ConfWith
  <2> QED BY <2>2, <2>4, Zenon
<1> DEFINE on == line.args = <<"on">>
           all == WithDomains(c.trim, line.args)
           w == Wrong(c)
           o == Order(c, line.args)
           legal == Legal(line.args)
           dm == [c EXCEPT !.multi = on]
           ds == [c EXCEPT !.spoof = on]
           dt == [c EXCEPT !.trim = all]
           trims == IF Len(c.trim) = MAXTRIMDOMAINS THEN c
                    ELSE IF line.args = <<>> THEN w ELSE dt
<1>3. IsConf(dm) /\ IsConf(ds) /\ IsConf(dt)
  <2> HIDE DEF on, all
  <2> QED BY ConfWith
<1>4. Line(c, line) =
         CASE line.cmd = "comment" -> c
           [] line.cmd = "order"   -> o
           [] line.cmd \in Switches /\ ~legal -> w
           [] line.cmd = "multi"   -> dm
           [] line.cmd = "nospoof" -> ds
           [] line.cmd \in Switches -> c
           [] line.cmd = "trim"    -> trims
           [] OTHER -> w
  BY Zenon DEF Line
<1>5. IsConf(trims)
  <2> HIDE DEF w, dt
  <2> QED BY <1>1, <1>3 DEF w
<1> HIDE DEF w, o, legal, dm, ds, trims
<1>6. \/ Line(c, line) \in {c, w, dm, ds, trims}
      \/ line.cmd = "order" /\ Line(c, line) = o
  BY <1>4 DEF Switches
<1> QED BY <1>1, <1>2, <1>3, <1>5, <1>6 DEF w, o

\* A line is parsed unless an earlier one was wrong.
LineUnlessWrong(lines, c, n) == IF c.errs > 0 THEN c ELSE Line(c, lines[n])

\* The lines, one after the other.
LEMMA TurnsOfLines ==
    ASSUME NEW lines, NEW N \in Nat
    PROVE  \E f : f = [n \in 0 .. N |-> IF n = 0 THEN Unconfigured
                                        ELSE LineUnlessWrong(lines, f[n - 1], n)]
<1> DEFINE Turn(q, n) == LineUnlessWrong(lines, q, n)
           Is(f, m) == f = [n \in 0 .. m |-> IF n = 0 THEN Unconfigured ELSE Turn(f[n - 1], n)]
           T == {m \in Nat : \E f : Is(f, m)}
<1> HIDE DEF Turn
<1>1. 0 \in T
  <2>1. Is([n \in 0 .. 0 |-> Unconfigured], 0)
    OBVIOUS
  <2> QED BY <2>1
<1>2. ASSUME NEW m \in T PROVE m + 1 \in T
  <2>1. PICK f : Is(f, m)
    OBVIOUS
  <2> DEFINE g == [n \in 0 .. m + 1 |-> IF n = m + 1 THEN Turn(f[m], m + 1) ELSE f[n]]
  <2>2. m \in Nat
    OBVIOUS
  <2>3. ASSUME NEW n \in 0 .. m + 1
        PROVE  g[n] = IF n = 0 THEN Unconfigured ELSE Turn(g[n - 1], n)
    <3>1. CASE n = m + 1
      <4>1. n # 0 /\ n - 1 = m /\ m \in 0 .. m + 1 /\ m # m + 1
        BY <2>2, <3>1
      <4>2. g[n] = Turn(f[m], m + 1) /\ g[n - 1] = f[m]
        BY <3>1, <4>1
      <4> QED BY <3>1, <4>1, <4>2
    <3>2. CASE n # m + 1
      <4>1. n \in 0 .. m /\ (n # 0 => n - 1 \in 0 .. m + 1 /\ n - 1 # m + 1)
        BY <2>2, <3>2
      <4>2. g[n] = f[n] /\ (n # 0 => g[n - 1] = f[n - 1])
        BY <3>2, <4>1
      <4>3. f[n] = IF n = 0 THEN Unconfigured ELSE Turn(f[n - 1], n)
        BY <2>1, <4>1
      <4> QED BY <4>2, <4>3
    <3> QED BY <3>1, <3>2
  <2>4. g = [n \in 0 .. m + 1 |-> g[n]]
    OBVIOUS
  <2> HIDE DEF g
  <2>5. Is(g, m + 1)
    BY <2>3, <2>4, Zenon
  <2> QED BY <2>2, <2>5
<1>3. N \in T
  <2>1. T \in SUBSET Nat
    OBVIOUS
  <2> HIDE DEF T
  <2> QED BY <1>1, <1>2, <2>1, Climb
<1> QED BY <1>3 DEF Turn

LEMMA ParsedIs ==
    ASSUME NEW lines, IsSequence(lines),
           \A n \in DOMAIN lines : lines[n].cmd = "order" => IsSequence(lines[n].args)
    PROVE  IsConf(Parsed(lines))
<1> DEFINE N == Len(lines)
           parsed[n \in 0 .. N] ==
               IF n = 0 THEN Unconfigured
               ELSE IF parsed[n - 1].errs > 0 THEN parsed[n - 1]
               ELSE Line(parsed[n - 1], lines[n])
           P == [n \in 0 .. N |-> {x \in {parsed[n]} : IsConf(x)}]
<1>1. N \in Nat /\ DOMAIN lines = 1 .. N
  BY DEF IsSequence
<1>2. parsed = [n \in 0 .. N |-> IF n = 0 THEN Unconfigured
                                 ELSE LineUnlessWrong(lines, parsed[n - 1], n)]
  <2> HIDE DEF N
  <2>1. PICK f : f = [n \in 0 .. N |-> IF n = 0 THEN Unconfigured
                                       ELSE LineUnlessWrong(lines, f[n - 1], n)]
    BY <1>1, TurnsOfLines
  <2>2. f = [n \in 0 .. N |-> IF n = 0 THEN Unconfigured
                              ELSE IF f[n - 1].errs > 0 THEN f[n - 1]
                              ELSE Line(f[n - 1], lines[n])]
    BY <2>1, Zenon DEF LineUnlessWrong
  <2>3. parsed = [n \in 0 .. N |-> IF n = 0 THEN Unconfigured
                              ELSE IF parsed[n - 1].errs > 0 THEN parsed[n - 1]
                              ELSE Line(parsed[n - 1], lines[n])]
    BY <2>2
  <2> HIDE DEF parsed
  <2> QED BY <2>3, Zenon DEF LineUnlessWrong
<1>3. Parsed(lines) = parsed[N]
  BY Zenon DEF Parsed
<1> HIDE DEF parsed, N
<1>4. parsed[0] \in P[0]
  <2>1. parsed[0] = Unconfigured /\ 0 \in 0 .. N
    BY <1>1, <1>2
  <2>2. <<>> \in Seq(Service)
    OBVIOUS
  <2>3. IsConf(Unconfigured)
    BY <2>2 DEF IsConf, Unconfigured
  <2> QED BY <2>1, <2>3
<1>5. ASSUME NEW i \in 1 .. N, parsed[i - 1] \in P[i - 1] PROVE parsed[i] \in P[i]
  <2>1. i \in 0 .. N /\ i - 1 \in 0 .. N /\ i # 0
    BY <1>1
  <2>2. parsed[i] = LineUnlessWrong(lines, parsed[i - 1], i)
    BY <1>2, <2>1
  <2>3. IsConf(parsed[i - 1])
    BY <1>5, <2>1
  <2>4. IsConf(Line(parsed[i - 1], lines[i]))
    BY <1>1, <2>3, LineKeeps
  <2>5. IsConf(parsed[i])
    BY <2>2, <2>3, <2>4 DEF LineUnlessWrong
  <2> QED BY <2>1, <2>5
<1>6. parsed[N] \in P[N]
  <2>1. \A i \in 0 .. N : parsed[i] \in P[i]
    <3> HIDE DEF P
    <3> QED BY <1>1, <1>4, <1>5, AlongEach
  <2> HIDE DEF P
  <2> QED BY <1>1, <2>1
<1>7. IsConf(parsed[N])
  <2>1. N \in 0 .. N
    BY <1>1
  <2> QED BY <1>6, <2>1
<1> QED BY <1>3, <1>7

LEMMA ConfIs == ASSUME input \in Inputs PROVE IsConf(Conf)
<1> DEFINE file == input.conf
           env == input.env
           c == IF file = Missing THEN Default(input.dns) ELSE Parsed(file)
           o == IF env.order \in {None, <<>>} THEN c.order ELSE Services(env.order)
           s == IF env.spoof = None THEN c.spoof ELSE env.spoof # "off"
           m == IF env.multi = None THEN c.multi ELSE env.multi = "on"
           t == IF env.overtrim # None THEN WithDomains(<<>>, env.overtrim)
                ELSE IF env.addtrim # None THEN WithDomains(c.trim, env.addtrim)
                ELSE c.trim
           d == [c EXCEPT !.order = o]
           e == [d EXCEPT !.spoof = s]
           f == [e EXCEPT !.multi = m]
<1>1. IsConf(c)
  <2>1. CASE file = Missing
    <3> DEFINE order == IF input.dns THEN <<"hosts", "bind">> ELSE <<"hosts">>
    <3>1. order \in Seq(Service) /\ <<>> \in Seq(Service)
      <4>1. "hosts" \in Service /\ "bind" \in Service
        BY DEF Service
      <4>2. <<"hosts">> \in Seq(Service) /\ <<"hosts", "bind">> \in Seq(Service)
        BY <4>1
      <4> QED BY <4>2
    <3>2. IsConf(Unconfigured)
      BY <3>1 DEF IsConf, Unconfigured
    <3>3. c = [Unconfigured EXCEPT !.order = order]
      BY <2>1 DEF Default
    <3> HIDE DEF order, c
    <3> QED BY <3>1, <3>2, <3>3, ConfWith
  <2>2. CASE file # Missing
    <3>1. IsSequence(file) /\
          \A n \in DOMAIN file : file[n].cmd = "order" => IsSequence(file[n].args)
      BY <2>2, InputsAssumption
    <3> QED BY <2>2, <3>1, ParsedIs
  <2> QED BY <2>1, <2>2
<1> HIDE DEF c
<1>2. o \in Seq(Service)
  <2>1. env.order # None => IsSequence(env.order)
    BY InputsAssumption
  <2> QED BY <1>1, <2>1, ServicesAre DEF IsConf
<1>3. s = (IF env.spoof = None THEN c.spoof ELSE env.spoof # "off") /\ c.spoof = d.spoof
  BY <1>1 DEF IsConf
<1>4. Conf = [c EXCEPT !.order = o, !.spoof = s, !.multi = m, !.trim = t]
  BY Zenon DEF Conf, init_services, Overridden, c
<1> HIDE DEF o, s, m, t
<1>5. Conf = [f EXCEPT !.trim = t]
  BY <1>4, Zenon
<1>6. IsConf(d)
  BY <1>1, <1>2, ConfWith
<1> HIDE DEF d
<1>7. IsConf(e)
  BY <1>6, ConfWith
<1> HIDE DEF e
<1>8. IsConf(f)
  BY <1>7, ConfWith
<1> HIDE DEF f
<1> QED BY <1>5, <1>8, ConfWith
-----------------------------------------------------------------------------
(***************************************************************************)
(* The calls about hosts.  init_services() has found out what it finds out *)
(* now, since the files and the environment stay as they are.              *)
(***************************************************************************)
CallIs == call = [fn |-> call.fn, arg |-> call.arg, rv |-> call.rv, by |-> call.by,
                  asked |-> call.asked, fwd |-> call.fwd]

HostsInv ==
    /\ input \in Inputs
    /\ stay \in BOOLEAN /\ vc \in BOOLEAN
    /\ services # None => services = Conf
    /\ CallIs
    /\ NothingLeftOpen

HostsRight == ByNameRight /\ AddressConfirmed

LEMMA HostsBegin == HostInit => HostsInv /\ HostsRight
<1> SUFFICES ASSUME HostInit PROVE HostsInv /\ HostsRight
  OBVIOUS
<1>1. CallIs /\ call.fn = "none"
  BY DEF HostInit, CallIs
<1>2. NothingLeftOpen
  BY <1>1 DEF HostInit, NothingLeftOpen
<1> QED BY <1>1, <1>2 DEF HostInit, HostsInv, HostsRight, ByNameRight, AddressConfirmed

LEMMA StartIs == IsResult(Start) /\ ~Start.over /\ Start.rv = Null /\ Start.asked = {}
                 /\ Start.by = None /\ ClosedAgain(Start)
<1> DEFINE no == FALSE
<1>1. no \in BOOLEAN /\ ~no
  OBVIOUS
<1> HIDE DEF no
<1>2. Start = [rv |-> Null, err |-> h_errno, at |-> hosts, db |-> hostdb,
               asked |-> {}, by |-> None, over |-> no]
  BY DEF Start, no
<1>3. IsResult(Start) /\ Start.rv = Null /\ Start.by = None /\ Start.over = no /\
      (ClosedAgain(Start) <=> ("hosts" \in {} /\ hosts.open => stay))
  BY <1>1, <1>2, IsOne
<1>4. Start.asked = {}
  BY <1>2
<1> QED BY <1>1, <1>3, <1>4

\* The files stay, and so does what depends on them.
LEMMA SameInput ==
    ASSUME input' = input
    PROVE  /\ Conf' = Conf
           /\ \A service, name, ans :
                 AddressesAt(service, name, ans)' = AddressesWith(Conf, service, name, ans)
<1>1. Conf' = Conf
  BY DEF Conf
<1>2. \A name : Naming(name)' = Naming(name)
  BY DEF Naming, AllEntries, Lines
<1>3. SUFFICES ASSUME NEW service, NEW name, NEW ans
               PROVE  AddressesAt(service, name, ans)' = AddressesWith(Conf, service, name, ans)
  BY <1>1
<1> DEFINE t == Trim(Conf.trim, name)
<1>4. {Lines[i].key : i \in Naming(t)}' = KeysOf(Naming(t))
  BY <1>1, <1>2 DEF KeysOf, Lines
<1>5. CASE service = "hosts"
  BY <1>4, <1>5 DEF AddressesAt, AddressesWith
<1>6. CASE service # "hosts"
  BY <1>6 DEF AddressesAt, AddressesWith
<1> QED BY <1>5, <1>6

\* What every call leaves behind that returns r.
LEMMA Returned ==
    ASSUME HostsInv, NEW fn, NEW r, NEW arg, NEW fwd, Returns(fn, r, arg, fwd),
           services' \in {services, Conf}, fn \notin {"end"},
           fn \in {"byname", "byaddr"} => ClosedAgain(r)
    PROVE  /\ HostsInv' /\ input' = input
           /\ call' = [fn |-> fn, arg |-> arg, rv |-> r.rv, by |-> r.by,
                       asked |-> r.asked, fwd |-> fwd]
<1>1. input' = input /\ stay' = stay /\ hosts' = r.at
  BY DEF Returns
<1> DEFINE rv == r.rv
           by == r.by
           asked == r.asked
<1>2. call' = [fn |-> fn, arg |-> arg, rv |-> rv, by |-> by, asked |-> asked, fwd |-> fwd]
  BY DEF Returns
<1>3. vc' \in BOOLEAN /\ stay' \in BOOLEAN /\ (vc' => stay')
  <2>1. stay \in BOOLEAN /\ vc \in BOOLEAN /\ (vc => stay)
    BY DEF HostsInv, NothingLeftOpen
  <2>2. vc' \in {FALSE, stay} \/ vc' = vc
    BY DEF Returns
  <2>3. vc' \in BOOLEAN /\ (vc' => stay)
    <3>1. CASE vc' = vc
      BY <2>1, <3>1
    <3>2. CASE vc' = stay
      BY <2>1, <3>2
    <3>3. CASE vc' = FALSE
      BY <3>3
    <3> QED BY <2>2, <3>1, <3>2, <3>3
  <2> QED BY <1>1, <2>1, <2>3
<1>4. fn \in {"byname", "byaddr"} /\ "hosts" \in asked => (hosts'.open => stay')
  BY <1>1 DEF ClosedAgain
<1>5. Conf' = Conf
  BY <1>1, SameInput
<1> HIDE DEF rv, by, asked
<1>6. CallIs' /\ call'.fn = fn /\ call'.asked = asked
  BY <1>2 DEF CallIs
<1>7. NothingLeftOpen'
  BY <1>3, <1>4, <1>6 DEF NothingLeftOpen
<1> QED BY <1>1, <1>2, <1>3, <1>5, <1>6, <1>7 DEF HostsInv, rv, by, asked

LEMMA ConfiguredIs ==
    ASSUME HostsInv
    PROVE  /\ Configured = Conf /\ IsConf(Conf) /\ Len(Conf.order) \in Nat
           /\ DOMAIN Conf.order = 1 .. Len(Conf.order)
           /\ \A replies, sent : Answers(replies, sent) \subseteq replies \cup {NoAnswer}
<1>1. IsConf(Conf)
  BY ConfIs DEF HostsInv
<1>2. Conf.order \in Seq(Service)
  BY <1>1 DEF IsConf
<1> QED BY <1>1, <1>2 DEF HostsInv, Configured, Conf, Answers

\* The call of gethostbyname() itself.
LEMMA ByNameDone ==
    ASSUME HostsInv, NEW name, gethostbyname(name)
    PROVE  HostsInv' /\ HostsRight'
<1>1. PICK ans \in Answers(ForwardAnswers, TRUE) :
          Returns("byname", ByName(Configured, name, ans, Start), name, ans)
  BY DEF gethostbyname
<1> DEFINE c == Conf
           N == Len(c.order)
           q == ByName(c, name, ans, Start)
<1>2. /\ Configured = c /\ N \in Nat /\ DOMAIN c.order = 1 .. N
      /\ ans \in ForwardAnswers \cup {NoAnswer} /\ services' = c /\ input \in Inputs
  BY <1>1, ConfiguredIs DEF gethostbyname, HostsInv
<1>3. AfterServices(c, name, ans, Start, 0)
  <2>1. 1 .. 0 = {}
    OBVIOUS
  <2> QED BY <2>1, StartIs DEF AfterServices, NoneKnows
<1>4. AfterServices(c, name, ans, q, N)
  BY <1>2, <1>3, ByNameIs
<1>5. Returns("byname", q, name, ans)
  BY <1>1, <1>2
<1>6. ClosedAgain(q) /\ IsResult(q)
  BY <1>4 DEF AfterServices
<1> HIDE DEF q
<1> DEFINE fn == "byname"
           rv == q.rv
           by == q.by
           asked == q.asked
<1>7. /\ HostsInv' /\ input' = input
      /\ call' = [fn |-> fn, arg |-> name, rv |-> rv, by |-> by, asked |-> asked, fwd |-> ans]
  BY <1>2, <1>5, <1>6, Returned
<1> HIDE DEF rv, by, asked
<1>8. call'.fn = "byname" /\ call'.arg = name /\ call'.rv = rv /\ call'.by = by /\ call'.fwd = ans
  BY <1>7
<1>9. AddressConfirmed'
  BY <1>8 DEF AddressConfirmed
<1> DEFINE Known(n) == AddressesWith(c, c.order[n], name, ans)
           knowing == {n \in 1 .. N : Known(n) # {}}
           first == Known(Least(knowing))
<1>10. ByNameRight' <=>
          (call'.asked # {} /\ ~Astray(ans) =>
             CASE rv = Aborts -> by = "bind" /\ Unexpected(ans)
               [] rv = Null -> knowing = {}
               [] OTHER ->
                    /\ knowing # {} /\ by = c.order[Least(knowing)]
                    /\ Serves(by, rv.addrs, first, c.multi, ans))
  <2>1. c' = c /\ \A n : AddressesAt(c.order[n], name, ans)' = Known(n)
    BY <1>7, SameInput
  <2>2. knowing = {n \in DOMAIN c'.order : AddressesAt(c.order[n], name, ans)' # {}}
    BY <1>2, <2>1
  <2> HIDE DEF c, knowing
  <2> QED BY <1>8, <2>1, <2>2 DEF ByNameRight, c
<1>11. CASE ~q.over
  <2>1. rv = Null /\ (~Astray(ans) => knowing = {})
    BY <1>4, <1>11 DEF AfterServices, NoneKnows, rv
  <2> HIDE DEF knowing, first
  <2> QED BY <1>7, <1>9, <1>10, <2>1, NullAssumption DEF HostsRight
<1>12. CASE q.over /\ rv = Aborts /\ by = "bind" /\ (~Astray(ans) => Unexpected(ans))
  <2> HIDE DEF knowing, first
  <2> QED BY <1>7, <1>9, <1>10, <1>12, NullAssumption DEF HostsRight
<1>13. CASE FirstGives(c, name, ans, q, N)
  <2>1. PICK m \in 1 .. N :
           /\ NoneKnows(c, name, ans, m - 1)
           /\ GivenBy(q, c.order[m], c.multi, ans, Known(m))
    BY <1>13 DEF FirstGives
  <2>2. rv \notin {Null, Aborts}
    BY <2>1, NullAssumption DEF GivenBy, HasAddrs, rv
  <2>3. CASE Astray(ans)
    <3> HIDE DEF knowing, first
    <3> QED BY <1>7, <1>9, <1>10, <2>3 DEF HostsRight
  <2>4. CASE ~Astray(ans)
    <3>1. m \in knowing
      BY <2>1, <2>4 DEF GivenBy
    <3>2. \A n \in knowing : m <= n
      <4>1. SUFFICES ASSUME NEW n \in 1 .. N, Known(n) # {}, ~(m <= n) PROVE FALSE
        OBVIOUS
      <4>2. n \in 1 .. m - 1
        BY <1>2, <4>1
      <4> QED BY <2>1, <2>4, <4>1, <4>2 DEF NoneKnows
    <3>3. Least(knowing) = m
      <4>1. knowing \in SUBSET Nat
        OBVIOUS
      <4> HIDE DEF knowing
      <4>2. Least(knowing) \in knowing /\ Least(knowing) <= m
        BY <3>1, <4>1, LeastIs
      <4>3. Least(knowing) \in Nat /\ m \in Nat /\ m <= Least(knowing)
        BY <3>1, <3>2, <4>1, <4>2
      <4> DEFINE l == Least(knowing)
      <4> HIDE DEF l
      <4>4. l \in Nat /\ m \in Nat /\ m <= l /\ l <= m
        BY <4>2, <4>3 DEF l
      <4>5. l = m
        BY <4>4
      <4> QED BY <4>5 DEF l
    <3>4. /\ by = c.order[m]
          /\ Serves(by, rv.addrs, Known(m), c.multi, ans)
      BY <2>1, <2>4 DEF GivenBy, rv, by
    <3>5. first = Known(m)
      BY <3>3
    <3> DEFINE known == Known(m)
    <3> HIDE DEF knowing, first, known
    <3>6. ByNameRight'
      BY <1>10, <2>2, <3>1, <3>3, <3>4, <3>5 DEF known
    <3> QED BY <1>7, <1>9, <3>6 DEF HostsRight
  <2> QED BY <2>3, <2>4
<1> QED BY <1>4, <1>11, <1>12, <1>13 DEF AfterServices, IsResult, rv, by

LEMMA ByAddrDone ==
    ASSUME HostsInv, NEW addr, gethostbyaddr(addr)
    PROVE  HostsInv' /\ HostsRight'
<1>1. PICK rev \in Answers(ReverseAnswers, TRUE),
           fwd \in Answers(ForwardAnswers, Configured.spoof) :
          Returns("byaddr", ByAddr(Configured, addr, rev, fwd, Start), addr, fwd)
  BY DEF gethostbyaddr
<1> DEFINE c == Conf
           q == ByAddr(c, addr, rev, fwd, Start)
<1>2. /\ Configured = c /\ IsConf(c) /\ rev \in ReverseAnswers \cup {NoAnswer}
      /\ fwd \in ForwardAnswers \cup {NoAnswer} /\ services' = c /\ input \in Inputs
  BY <1>1, ConfiguredIs DEF gethostbyaddr, HostsInv
<1>3. Confirmed(c, addr, fwd, Start)
  BY StartIs, NullAssumption DEF Confirmed, Service
<1>4. Confirmed(c, addr, fwd, q)
  BY <1>2, <1>3, ByAddrIs
<1>5. Returns("byaddr", q, addr, fwd)
  BY <1>1, <1>2
<1> HIDE DEF q
<1> DEFINE fn == "byaddr"
           rv == q.rv
           by == q.by
           asked == q.asked
<1>6. /\ HostsInv' /\ input' = input
      /\ call' = [fn |-> fn, arg |-> addr, rv |-> rv, by |-> by, asked |-> asked, fwd |-> fwd]
  BY <1>2, <1>4, <1>5, Returned DEF Confirmed
<1> HIDE DEF rv, by, asked
<1>7. call'.fn = "byaddr" /\ call'.arg = addr /\ call'.rv = rv /\ call'.by = by /\ call'.fwd = fwd
  BY <1>6
<1>8. ByNameRight'
  BY <1>7 DEF ByNameRight
<1>9. by = "bind" /\ rv # Aborts =>
         addr \in Range(rv.addrs) /\ (c.spoof /\ ~Astray(fwd) => addr \in Offered(fwd))
  BY <1>4 DEF Confirmed, rv, by
<1>10. Conf' = c
  BY <1>6, SameInput
<1> HIDE DEF c
<1>11. AddressConfirmed'
  BY <1>7, <1>9, <1>10 DEF AddressConfirmed, Running
<1> QED BY <1>6, <1>8, <1>11 DEF HostsRight

\* The calls that ask nobody, or are no lookup.
LEMMA OthersDone ==
    ASSUME HostsInv,
           \/ \E name : gethostbyname_numeric(name)
           \/ gethostbyaddr_family
           \/ gethostent
    PROVE  HostsInv' /\ HostsRight'
<1>1. PICK fn, r, arg, fwd :
         /\ Returns(fn, r, arg, fwd) /\ services' \in {services, Conf}
         /\ fn # "end"
         /\ \/ fn \in {"byname", "byaddr"} /\ r.asked = {} /\ r.by = None
            \/ fn = "ent"
  <2>1. CASE \E name : gethostbyname_numeric(name)
    <3>1. PICK name : gethostbyname_numeric(name)
      BY <2>1
    <3> DEFINE a == inet_addr[name]
               host == [name |-> name, aliases |-> <<>>, addrs |-> <<a>>]
               r == IF a = None THEN NotFound(Start, "HOST_NOT_FOUND")
                    ELSE Found(Start, None, host)
    <3>2. Returns("byname", r, name, NoAnswer) /\ services' = services
      BY <3>1 DEF gethostbyname_numeric
    <3>3. r.asked = {} /\ r.by = None
      <4> HIDE DEF a, host
      <4> DEFINE n == NotFound(Start, "HOST_NOT_FOUND")
                 f == Found(Start, None, host)
      <4>1. n.asked = {} /\ n.by = None
        BY StartIs, Results
      <4>2. f.asked = {} /\ f.by = None
        BY StartIs, Results
      <4> HIDE DEF n, f
      <4>3. r = n \/ r = f
        BY DEF n, f
      <4> HIDE DEF r
      <4> QED BY <4>1, <4>2, <4>3
    <3> HIDE DEF r
    <3> QED BY <3>2, <3>3
  <2>2. CASE gethostbyaddr_family
    <3> DEFINE r == NotFound(Start, "NETDB_INTERNAL")
    <3>1. Returns("byaddr", r, None, NoAnswer) /\ services' = services
      BY <2>2 DEF gethostbyaddr_family
    <3>2. r.asked = {} /\ r.by = None
      BY StartIs, Results
    <3> HIDE DEF r
    <3> QED BY <3>1, <3>2
  <2>3. CASE gethostent
    <3>1. Returns("ent", Iterated(Configured.order), None, NoAnswer) /\ services' = Configured
      BY <2>3 DEF gethostent
    <3> QED BY <3>1, ConfiguredIs
  <2> QED BY <2>1, <2>2, <2>3
<1>2. "hosts" \in r.asked => fn \notin {"byname", "byaddr"}
  BY <1>1
<1>3. fn \in {"byname", "byaddr"} => ClosedAgain(r)
  BY <1>2 DEF ClosedAgain
<1> DEFINE rv == r.rv
           by == r.by
           asked == r.asked
<1>4. /\ HostsInv'
      /\ call' = [fn |-> fn, arg |-> arg, rv |-> rv, by |-> by, asked |-> asked, fwd |-> fwd]
  BY <1>1, <1>3, Returned
<1> HIDE DEF rv, by, asked
<1>5. call'.fn = fn /\ call'.by = by /\ call'.asked = asked
  BY <1>4
<1>6. None # "bind"
  BY NullAssumption DEF Service
<1>7. ByNameRight' /\ AddressConfirmed'
  BY <1>1, <1>5, <1>6 DEF ByNameRight, AddressConfirmed, by, asked
<1> QED BY <1>4, <1>7 DEF HostsRight

LEMMA SettingsDone ==
    ASSUME HostsInv, (\E yes \in BOOLEAN : sethostent(yes)) \/ endhostent
    PROVE  HostsInv' /\ HostsRight'
<1> DEFINE a == call.arg
           b == call.by
           k == call.asked
           w == call.fwd
<1>1. call = [fn |-> call.fn, arg |-> a, rv |-> call.rv, by |-> b, asked |-> k, fwd |-> w]
  BY DEF HostsInv, CallIs
<1> HIDE DEF a, b, k, w
<1>2. \A fn : [call EXCEPT !.fn = fn, !.rv = Null] =
                 [fn |-> fn, arg |-> a, rv |-> Null, by |-> b, asked |-> k, fwd |-> w]
  <2> SUFFICES ASSUME NEW fn
               PROVE  [call EXCEPT !.fn = fn, !.rv = Null] =
                 [fn |-> fn, arg |-> a, rv |-> Null, by |-> b, asked |-> k, fwd |-> w]
    OBVIOUS
  <2> DEFINE g == [call EXCEPT !.fn = fn]
  <2>1. g = [fn |-> fn, arg |-> a, rv |-> call.rv, by |-> b, asked |-> k, fwd |-> w]
    BY <1>1
  <2>2. [call EXCEPT !.fn = fn, !.rv = Null] = [g EXCEPT !.rv = Null]
    BY Zenon
  <2> HIDE DEF g
  <2> QED BY <2>1, <2>2
<1>3. /\ input' = input /\ services' = services
      /\ vc' \in BOOLEAN /\ stay' \in BOOLEAN /\ (vc' => stay')
  <2>1. input' = input /\ services' = services
    BY DEF sethostent, endhostent
  <2>2. stay \in BOOLEAN /\ vc \in BOOLEAN /\ (vc => stay)
    BY DEF HostsInv, NothingLeftOpen
  <2>3. CASE endhostent
    BY <2>1, <2>3 DEF endhostent
  <2>4. ASSUME NEW asked \in BOOLEAN, sethostent(asked)
        PROVE  vc' \in BOOLEAN /\ stay' \in BOOLEAN /\ (vc' => stay')
    <3>1. vc' = vc /\ stay' = (stay \/ asked)
      BY <2>4 DEF sethostent
    <3> QED BY <2>2, <3>1
  <2> QED BY <2>1, <2>3, <2>4
<1>4. Conf' = Conf
  BY <1>3, SameInput
<1>5. PICK fn \in {"set", "end"} :
         /\ call' = [fn |-> fn, arg |-> a, rv |-> Null, by |-> b, asked |-> k, fwd |-> w]
         /\ fn = "end" => endhostent
  <2>1. CASE \E yes \in BOOLEAN : sethostent(yes)
    <3>1. call' = [call EXCEPT !.fn = "set", !.rv = Null]
      BY <2>1 DEF sethostent
    <3> QED BY <1>2, <3>1
  <2>2. CASE endhostent
    <3>1. call' = [call EXCEPT !.fn = "end", !.rv = Null]
      BY <2>2 DEF endhostent
    <3> QED BY <1>2, <2>2, <3>1
  <2> QED BY <2>1, <2>2
<1>6. CallIs' /\ call'.fn = fn
  BY <1>5 DEF CallIs
<1>7. fn = "end" => ~hosts'.open /\ ~vc'
  BY <1>5 DEF endhostent, Closed, _endhtent, Shut
<1>8. NothingLeftOpen'
  BY <1>3, <1>5, <1>6, <1>7 DEF NothingLeftOpen
<1>9. HostsRight'
  BY <1>5, <1>6 DEF HostsRight, ByNameRight, AddressConfirmed
<1> QED BY <1>3, <1>4, <1>6, <1>8, <1>9 DEF HostsInv

LEMMA HostsKept == HostsInv /\ HostNext => HostsInv' /\ HostsRight'
<1> SUFFICES ASSUME HostsInv, HostNext PROVE HostsInv' /\ HostsRight'
  OBVIOUS
<1>1. CASE \E name \in HostNames : gethostbyname_numeric(name) \/ gethostbyname(name)
  BY <1>1, ByNameDone, OthersDone
<1>2. CASE \E addr \in Addresses : gethostbyaddr(addr)
  BY <1>2, ByAddrDone
<1>3. CASE gethostbyaddr_family \/ gethostent
  BY <1>3, OthersDone
<1>4. CASE (\E yes \in BOOLEAN : sethostent(yes)) \/ endhostent
  BY <1>4, SettingsDone
<1> QED BY <1>1, <1>2, <1>3, <1>4 DEF HostNext

-----------------------------------------------------------------------------
(***************************************************************************)
(* The invariant of Lookup.  A behaviour is about the hosts or about one   *)
(* of the other databases, and the rest stays as it was.                   *)
(***************************************************************************)
LookupInv ==
    /\ HostsInv /\ HostsRight
    /\ Stream /\ LookupFindsFirst /\ IterationComplete /\ OpenAsAsked

LEMMA LookupBegins == Init => LookupInv
<1> SUFFICES ASSUME Init PROVE LookupInv
  OBVIOUS
<1>1. HostsInv /\ HostsRight
  BY HostsBegin DEF Init
<1>2. kind \in Kind /\ at = Shut /\ stayopen = FALSE /\ began = 0 /\ seen = {}
      /\ found = NetDb!NoCall
  BY SameFiles DEF Init, NetDb!NetDbInit
<1>3. Stream
  BY <1>2, NoneBefore, EntriesOfFile DEF Stream, Place, Shut
<1>4. found.call = "none"
  BY <1>2 DEF NetDb!NoCall
<1>5. LookupFindsFirst
  BY <1>4 DEF LookupFindsFirst, NetDb!LookupFindsFirst, NetDb!IsLookup
<1>6. IterationComplete /\ OpenAsAsked
  BY <1>2, <1>4 DEF IterationComplete, NetDb!IterationComplete, OpenAsAsked,
                    NetDb!OpenAsAsked, NetDb!IsLookup
<1> QED BY <1>1, <1>3, <1>5, <1>6 DEF LookupInv

LEMMA HostsUnchanged ==
    HostsInv /\ HostsRight /\ UNCHANGED hostVars => HostsInv' /\ HostsRight'
<1> SUFFICES ASSUME HostsInv, HostsRight, UNCHANGED hostVars PROVE HostsInv' /\ HostsRight'
  OBVIOUS
<1>1. /\ input' = input /\ services' = services /\ hosts' = hosts /\ stay' = stay
      /\ vc' = vc /\ call' = call
  BY DEF hostVars
<1>2. Conf' = Conf /\ \A service, name, ans :
         AddressesAt(service, name, ans)' = AddressesAt(service, name, ans)
  BY <1>1 DEF Conf, AddressesAt, Naming, AllEntries, Lines
<1>3. HostsInv'
  BY <1>1, <1>2 DEF HostsInv, CallIs, NothingLeftOpen
<1>4. ByNameRight'
  BY <1>1, <1>2 DEF HostsRight, ByNameRight, Running
<1>5. AddressConfirmed'
  BY <1>1, <1>2 DEF HostsRight, AddressConfirmed, Running
<1> QED BY <1>3, <1>4, <1>5 DEF HostsRight

LEMMA NetDbUnchanged ==
    ASSUME Stream, LookupFindsFirst, IterationComplete, OpenAsAsked, UNCHANGED netDb
    PROVE  Stream' /\ LookupFindsFirst' /\ IterationComplete' /\ OpenAsAsked'
<1>1. /\ kind' = kind /\ at' = at /\ stayopen' = stayopen /\ began' = began
      /\ seen' = seen /\ found' = found
  BY DEF netDb
<1>2. NetDb!Lines' = NetDb!Lines /\ NetDb!AllEntries' = NetDb!AllEntries /\ End' = End
  BY <1>1 DEF NetDb!Lines, NetDb!AllEntries, End
<1>3. Stream'
  BY <1>1, <1>2 DEF Stream, Place
<1>4. LookupFindsFirst'
  <2>1. NetDb!IsLookup' = NetDb!IsLookup /\ \A key : NetDb!TooLarge(key)' = NetDb!TooLarge(key)
    BY <1>1 DEF NetDb!IsLookup, NetDb!TooLarge
  <2>2. \A i : NetDb!Matches(NetDb!Lines[i])' = NetDb!Matches(NetDb!Lines[i])
    BY <1>1, <1>2 DEF NetDb!Matches, NetDb!Names
  <2> DEFINE I == {i \in NetDb!AllEntries : NetDb!Matches(NetDb!Lines[i])}
  <2>3. I' = I
    BY <1>2, <2>2
  <2> HIDE DEF I
  <2> QED BY <1>1, <2>1, <2>3 DEF LookupFindsFirst, NetDb!LookupFindsFirst, I
<1>5. IterationComplete' /\ OpenAsAsked'
  BY <1>1, <1>2 DEF IterationComplete, NetDb!IterationComplete, OpenAsAsked,
                    NetDb!OpenAsAsked, NetDb!IsLookup
<1> QED BY <1>3, <1>4, <1>5

LEMMA LookupKept == LookupInv /\ [Next]_<<part, hostVars, netDb>> => LookupInv'
<1> SUFFICES ASSUME LookupInv, [Next]_<<part, hostVars, netDb>> PROVE LookupInv'
  OBVIOUS
<1>1. CASE HostNext /\ UNCHANGED netDb
  BY <1>1, HostsKept, NetDbUnchanged DEF LookupInv
<1>2. CASE NetDb!NetDbNext /\ UNCHANGED hostVars
  BY <1>2, StreamKept, OpenKept, HostsUnchanged DEF LookupInv
<1>3. CASE UNCHANGED hostVars /\ UNCHANGED netDb
  BY <1>3, HostsUnchanged, NetDbUnchanged DEF LookupInv
<1> QED BY <1>1, <1>2, <1>3 DEF Next

THEOREM LookupInvHolds == Spec => []LookupInv
<1> QED BY LookupBegins, LookupKept, PTL DEF Spec

\* A lookup in the networks, services or protocols returns the first entry of
\* the file that matches, wherever the calls before have left the stream.
THEOREM LookupAlwaysFirst == Spec => []LookupFindsFirst
<1>1. LookupInv => LookupFindsFirst
  BY DEF LookupInv
<1> QED BY <1>1, LookupInvHolds, PTL

\* When getnetent(), getservent() or getprotoent() returns NULL, every entry
\* behind the place where the iteration began has been returned.
THEOREM IterationAlwaysComplete == Spec => []IterationComplete
<1>1. LookupInv => IterationComplete
  BY DEF LookupInv
<1> QED BY <1>1, LookupInvHolds, PTL

\* setnetent(TRUE) keeps the file of a database open through every call up to
\* endnetent(); and so for the services and protocols.
THEOREM OpenAlwaysAsAsked == Spec => []OpenAsAsked
<1>1. LookupInv => OpenAsAsked
  BY DEF LookupInv
<1> QED BY <1>1, LookupInvHolds, PTL

\* No host lookup leaves the hosts file or the resolver's socket open unless
\* sethostent(TRUE) asks for that, and endhostent() closes both.
THEOREM NothingStaysOpen == Spec => []NothingLeftOpen
<1>1. LookupInv => NothingLeftOpen
  BY DEF LookupInv, HostsInv
<1> QED BY <1>1, LookupInvHolds, PTL

\* gethostbyname() answers with the addresses of the first service of the order
\* of host.conf and the environment that knows the name, whatever they say: with
\* the first of DNS's answer that its array holds, or with those of the hosts
\* file.  Only a record of a type it has no case for makes it abort.
THEOREM ByNameAlwaysRight == Spec => []ByNameRight
<1>1. LookupInv => ByNameRight
  BY DEF LookupInv, HostsRight
<1> QED BY <1>1, LookupInvHolds, PTL

\* What gethostbyaddr() returns from DNS has the address asked for, and with
\* "nospoof on" DNS has given that address for the name it returned.
THEOREM AddressAlwaysConfirmed == Spec => []AddressConfirmed
<1>1. LookupInv => AddressConfirmed
  BY DEF LookupInv, HostsRight
<1> QED BY <1>1, LookupInvHolds, PTL
=============================================================================
