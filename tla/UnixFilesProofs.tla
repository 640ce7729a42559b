-------------------------- MODULE UnixFilesProofs ---------------------------
(***************************************************************************)
(* The invariants of UnixFiles, for every number of descriptors, handles   *)
(* and sockets and every MAILSLOT_MAX.                                     *)
(***************************************************************************)
EXTENDS UnixFiles, Iterations, FiniteSetTheorems

-----------------------------------------------------------------------------
(***************************************************************************)
(* Lemmas about the operations of Mailslot: each leaves the four tables in *)
(* agreement, whatever fails in it.                                        *)
(***************************************************************************)
\* A non-empty set of indices has a first one.
LEMMA FirstIn ==
  ASSUME NEW I \in SUBSET Index, I # {}
  PROVE  First(I) \in I
<1>1. Index \subseteq Nat
  BY MailslotAssumption DEF Index
<1>2. \E i \in I : \A j \in I : ~(<<j, i>> \in OpToRel(<, Nat))
  BY <1>1, WFMin, NatLessThanWellFounded, Zenon
<1>3. PICK i \in I : \A j \in I : ~(j < i)
  BY <1>1, <1>2, LessThan, Zenon
<1>4. \A j \in I : i <= j
  BY <1>1, <1>3
<1> QED BY <1>4 DEF First

-----------------------------------------------------------------------------
(***************************************************************************)
(* What the operations preserve: the tables agree, and every mailslot that *)
(* exists is known - it has a control block or an entry, or is lost.       *)
(***************************************************************************)
Sound(m) == m \in Tables /\ Agree(m)

Known(m, h) ==
    \/ h \in m.lost
    \/ \E i \in Index : m.block[i] = h
    \/ \E i \in Index : m.entry[i] # NULL /\ m.entry[i].handle = h

AllKnown(m) == \A h \in m.lan : Known(m, h)

Fine(m) == Sound(m) /\ AllKnown(m)

\* __mailslot_destroy() frees the control block of its handle and no other.
LEMMA DestroyedBlock ==
  ASSUME NEW m \in Tables, NEW h \in Handle
  PROVE  /\ Destroyed(m, h) \in Tables
         /\ Destroyed(m, h).lan = m.lan \ {h}
         /\ Destroyed(m, h).file = m.file
         /\ Destroyed(m, h).entry = m.entry
         /\ \A i \in Index : \/ Destroyed(m, h).block[i] = m.block[i]
                             \/ Destroyed(m, h).block[i] = NULL /\ m.block[i] = h
         /\ Destroyed(m, h).lost = m.lost
         /\ h \in m.lan /\ HandlesMatch(m) =>
              \A i \in Index : Destroyed(m, h).block[i] # h
<1> DEFINE found == {i \in Index : HandleAt(m, i) = h}
<1>1. NULL # h /\ NullWord # h
  BY MailslotAssumption
<1>2. \A i \in Index : i \in found <=> m.block[i] = h
  BY <1>1 DEF HandleAt
<1>3. CASE h \notin m.lan
  <2>1. Destroyed(m, h) = m /\ m.lan = m.lan \ {h}
    BY <1>3 DEF Destroyed
  <2> QED BY <1>3, <2>1
<1>4. CASE h \in m.lan /\ found = {}
  <2> DEFINE d == [m EXCEPT !.lan = @ \ {h}]
  <2>1. Destroyed(m, h) = d
    BY <1>4 DEF Destroyed
  <2>2. /\ d \in Tables /\ d.lan = m.lan \ {h} /\ d.file = m.file
        /\ d.entry = m.entry /\ d.lost = m.lost /\ d.block = m.block
    BY DEF Tables
  <2> HIDE DEF d
  <2> QED BY <1>2, <1>4, <2>1, <2>2
<1>5. CASE h \in m.lan /\ found # {}
  <2>1. First(found) \in found
    BY <1>5, FirstIn
  <2>2. Destroyed(m, h) = [m EXCEPT !.lan = @ \ {h},
                                    !.block[First(found)] = NULL]
    BY <1>5 DEF Destroyed
  <2>3. HandlesMatch(m) => \A i \in found : i = First(found)
    BY <1>1, <1>2, <2>1 DEF HandlesMatch
  <2> DEFINE k == First(found)
             d == Destroyed(m, h)
  <2>4. k \in Index
    BY <2>1
  <2>5. /\ d \in Tables /\ d.lan = m.lan \ {h} /\ d.file = m.file
        /\ d.entry = m.entry /\ d.lost = m.lost /\ m.block[k] = h
        /\ d.block = [m.block EXCEPT ![k] = NULL]
    <3> HIDE DEF k, d
    <3>1. d = [m EXCEPT !.lan = @ \ {h}, !.block[k] = NULL]
      BY <2>2 DEF k, d
    <3>2. m.block[k] = h
      BY <1>2, <2>1 DEF k
    <3> QED BY <2>4, <3>1, <3>2 DEF Tables
  <2>6. h \in m.lan /\ HandlesMatch(m) => \A i \in Index : d.block[i] # h
    BY <1>1, <1>2, <2>3, <2>4, <2>5 DEF Tables
  <2>7. \A i \in Index : \/ d.block[i] = m.block[i]
                         \/ d.block[i] = NULL /\ m.block[i] = h
    <3> HIDE DEF k, d
    <3> QED BY <2>4, <2>5 DEF Tables
  <2> HIDE DEF d
  <2> QED BY <2>5, <2>6, <2>7 DEF d
<1> QED BY <1>3, <1>4, <1>5

\* What close(fd) may take out of the tables m to leave n.
Dropped(m, fd, n) ==
    /\ n.lost = m.lost
    /\ \A i \in Index :
          IF m.entry[i] # NULL /\ m.entry[i].fd = fd
          THEN n.entry[i] = NULL /\ m.entry[i].handle \notin n.lan
          ELSE n.entry[i] = m.entry[i]
    /\ n.lan \subseteq m.lan
    /\ \A i \in Index : n.block[i] = m.block[i] \/ m.block[i] \notin n.lan

(***************************************************************************)
(* close() leaves the tables in agreement, and the file and its entry are  *)
(* gone; a control block and a mailslot go only with the entry.            *)
(***************************************************************************)
LEMMA ClosedSound ==
  ASSUME NEW m, Sound(m), NEW fd \in Fd \cup {NoFd}
  PROVE  /\ Sound(Closed(m, fd))
         /\ Mailslots(Closed(m, fd)) \subseteq Mailslots(m) \ {fd}
         /\ Dropped(m, fd, Closed(m, fd))
<1> USE DEF Sound
<1>1. CASE fd = NoFd \/ fd \in FreeFds(m)
  <2>1. fd \notin Mailslots(m)
    BY <1>1, MailslotAssumption DEF Mailslots, FreeFds, Index
  <2>2. \A i \in Index : m.entry[i] # NULL => m.entry[i].fd # fd
    BY <1>1, MailslotAssumption
       DEF FreeFds, Index, Agree, EntriesMatch, Tables, Entry
  <2> QED BY <1>1, <2>1, <2>2 DEF Closed, Dropped
<1>2. CASE ~(fd = NoFd \/ fd \in FreeFds(m)) /\ m.file[fd] = FILE
  <2>1. Closed(m, fd) = [m EXCEPT !.file[fd] = FREE]
    BY <1>2 DEF Closed
  <2>2. fd \in Fd /\ FILE \notin Index /\ FREE \notin Index
    BY <1>2, MailslotAssumption DEF Index
  <2>3. Mailslots(Closed(m, fd)) \subseteq Mailslots(m) \ {fd}
    BY <2>1, <2>2 DEF Mailslots, Tables
  <2>4. \A i \in Index : m.entry[i] # NULL => m.entry[i].fd # fd
    BY <1>2, <2>2 DEF Agree, EntriesMatch
  <2>5. Dropped(m, fd, Closed(m, fd))
    BY <2>1, <2>4 DEF Dropped
  <2> QED
    BY <1>2, <2>1, <2>2, <2>3, <2>5 DEF Tables, Agree, EntriesMatch, HandlesMatch, Entry
<1>3. CASE ~(fd = NoFd \/ fd \in FreeFds(m)) /\ m.file[fd] # FILE
  <2> DEFINE me == m.entry[m.file[fd]]
             freed == [m EXCEPT !.file[fd] = FREE]
             n == IF me.handle = NULL THEN freed ELSE Destroyed(freed, me.handle)
             at == {i \in Index : FdAt(m, i) = fd}
  <2>1. fd \in Fd /\ m.file[fd] \in Index /\ FREE \notin Index
    BY <1>3, MailslotAssumption DEF FreeFds, Tables, Index
  <2>2. me # NULL /\ me \in Entry /\ me.fd = fd
    BY <2>1 DEF Agree, EntriesMatch, Tables
  <2>3. at = {m.file[fd]}
    BY <2>1, <2>2, MailslotAssumption DEF FdAt, Agree, EntriesMatch
  <2>4. First(at) = m.file[fd]
    BY <2>1, <2>3, FirstIn
  <2>5. Closed(m, fd) = [n EXCEPT !.entry[m.file[fd]] = NULL]
    BY <1>3, <2>4 DEF Closed
  <2>6. freed \in Tables /\ freed.lan = m.lan /\ freed.entry = m.entry
        /\ freed.block = m.block /\ freed.lost = m.lost
        /\ freed.file = [m.file EXCEPT ![fd] = FREE]
    BY <2>1 DEF Tables
  <2>7. /\ n \in Tables /\ n.entry = m.entry /\ n.file = freed.file
        /\ n.lost = m.lost
        /\ \A i \in Index : \/ n.block[i] = m.block[i]
                            \/ n.block[i] = NULL /\ m.block[i] = me.handle
    <3> HIDE DEF freed, me
    <3>1. CASE me.handle = NULL
      <4>1. n = freed
        BY <3>1
      <4> HIDE DEF n
      <4> QED BY <2>6, <4>1
    <3>2. CASE me.handle # NULL
      <4>1. me.handle \in Handle
        BY <2>2, <3>2 DEF Entry
      <4>2. n = Destroyed(freed, me.handle)
        BY <3>2
      <4> HIDE DEF n
      <4> QED BY <2>6, <4>1, <4>2, DestroyedBlock
    <3> QED BY <3>1, <3>2
  <2>8. n.lan = m.lan \ {me.handle}
        /\ (me.handle # NULL => \A i \in Index : n.block[i] # me.handle)
    <3>1. CASE me.handle = NULL
      BY <2>6, <3>1, MailslotAssumption DEF Tables
    <3>2. CASE me.handle # NULL
      <4>1. me.handle \in Handle /\ me.handle \in m.lan
        BY <2>1, <2>2, <3>2 DEF Entry, Agree, HandlesMatch
      <4>2. HandlesMatch(freed)
        BY <2>1, <2>6 DEF HandlesMatch, Agree
      <4>3. n = Destroyed(freed, me.handle)
        BY <3>2
      <4> HIDE DEF n, freed, me
      <4> QED BY <2>6, <4>1, <4>2, <4>3, DestroyedBlock
    <3> QED BY <3>1, <3>2
  <2> DEFINE r == [n EXCEPT !.entry[m.file[fd]] = NULL]
  <2>r. /\ r \in Tables /\ r.lan = m.lan \ {me.handle} /\ r.file = n.file
        /\ r.block = n.block /\ r.lost = n.lost
        /\ \A i \in Index : r.entry[i] = IF i = m.file[fd] THEN NULL ELSE m.entry[i]
    BY <2>1, <2>7, <2>8 DEF Tables
  <2> HIDE DEF r, n, me, freed
  <2>9. EntriesMatch(r)
    BY <2>1, <2>2, <2>6, <2>7, <2>r DEF EntriesMatch, Agree, Tables
  <2>10. HandlesMatch(r)
    <3>1. \A i \in Index : r.entry[i] # NULL => r.entry[i].handle \in r.lan \cup {NULL}
      <4> SUFFICES ASSUME NEW i \in Index, r.entry[i] # NULL, r.entry[i].handle # NULL
                   PROVE  r.entry[i].handle \in r.lan
        OBVIOUS
      <4>1. i # m.file[fd] /\ r.entry[i] = m.entry[i]
        BY <2>r
      <4>2. m.entry[i].handle \in m.lan
        BY <4>1 DEF Agree, HandlesMatch
      <4>3. m.entry[i].handle # me.handle
        BY <2>1, <2>2, <4>1 DEF Agree, HandlesMatch, me
      <4> QED BY <2>r, <4>1, <4>2, <4>3
    <3>2. \A i \in Index : r.block[i] \in r.lan \cup {NULL}
      BY <2>7, <2>8, <2>r DEF Agree, HandlesMatch
    <3>3. \A i, j \in Index :
             r.block[i] = r.block[j] => i = j \/ r.block[i] = NULL
      BY <2>7, <2>r DEF Agree, HandlesMatch
    <3>4. \A i, j \in Index :
             r.entry[i] # NULL /\ r.entry[j] # NULL =>
               (r.entry[i].handle = r.entry[j].handle =>
                  i = j \/ r.entry[i].handle = NULL)
      BY <2>r DEF Agree, HandlesMatch
    <3> QED BY <3>1, <3>2, <3>3, <3>4 DEF HandlesMatch
  <2>11. Closed(m, fd) = r
    BY <2>5 DEF r, n, me, freed
  <2>12. Mailslots(r) \subseteq Mailslots(m) \ {fd}
    BY <2>1, <2>6, <2>7, <2>r DEF Mailslots, Tables
  <2>13. \A i \in Index :
            m.entry[i] # NULL /\ m.entry[i].fd = fd <=> i = m.file[fd]
    BY <2>1, <2>2 DEF Agree, EntriesMatch, me
  <2>14. Dropped(m, fd, r)
    BY <2>7, <2>13, <2>r DEF Dropped, me
  <2> QED BY <2>9, <2>10, <2>11, <2>12, <2>14, <2>r DEF Agree
<1> QED BY <1>1, <1>2, <1>3

-----------------------------------------------------------------------------
\* No file reads mailslot h.
Unread(m, h) == \A i \in Index : m.entry[i] # NULL => m.entry[i].handle # h

(***************************************************************************)
(* The end of open() fills an empty entry with a descriptor that was free. *)
(***************************************************************************)
LEMMA EnteredSound ==
  ASSUME NEW m, Sound(m),
         NEW handle \in m.lan \cup {NULL},
         handle # NULL => Unread(m, handle),
         NEW o \in Entered(m, handle)
  PROVE  /\ Sound(o.m) /\ o.m.lan = m.lan
         /\ \A h \in m.lan : Known(m, h) \/ h = handle => Known(o.m, h)
         /\ o.rv \in Fd \cup {NoFd}
         /\ Mailslots(o.m) \subseteq Mailslots(m) \cup {o.rv}
<1> DEFINE msd == First(Empty(m.entry))
           fd == AllocFd(m)
           lost == [m EXCEPT !.lost = @ \cup ({handle} \ {NULL})]
           open == [m EXCEPT !.file[fd] = msd,
                             !.entry[msd] = [fd |-> fd, handle |-> handle]]
<1>1. handle \in Handle \cup {NULL} /\ m \in Tables
  BY DEF Sound, Tables
<1>2. \/ o = [m |-> lost, rv |-> NoFd]
      \/ /\ Empty(m.entry) # {} /\ FreeFds(m) # {}
         /\ o = [m |-> open, rv |-> fd]
  BY DEF Entered, Outcome
<1>3. CASE o = [m |-> lost, rv |-> NoFd]
  <2>1. lost \in Tables /\ lost.file = m.file /\ lost.entry = m.entry
        /\ lost.block = m.block /\ lost.lan = m.lan
    BY <1>1 DEF Tables
  <2>2. Agree(lost)
    BY <2>1 DEF Sound, Agree, EntriesMatch, HandlesMatch
  <2>3. Mailslots(lost) = Mailslots(m)
    BY <2>1 DEF Mailslots
  <2>4. lost.lost = m.lost \cup ({handle} \ {NULL})
    BY <1>1 DEF Tables
  <2> HIDE DEF lost
  <2>5. \A h \in m.lan : Known(m, h) \/ h = handle => Known(lost, h)
    BY <1>1, <2>1, <2>4, MailslotAssumption DEF Known, Tables
  <2> QED BY <1>3, <2>1, <2>2, <2>3, <2>5 DEF Sound
<1>4. CASE /\ Empty(m.entry) # {} /\ FreeFds(m) # {}
           /\ o = [m |-> open, rv |-> fd]
  <2>1. msd \in Index /\ m.entry[msd] = NULL
    BY <1>4, FirstIn DEF Empty
  <2>2. fd \in Fd /\ m.file[fd] = FREE
    BY <1>4 DEF AllocFd, FreeFds
  <2>3. FREE \notin Index
    BY MailslotAssumption DEF Index
  <2> DEFINE new == [fd |-> fd, handle |-> handle]
  <2>4. new \in Entry /\ new # NULL /\ new.fd = fd /\ new.handle = handle
    BY <1>1, <2>2, MailslotAssumption DEF Entry
  <2> HIDE DEF msd, fd, new
  <2>5. open = [m EXCEPT !.file[fd] = msd, !.entry[msd] = new]
    BY DEF new
  <2> HIDE DEF open
  <2>6. /\ open \in Tables /\ open.block = m.block /\ open.lan = m.lan
        /\ open.lost = m.lost
        /\ open.file = [m.file EXCEPT ![fd] = msd]
        /\ open.entry = [m.entry EXCEPT ![msd] = new]
    BY <1>1, <2>1, <2>2, <2>4, <2>5 DEF Tables
  <2>7. /\ \A f \in Fd : open.file[f] = IF f = fd THEN msd ELSE m.file[f]
        /\ \A i \in Index : open.entry[i] = IF i = msd THEN new ELSE m.entry[i]
    BY <1>1, <2>6 DEF Tables
  <2>8. EntriesMatch(open)
    BY <1>1, <2>1, <2>2, <2>3, <2>4, <2>7 DEF EntriesMatch, Sound, Agree, Tables, Entry
  <2>9. HandlesMatch(open)
    BY <1>1, <2>1, <2>4, <2>6, <2>7 DEF HandlesMatch, Sound, Agree, Unread
  <2>10. Mailslots(open) \subseteq Mailslots(m) \cup {fd}
    BY <2>7 DEF Mailslots
  <2>11. ASSUME NEW h \in m.lan, Known(m, h) \/ h = handle
         PROVE  Known(open, h)
    BY <2>1, <2>4, <2>6, <2>7, <2>11 DEF Known
  <2> QED BY <1>4, <2>2, <2>6, <2>8, <2>9, <2>10, <2>11 DEF Sound, Agree
<1> QED BY <1>2, <1>3, <1>4

(***************************************************************************)
(* A mailslot that was just created exists and no file reads it.           *)
(***************************************************************************)
LEMMA CreatedSound ==
  ASSUME NEW m, Sound(m), NEW o \in Created(m)
  PROVE  /\ Sound(o.m)
         /\ AllKnown(m) => \A h \in o.m.lan : Known(o.m, h) \/ h = o.rv
         /\ o.rv \in o.m.lan \cup {NULL}
         /\ o.rv # NULL => Unread(o.m, o.rv)
         /\ Mailslots(o.m) = Mailslots(m)
<1> DEFINE h == NewHandle(m)
           k == First(Empty(m.block))
           made == [m EXCEPT !.lan = @ \cup {h}]
           kept == [made EXCEPT !.block[k] = h]
           lost == [made EXCEPT !.lost = @ \cup {h}]
<1>1. m \in Tables
  BY DEF Sound
<1>2. \/ o = [m |-> m, rv |-> NULL]
      \/ ~(Handle \subseteq m.lan) /\ o = [m |-> made, rv |-> h]
      \/ /\ ~(Handle \subseteq m.lan) /\ Empty(m.block) # {}
         /\ o \in {[m |-> kept, rv |-> h], [m |-> lost, rv |-> NULL]}
  BY DEF Created, Outcome
<1>3. CASE o = [m |-> m, rv |-> NULL]
  BY <1>3 DEF AllKnown
<1>4. CASE ~(Handle \subseteq m.lan)
  <2>1. h \in Handle /\ h \notin m.lan /\ h # NULL
    BY <1>4, MailslotAssumption DEF NewHandle
  <2> HIDE DEF h
  <2>2. /\ made \in Tables /\ made.file = m.file /\ made.entry = m.entry
        /\ made.block = m.block /\ made.lan = m.lan \cup {h}
        /\ made.lost = m.lost
    BY <1>1, <2>1 DEF Tables
  <2>3. EntriesMatch(made) /\ HandlesMatch(made) /\ Unread(made, h)
    BY <2>1, <2>2 DEF Sound, Agree, EntriesMatch, HandlesMatch, Unread
  <2>m. \A n : n.file = made.file => Mailslots(n) = Mailslots(m)
    BY <2>2 DEF Mailslots
  <2>k. \A g \in m.lan : Known(m, g) => Known(made, g)
    BY <2>2 DEF Known
  <2> HIDE DEF made
  <2>4. CASE o = [m |-> made, rv |-> h]
    BY <2>2, <2>3, <2>4, <2>m, <2>k DEF Sound, Agree, AllKnown
  <2>5. CASE o = [m |-> lost, rv |-> NULL]
    <3>1. /\ lost \in Tables /\ lost.file = made.file /\ lost.entry = made.entry
          /\ lost.block = made.block /\ lost.lan = made.lan
          /\ lost.lost = made.lost \cup {h}
      BY <2>1, <2>2 DEF Tables
    <3> HIDE DEF lost
    <3>2. Agree(lost)
      BY <2>3, <3>1 DEF Agree, EntriesMatch, HandlesMatch
    <3>3. AllKnown(m) => AllKnown(lost)
      BY <2>2, <2>k, <3>1 DEF AllKnown, Known
    <3> QED BY <2>5, <2>m, <3>1, <3>2, <3>3 DEF Sound, AllKnown
  <2>6. CASE Empty(m.block) # {} /\ o = [m |-> kept, rv |-> h]
    <3>1. k \in Index /\ m.block[k] = NULL
      BY <2>6, FirstIn DEF Empty
    <3> HIDE DEF k
    <3>2. /\ kept \in Tables /\ kept.file = made.file /\ kept.entry = made.entry
          /\ kept.block = [made.block EXCEPT ![k] = h] /\ kept.lan = made.lan
          /\ kept.lost = made.lost
      BY <2>1, <2>2, <3>1 DEF Tables
    <3> HIDE DEF kept
    <3>3. \A i \in Index : kept.block[i] = IF i = k THEN h ELSE m.block[i]
      BY <1>1, <2>2, <3>2 DEF Tables
    <3>4. \A i \in Index : m.block[i] # h
      BY <2>1 DEF Sound, Agree, HandlesMatch
    <3>5. HandlesMatch(kept)
      BY <2>1, <2>2, <2>3, <3>1, <3>2, <3>3, <3>4 DEF HandlesMatch, Sound, Agree
    <3>6. EntriesMatch(kept) /\ Unread(kept, h)
      BY <2>3, <3>2 DEF EntriesMatch, Unread
    <3>7. AllKnown(m) => AllKnown(kept)
      <4>1. \A g \in m.lan : Known(m, g) => Known(kept, g)
        <5>1. ASSUME NEW g \in m.lan, Known(m, g) PROVE Known(kept, g)
          <6>1. CASE g \in m.lost
            BY <2>2, <3>2, <6>1 DEF Known
          <6>2. ASSUME NEW i \in Index, m.block[i] = g PROVE Known(kept, g)
            <7>1. i # k
              BY <1>1, <3>1, <6>2, MailslotAssumption DEF Tables
            <7> QED BY <3>3, <6>2, <7>1 DEF Known
          <6>3. ASSUME NEW i \in Index, m.entry[i] # NULL, m.entry[i].handle = g
                PROVE  Known(kept, g)
            BY <2>2, <3>2, <6>3 DEF Known
          <6> QED BY <5>1, <6>1, <6>2, <6>3 DEF Known
        <5> QED BY <5>1
      <4> QED BY <2>2, <3>1, <3>2, <3>3, <4>1 DEF AllKnown, Known
    <3> QED BY <2>2, <2>6, <2>m, <3>2, <3>5, <3>6, <3>7 DEF Sound, Agree, AllKnown
  <2> QED BY <1>2, <1>3, <2>4, <2>5, <2>6
<1> QED BY <1>2, <1>3, <1>4

(***************************************************************************)
(* close() and open() forget no mailslot: whatever fails, every one that   *)
(* exists has a control block or an entry, or is lost.                     *)
(***************************************************************************)
LEMMA ClosedFine ==
  ASSUME NEW m, Fine(m), NEW fd \in Fd \cup {NoFd}
  PROVE  /\ Fine(Closed(m, fd))
         /\ Mailslots(Closed(m, fd)) \subseteq Mailslots(m) \ {fd}
<1> DEFINE n == Closed(m, fd)
<1>1. /\ Sound(n) /\ Dropped(m, fd, n)
      /\ Mailslots(n) \subseteq Mailslots(m) \ {fd}
  BY ClosedSound DEF Fine
<1> HIDE DEF n
<1>2. ASSUME NEW h \in n.lan PROVE Known(n, h)
  <2>1. Known(m, h)
    BY <1>1, <1>2 DEF Dropped, Fine, AllKnown
  <2> QED BY <1>1, <1>2, <2>1 DEF Dropped, Known
<1>3. Fine(n)
  BY <1>1, <1>2 DEF Fine, AllKnown
<1> QED BY <1>1, <1>3 DEF n

LEMMA OpenedWriteFine ==
  ASSUME NEW m, Fine(m), NEW o \in OpenedWrite(m)
  PROVE  /\ Fine(o.m) /\ o.rv \in Fd \cup {NoFd}
         /\ Mailslots(o.m) \subseteq Mailslots(m) \cup {o.rv}
BY EnteredSound DEF OpenedWrite, Fine, AllKnown

LEMMA OpenedReadFine ==
  ASSUME NEW m, Fine(m), NEW o \in OpenedRead(m)
  PROVE  /\ Fine(o.m) /\ o.rv \in Fd \cup {NoFd}
         /\ Mailslots(o.m) \subseteq Mailslots(m) \cup {o.rv}
<1>1. PICK c \in Created(m) :
          o \in IF c.rv = NULL THEN Outcome(c.m, NoFd) ELSE Entered(c.m, c.rv)
  BY DEF OpenedRead
<1>2. /\ Sound(c.m) /\ c.rv \in c.m.lan \cup {NULL}
      /\ \A h \in c.m.lan : Known(c.m, h) \/ h = c.rv
      /\ c.rv # NULL => Unread(c.m, c.rv)
      /\ Mailslots(c.m) = Mailslots(m)
  BY CreatedSound DEF Fine
<1>3. CASE c.rv = NULL
  <2>1. o = [m |-> c.m, rv |-> NoFd]
    BY <1>1, <1>3 DEF Outcome
  <2>2. NULL \notin c.m.lan
    BY <1>2, MailslotAssumption DEF Sound, Tables
  <2> QED BY <1>2, <1>3, <2>1, <2>2 DEF Fine, AllKnown
<1>4. CASE c.rv # NULL
  <2>1. o \in Entered(c.m, c.rv)
    BY <1>1, <1>4
  <2>2. /\ Sound(o.m) /\ o.m.lan = c.m.lan
        /\ \A h \in c.m.lan : Known(c.m, h) \/ h = c.rv => Known(o.m, h)
        /\ o.rv \in Fd \cup {NoFd}
        /\ Mailslots(o.m) \subseteq Mailslots(c.m) \cup {o.rv}
    BY <1>2, <1>4, <2>1, EnteredSound
  <2> QED BY <1>2, <2>2 DEF Fine, AllKnown
<1> QED BY <1>3, <1>4

-----------------------------------------------------------------------------
(***************************************************************************)
(* The inductive invariant.  A call that closes files needs the tables to  *)
(* agree, to close these and no others, and the numbers in the socket to   *)
(* be descriptors; which are stale does not matter.  That exit() destroys  *)
(* every mailslot but the lost ones needs every mailslot to be known at    *)
(* all times before.                                                       *)
(***************************************************************************)
IInv ==
    /\ TypeOK
    /\ ~exited => Fine(ms) /\ FilesAccounted
    /\ ExitDestroys

-----------------------------------------------------------------------------
\* What the steps of the calls preserve.
LEMMA NoMailslotsFine == Fine(NoMailslots) /\ Mailslots(NoMailslots) = {}
<1>1. FREE \notin Index
  BY MailslotAssumption DEF Index
<1>2. NoMailslots \in Tables
  BY DEF NoMailslots, Tables
<1>3. EntriesMatch(NoMailslots) /\ HandlesMatch(NoMailslots)
  BY <1>1 DEF NoMailslots, EntriesMatch, HandlesMatch
<1>4. Mailslots(NoMailslots) = {}
  BY <1>1 DEF NoMailslots, Mailslots
<1>5. AllKnown(NoMailslots)
  BY DEF NoMailslots, AllKnown
<1> QED BY <1>2, <1>3, <1>4, <1>5 DEF Fine, Sound, Agree

LEMMA NewSocketType ==
  ASSUME NEW type \in {"stream", "dgram"}
  PROVE  NewSocket(type) \in Socket /\ ~NewSocket(type).bound
         /\ ~NewSocket(type).connected /\ NewSocket(type).fd_w = NoFd
BY DEF NewSocket, Socket

\* A bind() that fails leaves no file, one that succeeds leaves the socket's.
LEMMA BoundFine ==
  ASSUME NEW m, Fine(m), NEW u \in Socket, NEW b \in Bound(m, u)
  PROVE  /\ Fine(b.m) /\ b.u \in Socket
         /\ b.u.bound <=> b.u.fd_r # NoFd
         /\ b.u.fd_w = u.fd_w /\ b.u.connected = u.connected
         /\ b.u.type = u.type
         /\ Mailslots(b.m) \subseteq Mailslots(m) \cup {b.u.fd_r}
<1>1. PICK o \in OpenedRead(m) :
          b = [m |-> o.m, u |-> [u EXCEPT !.fd_r = o.rv, !.bound = o.rv # NoFd]]
  BY DEF Bound
<1>2. /\ Fine(o.m) /\ o.rv \in Fd \cup {NoFd}
      /\ Mailslots(o.m) \subseteq Mailslots(m) \cup {o.rv}
  BY OpenedReadFine
<1>3. b.m = o.m /\ b.u = [u EXCEPT !.fd_r = o.rv, !.bound = o.rv # NoFd]
  BY <1>1
<1> QED BY <1>2, <1>3 DEF Socket

LEMMA MailslotsAreFds == ASSUME NEW m PROVE Mailslots(m) \subseteq Fd
BY DEF Mailslots

\* Fine says something of the state the tables are in, and of no other.
LEMMA FinePrimed == Fine(ms') <=> Fine(ms)'
BY DEF Fine, Sound, AllKnown, Known, Agree, EntriesMatch, HandlesMatch, Tables, Entry

(***************************************************************************)
(* The end of a call on one socket: the files open then are in use by it,  *)
(* forgotten, or were open before and not in use by it.                    *)
(***************************************************************************)
LEMMA SetLeavingAccounts ==
  ASSUME IInv, ~exited,
         NEW x \in Sock, NEW u \in Socket \cup {NULL}, NEW m, Fine(m),
         NEW forgotten, forgotten \subseteq Fd \cup {NoFd},
         Mailslots(m) \subseteq
             (Mailslots(ms) \ InUse(usock[x])) \cup InUse(u) \cup forgotten,
         SetLeaving(x, u, m, forgotten)
  PROVE  IInv'
<1>1. /\ ms' = m /\ files' = files /\ exited' = exited
      /\ usock' = [usock EXCEPT ![x] = u]
      /\ left' = (left \cap Mailslots(m)) \cup (forgotten \ {NoFd})
  BY DEF SetLeaving
<1>2. /\ usock \in [Sock -> Socket \cup {NULL}]
      /\ Mailslots(ms) \subseteq left \cup UNION {InUse(usock[y]) : y \in Sock}
  BY DEF IInv, TypeOK, FilesAccounted
<1>3. usock' \in [Sock -> Socket \cup {NULL}]
  BY <1>1, <1>2
<1>4. ASSUME NEW f \in Mailslots(m), f \notin left'
      PROVE  \E y \in Sock : f \in InUse(usock'[y])
  <2>1. f # NoFd /\ f \notin forgotten /\ f \notin left
    BY <1>1, <1>4, MailslotsAreFds, MailslotAssumption
  <2>2. CASE f \in InUse(u)
    BY <1>1, <1>2, <2>2
  <2>3. CASE f \in Mailslots(ms) /\ f \notin InUse(usock[x])
    <3>1. PICK y \in Sock : f \in InUse(usock[y])
      BY <1>2, <2>1, <2>3
    <3>2. usock'[y] = usock[y]
      BY <1>1, <1>2, <2>3, <3>1
    <3> QED BY <3>1, <3>2
  <2> QED BY <2>1, <2>2, <2>3
<1>5. FilesAccounted'
  BY <1>1, <1>4 DEF FilesAccounted, Mailslots
<1>6. TypeOK'
  BY <1>1, <1>3, MailslotsAreFds DEF IInv, TypeOK, Fine, Sound
<1>7. Fine(ms')
  BY <1>1
<1> QED BY <1>1, <1>5, <1>6, <1>7, FinePrimed DEF IInv, ExitDestroys

-----------------------------------------------------------------------------
\* What a socket holds and an action of it must account for.
LEMMA HeldSocket ==
  ASSUME IInv, ~exited, NEW x \in Sock
  PROVE  /\ Fine(ms) /\ usock[x] \in Socket \cup {NULL}
         /\ usock[x] # NULL => usock[x] \in Socket
BY DEF IInv, TypeOK

\* close() of both files of a socket.
LEMMA ReleasedFine ==
  ASSUME NEW m, Fine(m), NEW u \in Socket
  PROVE  /\ Fine(Released(m, u))
         /\ Mailslots(Released(m, u)) \subseteq Mailslots(m) \ {u.fd_r, u.fd_w}
<1>1. u.fd_r \in Fd \cup {NoFd} /\ u.fd_w \in Fd \cup {NoFd}
  BY DEF Socket
<1>2. /\ Fine(Closed(m, u.fd_r))
      /\ Mailslots(Closed(m, u.fd_r)) \subseteq Mailslots(m) \ {u.fd_r}
  BY <1>1, ClosedFine
<1>3. /\ Fine(Closed(Closed(m, u.fd_r), u.fd_w))
      /\ Mailslots(Closed(Closed(m, u.fd_r), u.fd_w))
            \subseteq Mailslots(Closed(m, u.fd_r)) \ {u.fd_w}
  BY <1>1, <1>2, ClosedFine
<1> QED BY <1>2, <1>3 DEF Released

LEMMA SocketAccounts ==
  ASSUME IInv, ~exited, NEW x \in Sock, NEW type \in {"stream", "dgram"},
         socket(x, type)
  PROVE  IInv'
<1>1. SetLeaving(x, NewSocket(type), ms, {}) /\ usock[x] = NULL
  BY DEF socket, SetTo
<1>2. InUse(usock[x]) = {}
  BY <1>1 DEF InUse
<1> QED BY <1>1, <1>2, HeldSocket, NewSocketType, SetLeavingAccounts

LEMMA BindAccounts ==
  ASSUME IInv, ~exited, NEW x \in Sock, bind(x)
  PROVE  IInv'
<1>1. usock[x] \in Socket /\ ~usock[x].bound /\ Fine(ms)
  BY HeldSocket DEF bind
<1>2. PICK b \in Bound(ms, usock[x]) : SetLeaving(x, b.u, b.m, {})
  BY DEF bind, SetTo
<1>3. /\ Fine(b.m) /\ b.u \in Socket
      /\ b.u.bound <=> b.u.fd_r # NoFd
      /\ b.u.fd_w = usock[x].fd_w /\ b.u.connected = usock[x].connected
      /\ Mailslots(b.m) \subseteq Mailslots(ms) \cup {b.u.fd_r}
  BY <1>1, <1>2, BoundFine
<1>4. NoFd \notin Mailslots(b.m)
  BY MailslotsAreFds, MailslotAssumption
<1>5. Mailslots(b.m) \subseteq (Mailslots(ms) \ InUse(usock[x])) \cup InUse(b.u) \cup {}
  BY <1>1, <1>3, <1>4, UnixFilesAssumption DEF InUse
<1> QED BY <1>2, <1>3, <1>5, SetLeavingAccounts

LEMMA ListenAccounts ==
  ASSUME IInv, ~exited, NEW x \in Sock, listen(x)
  PROVE  IInv'
<1> DEFINE u == [usock[x] EXCEPT !.listening = TRUE]
<1>1. usock[x] \in Socket /\ Fine(ms)
  BY HeldSocket DEF listen, Is
<1>2. SetLeaving(x, u, ms, {})
  BY DEF listen, SetTo
<1>3. u \in Socket /\ u.fd_r = usock[x].fd_r /\ u.fd_w = usock[x].fd_w
      /\ u.bound = usock[x].bound /\ u.connected = usock[x].connected
  BY <1>1 DEF Socket
<1>4. usock[x] # NULL
  BY DEF listen, Is
<1> HIDE DEF u
<1>5. InUse(usock[x]) = InUse(u)
  BY <1>3, <1>4, UnixFilesAssumption DEF InUse
<1> QED BY <1>1, <1>2, <1>3, <1>5, SetLeavingAccounts

\* bind() where connect() and sendto() need it.
LEMMA BoundHereFine ==
  ASSUME NEW m, Fine(m), NEW u \in Socket, NEW b \in BoundHere(m, u)
  PROVE  /\ Fine(b.m) /\ b.u \in Socket
         /\ b.u.fd_w = u.fd_w /\ b.u.connected = u.connected
         /\ u.bound => b.u = u
         /\ Mailslots(b.m) \subseteq
                Mailslots(m) \cup (IF u.bound THEN {} ELSE {b.u.fd_r})
         /\ ~b.u.bound => Mailslots(b.m) \subseteq Mailslots(m)
<1>1. CASE u.bound
  <2>1. b = [m |-> m, u |-> u]
    BY <1>1 DEF BoundHere
  <2> QED BY <1>1, <2>1
<1>2. CASE ~u.bound
  <2>1. b \in Bound(m, u)
    BY <1>2 DEF BoundHere
  <2>2. NoFd \notin Mailslots(b.m)
    BY MailslotsAreFds, MailslotAssumption
  <2> QED BY <1>2, <2>1, <2>2, BoundFine
<1> QED BY <1>1, <1>2

\* connect() fails on socket x, with file descriptors u by then.
LEMMA ConnectFailedAccounts ==
  ASSUME IInv, ~exited, NEW x \in Sock,
         usock[x] \in Socket, usock[x] # NULL, ~usock[x].connected,
         NEW m, Fine(m), NEW u \in Socket, u.bound, ~u.connected,
         usock[x].bound => u.fd_r = usock[x].fd_r,
         NEW F, F \subseteq Fd \cup {NoFd},
         Mailslots(m) \subseteq Mailslots(ms) \cup F
             \cup (IF usock[x].bound THEN {} ELSE {u.fd_r}),
         ConnectFailed(x, m, u, F)
  PROVE  IInv'
<1>1. CASE usock[x].bound
  <2>1. SetLeaving(x, u, m, F)
    BY <1>1 DEF ConnectFailed
  <2>2. u # NULL
    BY UnixFilesAssumption
  <2>3. InUse(u) = {u.fd_r} /\ InUse(usock[x]) = {u.fd_r}
    BY <1>1, <2>2 DEF InUse
  <2>4. Mailslots(m) \subseteq
            (Mailslots(ms) \ InUse(usock[x])) \cup InUse(u) \cup F
    BY <1>1, <2>3
  <2> QED BY <2>1, <2>4, SetLeavingAccounts
<1>2. CASE ~usock[x].bound
  <2> DEFINE v == [u EXCEPT !.bound = FALSE]
             n == Closed(m, u.fd_r)
  <2>1. SetLeaving(x, v, n, F)
    BY <1>2 DEF ConnectFailed
  <2>2. u.fd_r \in Fd \cup {NoFd}
    BY DEF Socket
  <2>3. Fine(n) /\ Mailslots(n) \subseteq Mailslots(m) \ {u.fd_r}
    BY <2>2, ClosedFine
  <2>4. v \in Socket
    BY DEF Socket
  <2>5. InUse(usock[x]) = {}
    BY <1>2 DEF InUse
  <2>6. Mailslots(n) \subseteq
            (Mailslots(ms) \ InUse(usock[x])) \cup InUse(v) \cup F
    BY <1>2, <2>3, <2>5
  <2> HIDE DEF v, n
  <2> QED BY <2>1, <2>3, <2>4, <2>6, SetLeavingAccounts
<1> QED BY <1>1, <1>2

LEMMA ConnectAccounts ==
  ASSUME IInv, ~exited, NEW x \in Sock, connect(x)
  PROVE  IInv'
<1>1. usock[x] \in Socket /\ usock[x] # NULL /\ ~usock[x].connected /\ Fine(ms)
  BY HeldSocket DEF connect, Is
<1>2. PICK o \in OpenedWrite(ms) :
          IF o.rv = NoFd THEN ConnectUnopened(x, o.m, usock[x])
          ELSE \E b \in BoundHere(o.m, usock[x]) :
                  IF ~b.u.bound THEN SetLeaving(x, b.u, b.m, {o.rv})
                  ELSE ConnectUnanswered(x, b, o.rv) \/ ConnectAnswered(x, b, o.rv)
  BY DEF connect
<1>3. /\ Fine(o.m) /\ o.rv \in Fd \cup {NoFd}
      /\ Mailslots(o.m) \subseteq Mailslots(ms) \cup {o.rv}
  BY <1>1, OpenedWriteFine
<1>4. CASE o.rv = NoFd
  <2>1. SetLeaving(x, usock[x], o.m, {})
    BY <1>2, <1>4 DEF ConnectUnopened, SetTo
  <2>2. Mailslots(o.m) \subseteq Mailslots(ms)
    BY <1>3, <1>4, MailslotsAreFds, MailslotAssumption
  <2> QED BY <1>1, <1>3, <2>1, <2>2, SetLeavingAccounts
<1>5. CASE o.rv # NoFd
  <2>1. PICK b \in BoundHere(o.m, usock[x]) :
            IF ~b.u.bound THEN SetLeaving(x, b.u, b.m, {o.rv})
            ELSE ConnectUnanswered(x, b, o.rv) \/ ConnectAnswered(x, b, o.rv)
    BY <1>2, <1>5
  <2>2. /\ Fine(b.m) /\ b.u \in Socket
        /\ b.u.fd_w = usock[x].fd_w /\ b.u.connected = usock[x].connected
        /\ usock[x].bound => b.u = usock[x]
        /\ Mailslots(b.m) \subseteq
               Mailslots(o.m) \cup (IF usock[x].bound THEN {} ELSE {b.u.fd_r})
        /\ ~b.u.bound => Mailslots(b.m) \subseteq Mailslots(o.m)
    BY <1>1, <1>3, BoundHereFine
  <2>3. b.u.fd_r \in Fd \cup {NoFd} /\ b.u # NULL
    BY <2>2, UnixFilesAssumption DEF Socket
  <2>4. CASE ~b.u.bound
    <3>1. SetLeaving(x, b.u, b.m, {o.rv})
      BY <2>1, <2>4
    <3>2. InUse(usock[x]) = {}
      BY <1>1, <2>2, <2>4 DEF InUse
    <3> QED BY <1>3, <2>2, <2>4, <3>1, <3>2, SetLeavingAccounts
  <2>7. usock[x].bound => b.u.fd_r = usock[x].fd_r
    BY <2>2
  <2>5. CASE b.u.bound /\ ConnectUnanswered(x, b, o.rv)
    <3>1. ConnectFailed(x, b.m, b.u, {o.rv})
      BY <2>5 DEF ConnectUnanswered
    <3>2. Mailslots(b.m) \subseteq Mailslots(ms) \cup {o.rv}
              \cup (IF usock[x].bound THEN {} ELSE {b.u.fd_r})
      BY <1>3, <2>2
    <3>3. ~b.u.connected
      BY <1>1, <2>2
    <3> QED BY <1>1, <1>3, <2>2, <2>5, <2>7, <3>1, <3>2, <3>3,
               ConnectFailedAccounts
  <2>6. CASE b.u.bound /\ ConnectAnswered(x, b, o.rv)
    <3> PICK w \in OpenedWrite(b.m) :
              LET u == [b.u EXCEPT !.fd_w = w.rv]
              IN  \/ SetLeaving(x, [u EXCEPT !.connected = TRUE], w.m, {o.rv})
                  \/ ConnectFailed(x, w.m, u, {o.rv, w.rv})
      BY <2>6 DEF ConnectAnswered
    <3> DEFINE u == [b.u EXCEPT !.fd_w = w.rv]
               v == [u EXCEPT !.connected = TRUE]
    <3>1. SetLeaving(x, v, w.m, {o.rv}) \/ ConnectFailed(x, w.m, u, {o.rv, w.rv})
      OBVIOUS
    <3>2. /\ Fine(w.m) /\ w.rv \in Fd \cup {NoFd}
          /\ Mailslots(w.m) \subseteq Mailslots(b.m) \cup {w.rv}
      BY <2>2, OpenedWriteFine
    <3>3. /\ u \in Socket /\ u.fd_r = b.u.fd_r /\ u.bound = b.u.bound
          /\ u.connected = b.u.connected
      BY <2>2, <3>2 DEF Socket
    <3>4. /\ v \in Socket /\ v.fd_r = b.u.fd_r /\ v.bound = b.u.bound
          /\ v.fd_w = w.rv /\ v.connected
      BY <2>2, <3>2 DEF Socket
    <3> HIDE DEF u, v
    <3>5. CASE SetLeaving(x, v, w.m, {o.rv})
      <4>1. InUse(v) = {b.u.fd_r, w.rv}
        BY <2>6, <3>4, UnixFilesAssumption DEF InUse
      <4>2. InUse(usock[x]) \subseteq {b.u.fd_r}
        BY <1>1, <2>2 DEF InUse
      <4>3. Mailslots(w.m) \subseteq
                (Mailslots(ms) \ InUse(usock[x])) \cup InUse(v) \cup {o.rv}
        BY <1>3, <2>2, <3>2, <4>1, <4>2
      <4> QED BY <1>3, <3>2, <3>4, <3>5, <4>3, SetLeavingAccounts
    <3>6. CASE ConnectFailed(x, w.m, u, {o.rv, w.rv})
      <4> DEFINE F == {o.rv, w.rv}
      <4>1. F \subseteq Fd \cup {NoFd}
        BY <1>3, <3>2
      <4>2. Mailslots(w.m) \subseteq Mailslots(ms) \cup F
                \cup (IF usock[x].bound THEN {} ELSE {u.fd_r})
        BY <1>3, <2>2, <3>2, <3>3
      <4>3. u.bound /\ ~u.connected
        BY <1>1, <2>2, <2>6, <3>3
      <4>4. usock[x].bound => u.fd_r = usock[x].fd_r
        BY <2>7, <3>3
      <4>5. ConnectFailed(x, w.m, u, F)
        BY <3>6
      <4> HIDE DEF F
      <4> QED BY <1>1, <3>2, <3>3, <4>1, <4>2, <4>3, <4>4, <4>5,
                 ConnectFailedAccounts
    <3> QED BY <3>1, <3>5, <3>6
  <2> QED BY <2>1, <2>4, <2>5, <2>6
<1> QED BY <1>4, <1>5

LEMMA AcceptAccounts ==
  ASSUME IInv, ~exited, NEW x \in Sock, NEW y \in Sock, accept(x, y)
  PROVE  IInv'
<1>1. usock[y] = NULL /\ Fine(ms) /\ InUse(usock[y]) = {}
  BY HeldSocket DEF accept, InUse
<1>2. PICK r \in OpenedRead(ms) :
          IF r.rv = NoFd THEN SetTo(y, NULL, r.m)
          ELSE \E w \in OpenedWrite(r.m) :
                  IF w.rv = NoFd THEN SetLeaving(y, NULL, w.m, {r.rv})
                  ELSE \/ SetLeaving(y, NULL, w.m, {r.rv, w.rv})
                       \/ SetTo(y, [NewSocket("stream") EXCEPT
                                           !.fd_r = r.rv, !.fd_w = w.rv,
                                           !.bound = TRUE, !.connected = TRUE,
                                           !.accepted = TRUE],
                                     w.m)
  BY DEF accept
<1>3. /\ Fine(r.m) /\ r.rv \in Fd \cup {NoFd}
      /\ Mailslots(r.m) \subseteq Mailslots(ms) \cup {r.rv}
  BY <1>1, OpenedReadFine
<1>4. CASE r.rv = NoFd
  <2>1. Mailslots(r.m) \subseteq Mailslots(ms)
    BY <1>3, <1>4, MailslotsAreFds, MailslotAssumption
  <2> QED BY <1>1, <1>2, <1>3, <1>4, <2>1, SetLeavingAccounts DEF SetTo
<1>5. CASE r.rv # NoFd
  <2>1. PICK w \in OpenedWrite(r.m) :
            IF w.rv = NoFd THEN SetLeaving(y, NULL, w.m, {r.rv})
            ELSE \/ SetLeaving(y, NULL, w.m, {r.rv, w.rv})
                 \/ SetTo(y, [NewSocket("stream") EXCEPT
                                     !.fd_r = r.rv, !.fd_w = w.rv,
                                     !.bound = TRUE, !.connected = TRUE,
                                     !.accepted = TRUE],
                               w.m)
    BY <1>2, <1>5
  <2>2. /\ Fine(w.m) /\ w.rv \in Fd \cup {NoFd}
        /\ Mailslots(w.m) \subseteq Mailslots(r.m) \cup {w.rv}
    BY <1>3, OpenedWriteFine
  <2>3. Mailslots(w.m) \subseteq Mailslots(ms) \cup {r.rv, w.rv}
    BY <1>3, <2>2
  <2>4. CASE w.rv = NoFd
    <3>1. Mailslots(w.m) \subseteq Mailslots(ms) \cup {r.rv}
      BY <2>3, <2>4, MailslotsAreFds, MailslotAssumption
    <3> QED BY <1>1, <1>3, <2>1, <2>2, <2>4, <3>1, SetLeavingAccounts
  <2>5. CASE SetLeaving(y, NULL, w.m, {r.rv, w.rv})
    BY <1>1, <1>3, <2>2, <2>3, <2>5, SetLeavingAccounts
  <2>6. CASE SetTo(y, [NewSocket("stream") EXCEPT
                           !.fd_r = r.rv, !.fd_w = w.rv,
                           !.bound = TRUE, !.connected = TRUE,
                           !.accepted = TRUE],
                     w.m)
    <3> DEFINE v == [NewSocket("stream") EXCEPT
                         !.fd_r = r.rv, !.fd_w = w.rv, !.bound = TRUE,
                         !.connected = TRUE, !.accepted = TRUE]
    <3>1. v \in Socket /\ v.fd_r = r.rv /\ v.fd_w = w.rv /\ v.bound /\ v.connected
      BY <1>3, <2>2 DEF NewSocket, Socket
    <3>2. SetLeaving(y, v, w.m, {})
      BY <2>6 DEF SetTo
    <3> HIDE DEF v
    <3>3. InUse(v) = {r.rv, w.rv}
      BY <3>1, UnixFilesAssumption DEF InUse
    <3> QED BY <1>1, <2>2, <2>3, <3>1, <3>2, <3>3, SetLeavingAccounts
  <2> QED BY <2>1, <2>4, <2>5, <2>6
<1> QED BY <1>4, <1>5

LEMMA SendtoAccounts ==
  ASSUME IInv, ~exited, NEW x \in Sock, sendto(x)
  PROVE  IInv'
<1>1. usock[x] \in Socket /\ usock[x] # NULL /\ Fine(ms)
  BY HeldSocket DEF sendto, Is
<1>2. PICK b \in BoundHere(ms, usock[x]) :
          IF ~b.u.bound THEN SetTo(x, b.u, b.m)
          ELSE \E w \in OpenedWrite(b.m) :
                  \/ SetTo(x, b.u, Closed(w.m, w.rv))
                  \/ SetLeaving(x, b.u, w.m, {w.rv})
  BY DEF sendto
<1>3. /\ Fine(b.m) /\ b.u \in Socket
      /\ b.u.fd_w = usock[x].fd_w /\ b.u.connected = usock[x].connected
      /\ usock[x].bound => b.u = usock[x]
      /\ Mailslots(b.m) \subseteq
             Mailslots(ms) \cup (IF usock[x].bound THEN {} ELSE {b.u.fd_r})
      /\ ~b.u.bound => Mailslots(b.m) \subseteq Mailslots(ms)
  BY <1>1, <1>2, BoundHereFine
<1>4. b.u # NULL
  BY <1>3, UnixFilesAssumption
<1>5. CASE ~b.u.bound
  <2>1. InUse(usock[x]) \subseteq InUse(b.u)
    BY <1>1, <1>3, <1>4, <1>5 DEF InUse
  <2> QED BY <1>2, <1>3, <1>5, <2>1, SetLeavingAccounts DEF SetTo
<1>6. CASE b.u.bound
  <2>1. PICK w \in OpenedWrite(b.m) :
            \/ SetTo(x, b.u, Closed(w.m, w.rv))
            \/ SetLeaving(x, b.u, w.m, {w.rv})
    BY <1>2, <1>6
  <2>2. /\ Fine(w.m) /\ w.rv \in Fd \cup {NoFd}
        /\ Mailslots(w.m) \subseteq Mailslots(b.m) \cup {w.rv}
    BY <1>3, OpenedWriteFine
  <2>3. /\ Fine(Closed(w.m, w.rv))
        /\ Mailslots(Closed(w.m, w.rv)) \subseteq Mailslots(w.m) \ {w.rv}
    BY <2>2, ClosedFine
  <2>4. Mailslots(b.m) \subseteq (Mailslots(ms) \ InUse(usock[x])) \cup InUse(b.u)
    BY <1>1, <1>3, <1>4, <1>6 DEF InUse
  <2>5. CASE SetTo(x, b.u, Closed(w.m, w.rv))
    BY <1>3, <2>2, <2>3, <2>4, <2>5, SetLeavingAccounts DEF SetTo
  <2>6. CASE SetLeaving(x, b.u, w.m, {w.rv})
    BY <1>3, <2>2, <2>4, <2>6, SetLeavingAccounts
  <2> QED BY <2>1, <2>5, <2>6
<1> QED BY <1>5, <1>6

LEMMA CloseAccounts ==
  ASSUME IInv, ~exited, NEW x \in Sock, close(x)
  PROVE  IInv'
<1>1. usock[x] \in Socket /\ Fine(ms) /\ SetLeaving(x, NULL, Released(ms, usock[x]), {})
  BY HeldSocket DEF close, SetTo
<1>2. InUse(usock[x]) \subseteq {usock[x].fd_r, usock[x].fd_w}
  BY DEF InUse
<1>3. /\ Fine(Released(ms, usock[x]))
      /\ Mailslots(Released(ms, usock[x])) \subseteq
             (Mailslots(ms) \ InUse(usock[x])) \cup InUse(NULL) \cup {}
  BY <1>1, <1>2, ReleasedFine
<1> QED BY <1>1, <1>3, SetLeavingAccounts

(***************************************************************************)
(* The same for a call that makes two sockets where there were none.       *)
(***************************************************************************)
LEMMA PairedAccounts ==
  ASSUME IInv, ~exited,
         NEW x \in Sock, NEW y \in Sock, x # y, usock[x] = NULL, usock[y] = NULL,
         NEW u \in Socket \cup {NULL}, NEW v \in Socket \cup {NULL},
         NEW m, Fine(m),
         Mailslots(m) \subseteq Mailslots(ms) \cup InUse(u) \cup InUse(v),
         Paired(x, y, u, v, m)
  PROVE  IInv'
<1>1. /\ ms' = m /\ files' = files /\ exited' = exited
      /\ usock' = [usock EXCEPT ![x] = u, ![y] = v]
      /\ left' = left \cap Mailslots(m)
  BY DEF Paired
<1>2. /\ usock \in [Sock -> Socket \cup {NULL}]
      /\ Mailslots(ms) \subseteq left \cup UNION {InUse(usock[z]) : z \in Sock}
  BY DEF IInv, TypeOK, FilesAccounted
<1>3. /\ usock' \in [Sock -> Socket \cup {NULL}]
      /\ usock'[x] = u /\ usock'[y] = v
      /\ \A z \in Sock \ {x, y} : usock'[z] = usock[z]
  BY <1>1, <1>2
<1>4. ASSUME NEW f \in Mailslots(m), f \notin left'
      PROVE  \E z \in Sock : f \in InUse(usock'[z])
  <2>1. CASE f \in InUse(u) \/ f \in InUse(v)
    BY <1>3, <2>1
  <2>2. CASE f \in Mailslots(ms)
    <3>1. PICK z \in Sock : f \in InUse(usock[z])
      BY <1>1, <1>2, <1>4, <2>2
    <3>2. z # x /\ z # y
      BY <3>1 DEF InUse
    <3> QED BY <1>3, <3>1, <3>2
  <2> QED BY <2>1, <2>2
<1>5. FilesAccounted'
  BY <1>1, <1>4 DEF FilesAccounted, Mailslots
<1>6. TypeOK'
  BY <1>1, <1>3, MailslotsAreFds DEF IInv, TypeOK, Fine, Sound
<1>7. Fine(ms')
  BY <1>1
<1> QED BY <1>1, <1>5, <1>6, <1>7, FinePrimed DEF IInv, ExitDestroys

LEMMA WritersFine ==
  ASSUME NEW m, Fine(m), NEW w \in Writers(m)
  PROVE  /\ Fine(w.m) /\ w.v \in Fd \cup {NoFd} /\ w.w \in Fd \cup {NoFd}
         /\ Mailslots(w.m) \subseteq Mailslots(m) \cup {w.v, w.w}
<1>1. PICK v \in OpenedWrite(m) :
          w \in IF v.rv = NoFd THEN {[m |-> v.m, v |-> NoFd, w |-> NoFd]}
                ELSE {[m |-> o.m, v |-> v.rv, w |-> o.rv] : o \in OpenedWrite(v.m)}
  BY DEF Writers
<1>2. /\ Fine(v.m) /\ v.rv \in Fd \cup {NoFd}
      /\ Mailslots(v.m) \subseteq Mailslots(m) \cup {v.rv}
  BY OpenedWriteFine
<1>3. CASE v.rv = NoFd
  BY <1>1, <1>2, <1>3
<1>4. CASE v.rv # NoFd
  <2>1. PICK o \in OpenedWrite(v.m) : w = [m |-> o.m, v |-> v.rv, w |-> o.rv]
    BY <1>1, <1>4
  <2>2. /\ Fine(o.m) /\ o.rv \in Fd \cup {NoFd}
        /\ Mailslots(o.m) \subseteq Mailslots(v.m) \cup {o.rv}
    BY <1>2, OpenedWriteFine
  <2> QED BY <1>2, <2>1, <2>2
<1> QED BY <1>3, <1>4

LEMMA SocketpairAccounts ==
  ASSUME IInv, ~exited, NEW x \in Sock, NEW y \in Sock,
         NEW type \in {"stream", "dgram"}, socketpair(x, y, type)
  PROVE  IInv'
<1>1. x # y /\ usock[x] = NULL /\ usock[y] = NULL /\ Fine(ms)
  BY HeldSocket DEF socketpair
<1> DEFINE new == NewSocket(type)
<1>2. new \in Socket /\ ~new.connected /\ new.fd_w = NoFd
  BY NewSocketType
<1> HIDE DEF new
<1>3. PICK b \in Bound(ms, new) :
          IF ~b.u.bound
          THEN Paired(x, y, NULL, NULL, Released(b.m, b.u))
          ELSE \E c \in Bound(b.m, new) :
                  IF ~c.u.bound
                  THEN Paired(x, y, NULL, NULL, Released(Released(c.m, b.u), c.u))
                  ELSE IF type = "dgram" THEN Paired(x, y, b.u, c.u, c.m)
                  ELSE \E w \in Writers(c.m) :
                          Paired(x, y,
                                 [b.u EXCEPT !.fd_w = w.v, !.connected = TRUE],
                                 [c.u EXCEPT !.fd_w = w.w, !.connected = TRUE],
                                 w.m)
  BY DEF socketpair, new
<1>4. /\ Fine(b.m) /\ b.u \in Socket
      /\ Mailslots(b.m) \subseteq Mailslots(ms) \cup {b.u.fd_r}
  BY <1>1, <1>2, BoundFine
<1>5. CASE ~b.u.bound
  <2>1. /\ Fine(Released(b.m, b.u))
        /\ Mailslots(Released(b.m, b.u)) \subseteq Mailslots(b.m) \ {b.u.fd_r, b.u.fd_w}
    BY <1>4, ReleasedFine
  <2>2. Mailslots(Released(b.m, b.u)) \subseteq Mailslots(ms)
    BY <1>4, <2>1
  <2> QED BY <1>1, <1>3, <1>5, <2>1, <2>2, PairedAccounts
<1>6. CASE b.u.bound
  <2>1. PICK c \in Bound(b.m, new) :
            IF ~c.u.bound
            THEN Paired(x, y, NULL, NULL, Released(Released(c.m, b.u), c.u))
            ELSE IF type = "dgram" THEN Paired(x, y, b.u, c.u, c.m)
            ELSE \E w \in Writers(c.m) :
                    Paired(x, y,
                           [b.u EXCEPT !.fd_w = w.v, !.connected = TRUE],
                           [c.u EXCEPT !.fd_w = w.w, !.connected = TRUE],
                           w.m)
    BY <1>3, <1>6
  <2>2. /\ Fine(c.m) /\ c.u \in Socket
        /\ Mailslots(c.m) \subseteq Mailslots(ms) \cup {b.u.fd_r, c.u.fd_r}
    BY <1>2, <1>4, BoundFine
  <2>3. CASE ~c.u.bound
    <3> DEFINE m == Released(Released(c.m, b.u), c.u)
    <3>1. /\ Fine(Released(c.m, b.u))
          /\ Mailslots(Released(c.m, b.u)) \subseteq Mailslots(c.m) \ {b.u.fd_r, b.u.fd_w}
      BY <1>4, <2>2, ReleasedFine
    <3>2. /\ Fine(m)
          /\ Mailslots(m) \subseteq Mailslots(Released(c.m, b.u)) \ {c.u.fd_r, c.u.fd_w}
      BY <2>2, <3>1, ReleasedFine
    <3>3. Mailslots(m) \subseteq Mailslots(ms)
      BY <2>2, <3>1, <3>2
    <3> QED BY <1>1, <2>1, <2>3, <3>2, <3>3, PairedAccounts
  <2>4. CASE c.u.bound /\ Paired(x, y, b.u, c.u, c.m)
    <3>1. Mailslots(c.m) \subseteq Mailslots(ms) \cup InUse(b.u) \cup InUse(c.u)
      BY <1>4, <1>6, <2>2, <2>4, UnixFilesAssumption DEF InUse
    <3> QED BY <1>1, <1>4, <2>2, <2>4, <3>1, PairedAccounts
  <2>5. ASSUME c.u.bound, NEW w \in Writers(c.m),
               Paired(x, y, [b.u EXCEPT !.fd_w = w.v, !.connected = TRUE],
                            [c.u EXCEPT !.fd_w = w.w, !.connected = TRUE], w.m)
        PROVE  IInv'
    <3> DEFINE u == [b.u EXCEPT !.fd_w = w.v, !.connected = TRUE]
               v == [c.u EXCEPT !.fd_w = w.w, !.connected = TRUE]
    <3>1. /\ Fine(w.m) /\ w.v \in Fd \cup {NoFd} /\ w.w \in Fd \cup {NoFd}
          /\ Mailslots(w.m) \subseteq Mailslots(c.m) \cup {w.v, w.w}
      BY <2>2, WritersFine
    <3>2. /\ u \in Socket /\ u.fd_r = b.u.fd_r /\ u.fd_w = w.v /\ u.bound /\ u.connected
          /\ v \in Socket /\ v.fd_r = c.u.fd_r /\ v.fd_w = w.w /\ v.bound /\ v.connected
      BY <1>4, <1>6, <2>2, <2>5, <3>1 DEF Socket
    <3>3. Paired(x, y, u, v, w.m)
      BY <2>5
    <3> HIDE DEF u, v
    <3>4. InUse(u) = {b.u.fd_r, w.v} /\ InUse(v) = {c.u.fd_r, w.w}
      BY <3>2, UnixFilesAssumption DEF InUse
    <3> QED BY <1>1, <2>2, <3>1, <3>2, <3>3, <3>4, PairedAccounts
  <2> QED BY <2>1, <2>3, <2>4, <2>5
<1> QED BY <1>5, <1>6

\* The program's own files are of no concern to the tables.
LEMMA OpenFileAccounts ==
  ASSUME IInv, ~exited, OpenFile
  PROVE  IInv'
<1> DEFINE fd == AllocFd(ms)
<1>1. fd \in Fd /\ ms.file[fd] = FREE
  BY DEF OpenFile, AllocFd, FreeFds
<1>2. /\ ms' = [ms EXCEPT !.file[fd] = FILE] /\ files' = files \cup {fd}
      /\ usock' = usock /\ left' = left /\ exited' = exited
  BY DEF OpenFile
<1>3. FREE \notin Index /\ FILE \notin Index
  BY MailslotAssumption DEF Index
<1>4. ms \in Tables /\ Agree(ms)
  BY DEF IInv, Fine, Sound
<1> HIDE DEF fd
<1>5. /\ ms' \in Tables /\ ms'.entry = ms.entry /\ ms'.block = ms.block
      /\ ms'.lan = ms.lan
      /\ ms'.lost = ms.lost /\ ms'.file = [ms.file EXCEPT ![fd] = FILE]
  BY <1>1, <1>2, <1>4 DEF Tables
<1>6. \A f \in Fd : ms'.file[f] = IF f = fd THEN FILE ELSE ms.file[f]
  BY <1>1, <1>4, <1>5 DEF Tables
<1>7. EntriesMatch(ms') /\ HandlesMatch(ms')
  BY <1>1, <1>3, <1>4, <1>5, <1>6 DEF Agree, EntriesMatch, HandlesMatch, Tables, Entry
<1>8. Fine(ms')
  BY <1>4, <1>5, <1>7 DEF IInv, Fine, Sound, AllKnown, Known, Agree
<1>9. Mailslots(ms') = Mailslots(ms)
  BY <1>1, <1>3, <1>6 DEF Mailslots
<1>10. FilesAccounted'
  BY <1>2, <1>9 DEF IInv, FilesAccounted, Mailslots
<1>11. TypeOK'
  BY <1>1, <1>2, <1>5 DEF IInv, TypeOK
<1> QED BY <1>2, <1>8, <1>10, <1>11, FinePrimed DEF IInv, ExitDestroys

LEMMA CloseFileAccounts ==
  ASSUME IInv, ~exited, NEW fd \in Fd, CloseFile(fd)
  PROVE  IInv'
<1>1. /\ ms' = Closed(ms, fd) /\ files' = files \ {fd}
      /\ usock' = usock /\ left' = left /\ exited' = exited
  BY DEF CloseFile
<1>2. /\ Fine(Closed(ms, fd))
      /\ Mailslots(Closed(ms, fd)) \subseteq Mailslots(ms) \ {fd}
  BY ClosedFine DEF IInv
<1>3. FilesAccounted'
  BY <1>1, <1>2 DEF IInv, FilesAccounted, Mailslots
<1>4. TypeOK'
  BY <1>1, <1>2 DEF IInv, TypeOK, Fine, Sound
<1> QED BY <1>1, <1>2, <1>3, <1>4, FinePrimed DEF IInv, ExitDestroys

-----------------------------------------------------------------------------
(***************************************************************************)
(* exit().  Closing the sockets, in whichever order, keeps the tables in   *)
(* agreement and every mailslot known.                                     *)
(***************************************************************************)
FineTables == {m \in Tables : Fine(m)}

LEMMA ReleasedAllFine ==
  ASSUME NEW m, Fine(m), usock \in [Sock -> Socket \cup {NULL}],
         NEW order \in TableOrders
  PROVE  Fine(ReleasedAll(m, order))
<1> DEFINE N == Cardinality(Sock)
           turn(i, n) == LET u == usock[order[i]]
                         IN IF u = NULL THEN n ELSE Released(n, u)
           step == [i \in 1 .. N |-> [n \in FineTables |-> turn(i, n)]]
           released[n \in 0 .. N] ==
               IF n = 0 THEN m
               ELSE LET u == usock[order[n]]
                    IN IF u = NULL THEN released[n - 1]
                       ELSE Released(released[n - 1], u)
<1>1. N \in Nat /\ m \in FineTables
  BY UnixFilesAssumption, FS_CardinalityType DEF FineTables, Fine, Sound
<1>2. ASSUME NEW i \in 1 .. N, NEW n \in FineTables
      PROVE  turn(i, n) \in FineTables
  <2>1. usock[order[i]] \in Socket \cup {NULL}
    BY DEF TableOrders
  <2> QED BY <2>1, ReleasedFine DEF FineTables, Fine, Sound
<1>3. step \in [1 .. N -> [FineTables -> FineTables]]
  <2> HIDE DEF turn, N
  <2> QED BY <1>2
<1>4. PICK f : Iterates(f, N, FineTables, m, step)
  <2> HIDE DEF step, N, released
  <2> QED BY <1>1, <1>3, Iteration, Zenon
<1>5. ASSUME NEW i \in 1 .. N PROVE f[i] = turn(i, f[i - 1])
  <2>1. i - 1 \in 0 .. N
    BY <1>1
  <2>2. f[i - 1] \in FineTables /\ f[i] = step[i][f[i - 1]]
    BY <1>4, <2>1 DEF Iterates
  <2> HIDE DEF turn
  <2> QED BY <2>2
<1>6. f = [n \in 0 .. N |->
              IF n = 0 THEN m
              ELSE LET u == usock[order[n]]
                   IN IF u = NULL THEN f[n - 1] ELSE Released(f[n - 1], u)]
  BY <1>4, <1>5 DEF Iterates
<1>7. released = [n \in 0 .. N |->
                     IF n = 0 THEN m
                     ELSE LET u == usock[order[n]]
                          IN IF u = NULL THEN released[n - 1]
                             ELSE Released(released[n - 1], u)]
  BY <1>6
<1>8. ReleasedAll(m, order) = released[N]
  BY Zenon DEF ReleasedAll
<1> HIDE DEF released
<1>9. released[0] \in FineTables
  BY <1>1, <1>7
<1>10. \A i \in 1 .. N :
          released[i - 1] \in FineTables => released[i] \in FineTables
  <2>1. \A i \in 1 .. N : released[i] = turn(i, released[i - 1])
    BY <1>1, <1>7
  <2> HIDE DEF turn, N
  <2> QED BY <1>2, <2>1
<1>11. released[N] \in FineTables
  <2>1. \A i \in 0 .. N : released[i] \in FineTables
    <3> HIDE DEF N
    <3> QED BY <1>1, <1>9, <1>10, Along
  <2> QED BY <1>1, <2>1
<1> QED BY <1>8, <1>11 DEF FineTables

\* __mailslot_uninstall_handler() leaves no entry.
LEMMA UninstalledFine ==
  ASSUME NEW m, Fine(m)
  PROVE  /\ Fine(Uninstalled(m))
         /\ \A i \in Index : Uninstalled(m).entry[i] = NULL
<1> DEFINE N == MailslotMax
           turn(i, n) == IF n.entry[i] = NULL THEN n ELSE Closed(n, n.entry[i].fd)
           step == [i \in 1 .. N |-> [n \in FineTables |-> turn(i, n)]]
           P == [i \in 0 .. N |->
                    {n \in FineTables : \A j \in 1 .. i : n.entry[j] = NULL}]
           closed[i \in 0 .. N] ==
               IF i = 0 THEN m
               ELSE LET n == closed[i - 1]
                    IN IF n.entry[i] = NULL THEN n ELSE Closed(n, n.entry[i].fd)
<1>1. N \in Nat /\ m \in FineTables /\ Index = 1 .. N
  BY MailslotAssumption DEF FineTables, Fine, Sound, Index
<1>2. ASSUME NEW i \in 1 .. N, NEW n \in FineTables
      PROVE  /\ turn(i, n) \in FineTables
             /\ turn(i, n).entry[i] = NULL
             /\ \A j \in 1 .. N : n.entry[j] = NULL => turn(i, n).entry[j] = NULL
  <2>1. CASE n.entry[i] = NULL
    BY <2>1
  <2>2. CASE n.entry[i] # NULL
    <3> DEFINE fd == n.entry[i].fd
    <3>1. Fine(n) /\ n \in Tables /\ fd \in Fd /\ i \in Index
      BY <1>1, <2>2 DEF FineTables, Tables, Entry
    <3> HIDE DEF fd
    <3>2. Fine(Closed(n, fd)) /\ Dropped(n, fd, Closed(n, fd))
      BY <3>1, ClosedFine, ClosedSound DEF Fine
    <3>3. turn(i, n) = Closed(n, fd)
      BY <2>2 DEF fd
    <3> HIDE DEF turn
    <3>4. Closed(n, fd).entry[i] = NULL
      BY <2>2, <3>1, <3>2 DEF Dropped, fd
    <3>5. \A j \in Index : n.entry[j] = NULL => Closed(n, fd).entry[j] = NULL
      BY <3>2 DEF Dropped
    <3> QED BY <1>1, <3>2, <3>3, <3>4, <3>5 DEF FineTables, Fine, Sound
  <2> QED BY <2>1, <2>2
<1>3. step \in [1 .. N -> [FineTables -> FineTables]]
  <2> HIDE DEF turn, N
  <2> QED BY <1>2
<1>4. PICK f : Iterates(f, N, FineTables, m, step)
  <2> HIDE DEF step, N, closed
  <2> QED BY <1>1, <1>3, Iteration, Zenon
<1>5. ASSUME NEW i \in 1 .. N PROVE f[i] = turn(i, f[i - 1])
  <2>1. i - 1 \in 0 .. N
    BY <1>1
  <2>2. f[i - 1] \in FineTables /\ f[i] = step[i][f[i - 1]]
    BY <1>4, <2>1 DEF Iterates
  <2> HIDE DEF turn
  <2> QED BY <2>2
<1>6. f = [i \in 0 .. N |->
              IF i = 0 THEN m
              ELSE LET n == f[i - 1]
                   IN IF n.entry[i] = NULL THEN n ELSE Closed(n, n.entry[i].fd)]
  BY <1>4, <1>5 DEF Iterates
<1>7. closed = [i \in 0 .. N |->
                   IF i = 0 THEN m
                   ELSE LET n == closed[i - 1]
                        IN IF n.entry[i] = NULL THEN n
                           ELSE Closed(n, n.entry[i].fd)]
  BY <1>6
<1>8. Uninstalled(m) = closed[N]
  BY Zenon DEF Uninstalled
<1> HIDE DEF closed
<1>9. closed[0] \in P[0]
  BY <1>1, <1>7
<1>10. ASSUME NEW i \in 1 .. N, closed[i - 1] \in P[i - 1]
       PROVE  closed[i] \in P[i]
  <2>1. i - 1 \in 0 .. N /\ closed[i] = turn(i, closed[i - 1])
    <3>1. i \in 0 .. N /\ i # 0 /\ i - 1 \in 0 .. N
      BY <1>1
    <3> QED BY <1>7, <3>1
  <2>2. /\ closed[i - 1] \in FineTables
        /\ \A j \in 1 .. i - 1 : closed[i - 1].entry[j] = NULL
    BY <1>10, <2>1
  <2>3. \A j \in 1 .. i : closed[i].entry[j] = NULL /\ closed[i] \in FineTables
    <3> HIDE DEF turn, N
    <3>1. \A j \in 1 .. i : j \in 1 .. N /\ (j = i \/ j \in 1 .. i - 1)
      BY <1>1
    <3> QED BY <1>2, <2>1, <2>2, <3>1
  <2> HIDE DEF turn
  <2> QED BY <2>3
<1>11. closed[N] \in P[N]
  <2>1. \A i \in 0 .. N : closed[i] \in P[i]
    <3> HIDE DEF N, P
    <3> QED BY <1>1, <1>9, <1>10, AlongEach
  <2> QED BY <1>1, <2>1
<1> QED BY <1>1, <1>8, <1>11 DEF FineTables

LEMMA ExitAccounts ==
  ASSUME IInv, ~exited, exit
  PROVE  IInv'
<1>1. PICK order \in TableOrders : ms' = Exited(ReleasedAll(ms, order))
  BY DEF exit
<1>2. exited' = TRUE /\ left' = {} /\ files' = {} /\ usock' = [x \in Sock |-> NULL]
  BY DEF exit
<1>3. Fine(ms) /\ usock \in [Sock -> Socket \cup {NULL}]
  BY DEF IInv, TypeOK
<1> DEFINE n == Uninstalled(ReleasedAll(ms, order))
<1>4. Fine(n) /\ \A i \in Index : n.entry[i] = NULL
  BY <1>3, ReleasedAllFine, UninstalledFine
<1>5. ms' = Uninited(n)
  BY <1>1 DEF Exited
<1> HIDE DEF n
<1>6. /\ ms' \in Tables /\ ms'.file = n.file /\ ms'.lost = n.lost
      /\ ms'.lan = n.lan \ {n.block[i] : i \in Index}
  BY <1>4, <1>5 DEF Uninited, Fine, Sound, Tables
<1>7. Mailslots(ms') = {}
  BY <1>4, <1>6 DEF Mailslots, Fine, Sound, Agree, EntriesMatch
<1>8. ms'.lan \subseteq ms'.lost
  BY <1>4, <1>6 DEF Fine, AllKnown, Known
<1> QED BY <1>2, <1>6, <1>7, <1>8 DEF IInv, TypeOK, ExitDestroys, Mailslots

-----------------------------------------------------------------------------
LEMMA InitAccounts == Init => IInv
<1> SUFFICES ASSUME Init PROVE IInv
  OBVIOUS
<1>1. /\ ms = NoMailslots /\ usock = [x \in Sock |-> NULL] /\ files = {}
      /\ left = {} /\ exited = FALSE
  BY DEF Init
<1> QED BY <1>1, NoMailslotsFine
        DEF IInv, TypeOK, FilesAccounted, ExitDestroys, Fine, Sound

LEMMA NextAccounts == IInv /\ [Next]_vars => IInv'
<1> SUFFICES ASSUME IInv, [Next]_vars PROVE IInv'
  OBVIOUS
<1>1. CASE UNCHANGED vars
  <2>1. Fine(ms') <=> Fine(ms)
    BY <1>1 DEF vars
  <2> QED BY <1>1, <2>1, FinePrimed
          DEF vars, IInv, TypeOK, FilesAccounted, Mailslots, ExitDestroys
<1>2. CASE Next
  <2>1. ~exited /\ Call
    BY <1>2 DEF Next
  <2>2. CASE exit
    BY <2>1, <2>2, ExitAccounts
  <2>3. ASSUME NEW x \in Sock, NEW type \in {"stream", "dgram"}, socket(x, type)
        PROVE  IInv'
    BY <2>1, <2>3, SocketAccounts
  <2>4. ASSUME NEW x \in Sock,
               bind(x) \/ listen(x) \/ connect(x) \/ sendto(x) \/ close(x)
        PROVE  IInv'
    BY <2>1, <2>4, BindAccounts, ListenAccounts, ConnectAccounts, SendtoAccounts,
       CloseAccounts
  <2>5. ASSUME NEW x \in Sock, NEW y \in Sock, accept(x, y)
        PROVE  IInv'
    BY <2>1, <2>5, AcceptAccounts
  <2>6. ASSUME NEW x \in Sock, NEW y \in Sock, NEW type \in {"stream", "dgram"},
               socketpair(x, y, type)
        PROVE  IInv'
    BY <2>1, <2>6, SocketpairAccounts
  <2>7. CASE OpenFile
    BY <2>1, <2>7, OpenFileAccounts
  <2>8. ASSUME NEW fd \in Fd, CloseFile(fd)
        PROVE  IInv'
    BY <2>1, <2>8, CloseFileAccounts
  <2> QED BY <2>1, <2>2, <2>3, <2>4, <2>5, <2>6, <2>7, <2>8 DEF Call
<1> QED BY <1>1, <1>2

\* The numbers and the tables of the sockets are of their types.
THEOREM TypesOfFilesHold == Spec => []TypeOK
<1>1. IInv => TypeOK
  BY DEF IInv
<1> QED BY <1>1, InitAccounts, NextAccounts, PTL DEF Spec

(***************************************************************************)
(* The tables of the mailslot module, of FSEXT and of LAN Manager agree    *)
(* for as long as the program runs, whichever of the steps of its calls    *)
(* fail.                                                                   *)
(***************************************************************************)
THEOREM TablesAlwaysAgree == Spec => []TablesAgree
<1>1. IInv => TablesAgree
  BY DEF IInv, TablesAgree, Fine, Sound
<1> QED BY <1>1, InitAccounts, NextAccounts, PTL DEF Spec

(***************************************************************************)
(* No mailslot file is lost but by the calls that are known to lose one.   *)
(***************************************************************************)
THEOREM FilesAlwaysAccounted == Spec => []FilesAccounted
<1>1. IInv => FilesAccounted
  BY DEF IInv, TypeOK, FilesAccounted
<1> QED BY <1>1, InitAccounts, NextAccounts, PTL DEF Spec

(***************************************************************************)
(* However many mailslots a process has made, read, left open or failed to *)
(* record, its exit handlers destroy all but those an open() lost.         *)
(***************************************************************************)
THEOREM ExitAlwaysDestroys == Spec => []ExitDestroys
<1>1. IInv => ExitDestroys
  BY DEF IInv
<1> QED BY <1>1, InitAccounts, NextAccounts, PTL DEF Spec
=============================================================================
