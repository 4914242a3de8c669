--------------------------- MODULE StorageProofs ---------------------------
(***************************************************************************)
(* Theorems about Storage: what the flight log on the card tells, for      *)
(* every card, queue, budget, period and number of faults and resets.      *)
(* The card may fail at any call, the scan of next_session_index among     *)
(* them.  One named assumption, a limit of the code: the card holds fewer  *)
(* sessions than there are names FL_0000 to FL_9999.                       *)
(***************************************************************************)
EXTENDS Storage, SequenceTheorems, FiniteSetTheorems, NaturalsInduction, TLAPS

\* A session index is always free.
RoomForNames == OldSessions \subseteq 1 .. MaxSession /\ MaxSession \in Sessions

-----------------------------------------------------------------------------
(* The inductive invariant. *)

\* Frames of the queue, and records of the files.
Queued == [kind : Kinds, n : Nat \ {0}]
Record == Queued \cup {Meta}
NoRecords == [f \in Files |-> <<>>]

TypeInv ==
  /\ queue \in Seq(Queued) /\ frame \in Record
  /\ dropped \in Nat /\ pushed \in Nat
  /\ pc \in Steps
  /\ mounted \in BOOLEAN /\ sync_now \in BOOLEAN /\ ready \in BOOLEAN
  /\ session \in Nat
  /\ cache \in [Files -> Seq(Record)] /\ dirty \in SUBSET Files
  /\ card \in {"ok", "lost", "out"}
  /\ disk \in [Sessions -> [Files -> Seq(Record)]]
  /\ exists \in SUBSET (1 .. MaxSession)
  /\ space \in Nat /\ faults \in Nat /\ losses \in Nat

\* From the first f_open of a session to the last f_close.
Active == pc \notin {"idle", "mount", "scan"} \/ mounted

\* Where the service is tells what it holds.
PhaseInv ==
  /\ mounted => pc \notin {"mount", "scan", "open_bin", "open_csv", "meta",
                           "first_sync_bin", "first_sync_csv"}
  /\ pc \in {"drain", "write_bin", "write_csv", "sync_bin", "sync_csv"} => mounted
  /\ IF pc \in {"write_bin", "write_csv"} THEN frame \in Queued ELSE frame = Nobody
  /\ pc = "scan" => ready
  /\ pc \in {"scan", "open_bin"} => dirty = {}
  /\ pc \in {"scan", "open_bin", "open_csv", "meta"} => cache = NoRecords
  /\ pc \in {"first_sync_bin", "first_sync_csv"} =>
       cache["bin"] = <<Meta>> /\ cache["csv"] = <<>>
  /\ pc = "sync_csv" => "bin" \notin dirty
  /\ pc = "close_csv" => "bin" \notin dirty \/ ~ready

\* A session is newer than every other on the card, but for one that a cut
\* scan has numbered.
NamesInv ==
  /\ pc \in {"mount", "scan"} => MaxSession \notin exists
  /\ \A s \in Sessions \ exists : disk[s] = NoRecords
  /\ Active => /\ session \in 1 .. MaxSession
               /\ session \notin misnumbered => \A t \in exists : t <= session

\* The file is new or has been truncated by f_open.
Opened(f) == \/ session \notin misnumbered
             \/ f \in dirty \/ mounted
             \/ pc \in {"meta", "first_sync_bin", "first_sync_csv"}
             \/ pc = "open_csv" /\ f = "bin"

\* An open file is on the card as far as it has been synced.
OpenInv ==
  Active => \A f \in Files : Opened(f) =>
    /\ IsPrefix(disk[session][f], cache[f])
    /\ f \notin dirty => disk[session][f] = cache[f]

\* The records come in the order pushed, those of the open file included.
OrderInv ==
  /\ Ordered
  /\ Increasing(cache["bin"])
  /\ Before(Numbers(cache["bin"]), Numbers(queue))
  /\ pc = "write_bin" => Before(Numbers(cache["bin"]), InHand)
  /\ Active => \A s \in Sessions :
       s < session => Before(Numbers(Log(s)), Numbers(cache["bin"]))
  /\ Numbers(queue) \cup InHand \cup Numbers(cache["bin"]) \subseteq 1 .. pushed
  /\ \A s \in Sessions : Numbers(Log(s)) \subseteq 1 .. pushed

\* The rows tell of frames, in the open files as on the card.
RowsInv ==
  /\ CsvInBin
  /\ Numbers(cache["csv"]) \subseteq Numbers(cache["bin"])
  /\ pc = "write_csv" => InHand \subseteq Numbers(cache["bin"])

\* The EVENTs taken from the queue since the last sync are told by sync_now.
EventsOn == \A r \in Range(cache["bin"]) :
              r.kind = "EVENT" => r.n \in Numbers(Log(session))
EventsInv ==
  /\ mounted /\ pc = "idle" => EventsOn
  /\ pc \in {"drain", "write_bin"} /\ ~sync_now => EventsOn
  /\ pc = "write_csv" /\ ~sync_now =>
       \A r \in Range(cache["bin"]) :
         r.kind = "EVENT" /\ r # frame => r.n \in Numbers(Log(session))

\* With card and power good the service gets to the queue and stays there.
Good == faults = 0 /\ losses = 0 /\ space > 0
GoodInv ==
  Good =>
    /\ ready => card = "ok"
    /\ Active \/ pc = "scan" => ready
    /\ pc \notin {"close_bin", "close_csv"}
    /\ pc \in {"idle", "mount"} /\ ~mounted => cache["bin"] = <<>>
    /\ pc \in {"open_csv", "meta"} => "bin" \in dirty

StoreInv == /\ TypeInv /\ PhaseInv /\ NamesInv /\ OpenInv /\ OrderInv
            /\ RowsInv /\ EventsInv /\ GoodInv /\ Accounted
-----------------------------------------------------------------------------
(* The operators on sequences of records. *)

\* Numbers: of no record, of one, of one more, of the first and the rest.
LEMMA NumbersNone == Numbers(<<>>) = {}
  BY DEF Numbers

LEMMA NumbersOne ==
  ASSUME NEW r
  PROVE  Numbers(<<r>>) = {r.n} \ {0}
  BY DEF Numbers

LEMMA NumbersAppend ==
  ASSUME NEW S, NEW s \in Seq(S), NEW r \in S
  PROVE  Numbers(Append(s, r)) = Numbers(s) \cup Numbers(<<r>>)
<1> DEFINE a == Append(s, r)
<1>1. /\ DOMAIN s = 1 .. Len(s) /\ Len(s) \in Nat
      /\ DOMAIN a = 1 .. Len(s) + 1
      /\ a[Len(s) + 1] = r /\ \A i \in 1 .. Len(s) : a[i] = s[i]
  BY AppendProperties, LenProperties
<1>2. {a[i].n : i \in DOMAIN a} = {s[i].n : i \in DOMAIN s} \cup {r.n}
  <2>1. ASSUME NEW i \in DOMAIN a
        PROVE  a[i].n \in {s[j].n : j \in DOMAIN s} \cup {r.n}
    BY <1>1
  <2>2. ASSUME NEW j \in DOMAIN s
        PROVE  s[j].n \in {a[i].n : i \in DOMAIN a}
    BY <1>1
  <2>3. r.n \in {a[i].n : i \in DOMAIN a}
    <3>1. Len(s) + 1 \in DOMAIN a
      BY <1>1
    <3> QED BY <1>1, <3>1
  <2> QED BY <2>1, <2>2, <2>3
<1> QED
  BY <1>2, NumbersOne DEF Numbers

LEMMA NumbersTail ==
  ASSUME NEW S, NEW s \in Seq(S), s # <<>>
  PROVE  Numbers(s) = Numbers(<<Head(s)>>) \cup Numbers(Tail(s))
<1> DEFINE t == Tail(s)
<1>1. /\ DOMAIN s = 1 .. Len(s) /\ Len(s) \in Nat \ {0}
      /\ DOMAIN t = 1 .. Len(s) - 1
      /\ Head(s) = s[1] /\ \A i \in 1 .. Len(s) - 1 : t[i] = s[i + 1]
  BY HeadTailProperties, LenProperties, EmptySeq
<1>2. {s[i].n : i \in DOMAIN s} = {s[1].n} \cup {t[i].n : i \in DOMAIN t}
  <2>1. ASSUME NEW i \in DOMAIN s
        PROVE  s[i].n \in {s[1].n} \cup {t[j].n : j \in DOMAIN t}
    <3>1. CASE i = 1
      BY <3>1
    <3>2. CASE i # 1
      <4>1. i - 1 \in DOMAIN t /\ t[i - 1] = s[i]
        BY <1>1, <3>2
      <4> QED BY <4>1
    <3> QED BY <3>1, <3>2
  <2>2. ASSUME NEW j \in DOMAIN t
        PROVE  t[j].n \in {s[i].n : i \in DOMAIN s}
    <3>1. j + 1 \in DOMAIN s /\ t[j] = s[j + 1]
      BY <1>1
    <3> QED BY <3>1
  <2>3. 1 \in DOMAIN s
    BY <1>1
  <2> QED BY <2>1, <2>2, <2>3
<1> QED
  BY <1>1, <1>2, NumbersOne DEF Numbers

\* A record behind all others keeps a sequence increasing.
LEMMA IncreasingAppend ==
  ASSUME NEW s \in Seq(Record), NEW r \in Queued,
         Increasing(s), Before(Numbers(s), Numbers(<<r>>))
  PROVE  Increasing(Append(s, r))
<1> DEFINE a == Append(s, r)
<1>1. /\ DOMAIN s = 1 .. Len(s) /\ Len(s) \in Nat
      /\ DOMAIN a = 1 .. Len(s) + 1
      /\ a[Len(s) + 1] = r /\ \A i \in 1 .. Len(s) : a[i] = s[i]
  <2>1. r \in Record
    BY DEF Record
  <2> QED BY <2>1, AppendProperties, LenProperties
<1>2. r.n \in Nat \ {0} /\ Numbers(<<r>>) = {r.n}
  BY NumbersOne DEF Queued
<1>3. \A i \in DOMAIN s : s[i].n < r.n
  <2> SUFFICES ASSUME NEW i \in DOMAIN s PROVE s[i].n < r.n
    OBVIOUS
  <2>1. s[i].n = 0 \/ s[i].n \in Numbers(s)
    BY DEF Numbers
  <2> QED BY <1>2, <2>1 DEF Before
<1> QED
  BY <1>1, <1>3 DEF Increasing

\* The rest of an increasing sequence is increasing, and behind the first.
LEMMA IncreasingTail ==
  ASSUME NEW S, NEW s \in Seq(S), s # <<>>, Increasing(s)
  PROVE  /\ Increasing(Tail(s))
         /\ Before(Numbers(<<Head(s)>>), Numbers(Tail(s)))
<1> DEFINE t == Tail(s)
<1>1. /\ DOMAIN s = 1 .. Len(s) /\ Len(s) \in Nat \ {0}
      /\ DOMAIN t = 1 .. Len(s) - 1
      /\ Head(s) = s[1] /\ \A i \in 1 .. Len(s) - 1 : t[i] = s[i + 1]
  BY HeadTailProperties, LenProperties, EmptySeq
<1>2. Increasing(t)
  <2> SUFFICES ASSUME NEW i \in DOMAIN t, NEW j \in DOMAIN t, i < j
               PROVE  t[i].n < t[j].n
    BY DEF Increasing
  <2>1. i + 1 \in DOMAIN s /\ j + 1 \in DOMAIN s /\ i + 1 < j + 1
    BY <1>1
  <2> QED BY <1>1, <2>1 DEF Increasing
<1>3. \A j \in DOMAIN t : s[1].n < t[j].n
  <2> SUFFICES ASSUME NEW j \in DOMAIN t PROVE s[1].n < t[j].n
    OBVIOUS
  <2>1. 1 \in DOMAIN s /\ j + 1 \in DOMAIN s /\ 1 < j + 1 /\ t[j] = s[j + 1]
    BY <1>1
  <2> QED BY <2>1 DEF Increasing
<1>4. Before(Numbers(<<s[1]>>), Numbers(t))
  BY <1>3 DEF Before, Numbers
<1> QED
  BY <1>1, <1>2, <1>4

\* IsPrefix of sequences of records: place by place.
LEMMA PrefixPlaces ==
  ASSUME NEW S, NEW s \in Seq(S), NEW t \in Seq(S)
  PROVE  IsPrefix(s, t) <=> /\ Len(s) <= Len(t)
                           /\ \A i \in 1 .. Len(s) : s[i] = t[i]
<1>1. Len(s) \in Nat /\ Len(t) \in Nat
  BY LenProperties
<1>2. SubSeq(s, 1, Len(s)) = s
  BY SubSeqFull
<1>3. ASSUME Len(s) <= Len(t)
      PROVE  /\ SubSeq(t, 1, Len(s)) \in Seq(S)
             /\ Len(SubSeq(t, 1, Len(s))) = Len(s)
             /\ \A i \in 1 .. Len(s) : SubSeq(t, 1, Len(s))[i] = t[i]
  <2>1. \A i \in 1 .. Len(s) : t[i] \in S
    BY <1>1, <1>3, ElementOfSeq
  <2> HIDE <1>3
  <2>2. /\ SubSeq(t, 1, Len(s)) \in Seq(S)
        /\ Len(SubSeq(t, 1, Len(s))) = IF 1 <= Len(s) THEN Len(s) - 1 + 1 ELSE 0
        /\ \A i \in 1 .. Len(s) - 1 + 1 : SubSeq(t, 1, Len(s))[i] = t[1 + i - 1]
    BY <1>1, <2>1, SubSeqProperties
  <2> QED BY <1>1, <2>2
<1>4. ASSUME Len(s) <= Len(t), \A i \in 1 .. Len(s) : s[i] = t[i]
      PROVE  SubSeq(t, 1, Len(s)) = s
  BY <1>3, <1>4, SeqEqual
<1> QED
  BY <1>2, <1>3, <1>4 DEF IsPrefix

LEMMA PrefixFacts ==
  ASSUME NEW S, NEW s \in Seq(S)
  PROVE  /\ IsPrefix(<<>>, s) /\ IsPrefix(s, s)
         /\ IsPrefix(s, <<>>) => s = <<>>
         /\ \A r \in S : IsPrefix(s, Append(s, r))
         /\ \A t \in Seq(S) : IsPrefix(s, t) => Numbers(s) \subseteq Numbers(t)
<1>1. <<>> \in Seq(S) /\ Len(<<>>) = 0 /\ Len(s) \in Nat
  BY EmptySeq, LenProperties
<1>0. ASSUME NEW u \in Seq(S), NEW t \in Seq(S)
      PROVE  IsPrefix(u, t) <=> /\ Len(u) <= Len(t)
                                /\ \A i \in 1 .. Len(u) : u[i] = t[i]
  BY PrefixPlaces
<1> DEFINE none == <<>>
<1>2. IsPrefix(<<>>, s) /\ IsPrefix(s, s)
  <2>1. none \in Seq(S) /\ Len(none) = 0
    BY <1>1
  <2> HIDE DEF none
  <2>2. IsPrefix(none, s) <=> /\ Len(none) <= Len(s)
                              /\ \A i \in 1 .. Len(none) : none[i] = s[i]
    BY <1>0, <2>1
  <2>3. IsPrefix(none, s)
    BY <1>1, <2>1, <2>2
  <2>4. IsPrefix(s, s) <=> /\ Len(s) <= Len(s)
                           /\ \A i \in 1 .. Len(s) : s[i] = s[i]
    BY <1>0
  <2> QED BY <1>1, <2>3, <2>4 DEF none
<1>3. IsPrefix(s, <<>>) => s = <<>>
  <2>1. IsPrefix(s, <<>>) => Len(s) <= 0
    BY <1>1, <1>0
  <2> QED BY <1>1, <2>1, EmptySeq
<1>4. ASSUME NEW r \in S PROVE IsPrefix(s, Append(s, r))
  <2>1. /\ Append(s, r) \in Seq(S) /\ Len(Append(s, r)) = Len(s) + 1
        /\ \A i \in 1 .. Len(s) : Append(s, r)[i] = s[i]
    BY AppendProperties
  <2>2. IsPrefix(s, Append(s, r)) <=>
          /\ Len(s) <= Len(Append(s, r))
          /\ \A i \in 1 .. Len(s) : s[i] = Append(s, r)[i]
    BY <2>1, <1>0
  <2> QED BY <1>1, <2>1, <2>2
<1>5. ASSUME NEW t \in Seq(S), IsPrefix(s, t)
      PROVE  Numbers(s) \subseteq Numbers(t)
  <2>1. /\ DOMAIN s = 1 .. Len(s) /\ DOMAIN t = 1 .. Len(t)
        /\ Len(s) \in Nat /\ Len(t) \in Nat /\ Len(s) <= Len(t)
        /\ \A i \in 1 .. Len(s) : s[i] = t[i]
    BY <1>5, PrefixPlaces, LenProperties
  <2> QED BY <2>1 DEF Numbers
<1> QED
  BY <1>2, <1>3, <1>4, <1>5

LEMMA PrefixLonger ==
  ASSUME NEW S, NEW s \in Seq(S), NEW t \in Seq(S), NEW r \in S,
         IsPrefix(s, t)
  PROVE  IsPrefix(s, Append(t, r))
<1>1. /\ Len(s) \in Nat /\ Len(t) \in Nat /\ Len(s) <= Len(t)
      /\ \A i \in 1 .. Len(s) : s[i] = t[i]
  BY PrefixPlaces, LenProperties
<1> DEFINE a == Append(t, r)
<1>2. /\ a \in Seq(S) /\ Len(a) = Len(t) + 1
      /\ \A i \in 1 .. Len(t) : a[i] = t[i]
  BY AppendProperties
<1> HIDE DEF a
<1>3. IsPrefix(s, a) <=> /\ Len(s) <= Len(a)
                        /\ \A i \in 1 .. Len(s) : s[i] = a[i]
  BY <1>2, PrefixPlaces
<1>4. IsPrefix(s, a)
  BY <1>1, <1>2, <1>3
<1> QED
  BY <1>4 DEF a
-----------------------------------------------------------------------------
(* The steps that touch the card. *)

LEMMA Constants ==
  ASSUME RoomForNames
  PROVE  /\ MaxSession \in Nat \ {0} /\ LastSession \in Nat /\ MaxSession <= LastSession
         /\ 1 .. MaxSession \subseteq Sessions /\ Sessions \subseteq Nat
         /\ OldSessions \subseteq 1 .. MaxSession
         /\ \A k \in Kinds : k # "META"
         /\ Files = {"bin", "csv"} /\ "bin" \in Files /\ "csv" \in Files
  BY StorageAssumption DEF RoomForNames, Sessions, Files

LEMMA GreatestIndex ==
  ASSUME NEW m \in Nat, NEW T \in SUBSET (0 .. m), T # {}
  PROVE  Max(T) \in T /\ \A t \in T : t <= Max(T)
<1> DEFINE Left == {m - t : t \in T}
<1>1. Left \in SUBSET Nat /\ Left # {}
  OBVIOUS
<1>2. \E x \in Left : \A y \in Left : <<y, x>> \notin OpToRel(<, Nat)
  BY <1>1, WFMin, NatLessThanWellFounded
<1>3. PICK x \in Left : \A y \in Left : ~(y < x)
  BY <1>1, <1>2 DEF OpToRel
<1>4. PICK t \in T : x = m - t
  BY <1>3
<1>5. \A u \in T : t >= u
  <2> SUFFICES ASSUME NEW u \in T PROVE t >= u
    OBVIOUS
  <2>1. ~(m - u < m - t) /\ m - u \in Int /\ t \in Int /\ u \in Int
    BY <1>3, <1>4
  <2> QED BY <2>1
<1>6. \E v \in T : \A u \in T : v >= u
  BY <1>5
<1> QED
  BY <1>6 DEF Max

\* next_session_index finds a name behind all those it has seen.
LEMMA SessionFree ==
  ASSUME RoomForNames, NEW seen \in SUBSET (1 .. MaxSession), MaxSession \notin seen
  PROVE  /\ SessionAfter(seen) \in 1 .. MaxSession
         /\ \A t \in seen : t < SessionAfter(seen)
<1>1. seen \ {LastSession} = seen
  BY Constants
<1> DEFINE m == Max({0} \cup seen)
<1>2. {0} \cup seen \in SUBSET (0 .. MaxSession)
  BY Constants
<1>3. m \in {0} \cup seen /\ \A t \in {0} \cup seen : t <= m
  BY <1>2, Constants, GreatestIndex
<1>4. m # MaxSession /\ m \in 0 .. MaxSession
  BY <1>2, <1>3, Constants
<1>5. m + 1 \in 1 .. MaxSession /\ \A t \in seen : t < m + 1
  BY <1>2, <1>3, <1>4, Constants
<1> QED
  BY <1>1, <1>5 DEF SessionAfter

\* The scan numbers the session behind all others, or counts it among the
\* misnumbered.
LEMMA ScanNumbers ==
  ASSUME RoomForNames, TypeInv, NamesInv, Scan
  PROVE  /\ session' \in 1 .. MaxSession /\ session' \in Sessions
         /\ misnumbered \subseteq misnumbered'
         /\ session' \notin misnumbered' =>
              session' \notin exists /\ \A t \in exists : t <= session'
<1>1. exists \in SUBSET (1 .. MaxSession) /\ MaxSession \notin exists
  BY DEF Scan, TypeInv, NamesInv
<1>2. PICK seen \in SUBSET exists : session' = SessionAfter(seen)
  BY DEF Scan
<1>3. seen \in SUBSET (1 .. MaxSession) /\ MaxSession \notin seen
  BY <1>1, <1>2
<1>4. session' \in 1 .. MaxSession /\ session' \in Sessions
  BY <1>2, <1>3, SessionFree, Constants
<1>5. misnumbered' = IF session' = SessionAfter(exists) THEN misnumbered
                     ELSE misnumbered \cup {session'}
  BY DEF Scan
<1>6. session' \notin misnumbered' => \A t \in exists : t < session'
  BY <1>1, <1>5, SessionFree
<1>7. \A t \in exists : t \in Int
  BY <1>1
<1> QED
  BY <1>4, <1>5, <1>6, <1>7

\* What f_sync, and f_close, may do: bring one file up to date, or nothing.
LEMMA SyncStep ==
  ASSUME NEW f \in Files, SyncSucceeds(f) \/ SyncFails(f),
         ready \in BOOLEAN, card \in {"ok", "lost", "out"}, faults \in Nat
  PROVE  /\ \/ f \in dirty /\ ready /\ Written(f)
            \/ UNCHANGED <<disk, exists, dirty>>
         /\ SyncSucceeds(f) => f \notin dirty' /\ UNCHANGED <<ready, card, faults>>
         /\ SyncFails(f) => faults' > faults \/ ~ready \/ card # "ok"
         /\ dirty' \subseteq dirty
         /\ f \notin dirty' \/ ready' = FALSE
         /\ ready' = ready \/ ready' = FALSE
         /\ card' \in {"ok", "lost", "out"} /\ faults' \in Nat
         /\ \/ faults' = faults /\ card' = card
            \/ faults' = faults + 1
  BY DEF SyncSucceeds, SyncFails, Written, usable, TransferFails, volume, medium

\* What is on the card after Written(f).
LEMMA Stored ==
  ASSUME NEW f \in Files, Written(f), session \in Sessions,
         disk \in [Sessions -> [Files -> Seq(Record)]],
         cache \in [Files -> Seq(Record)]
  PROVE  /\ disk' \in [Sessions -> [Files -> Seq(Record)]]
         /\ \A s \in Sessions, g \in Files :
              disk'[s][g] = IF s = session /\ g = f THEN cache[f] ELSE disk[s][g]
         /\ \A s \in Sessions \ {session} : disk'[s] = disk[s]
         /\ exists' = exists \cup {session} /\ dirty' = dirty \ {f}
<1>1. disk[session] \in [Files -> Seq(Record)] /\ cache[f] \in Seq(Record)
  OBVIOUS
<1>2. disk' = [disk EXCEPT ![session] = [disk[session] EXCEPT ![f] = cache[f]]]
  BY DEF Written
<1>3. [disk[session] EXCEPT ![f] = cache[f]] \in [Files -> Seq(Record)]
  BY <1>1
<1>4. disk' \in [Sessions -> [Files -> Seq(Record)]]
  BY <1>2, <1>3
<1>5. \A s \in Sessions \ {session} : disk'[s] = disk[s]
  BY <1>2
<1>6. \A g \in Files : disk'[session][g] = IF g = f THEN cache[f] ELSE disk[session][g]
  BY <1>1, <1>2
<1> QED
  BY <1>4, <1>5, <1>6 DEF Written

\* f_open truncates one file of the session.
LEMMA Truncated ==
  ASSUME TypeInv, NamesInv, RoomForNames, Active, NEW f \in Files, Created(f)
  PROVE  /\ disk' \in [Sessions -> [Files -> Seq(Record)]]
         /\ session \in Sessions
         /\ exists' \in {exists, exists \cup {session}}
         /\ \A s \in Sessions, g \in Files :
              disk'[s][g] = IF s = session /\ g = f THEN <<>> ELSE disk[s][g]
         /\ \A s \in Sessions \ {session} : disk'[s] = disk[s]
         /\ disk[session] = NoRecords => disk'[session] = NoRecords
<1>1. session \in Sessions
  BY Constants DEF NamesInv
<1>2. disk[session] \in [Files -> Seq(Record)] /\ <<>> \in Seq(Record)
  BY <1>1, EmptySeq DEF TypeInv
<1>3. disk' = [disk EXCEPT ![session] = [disk[session] EXCEPT ![f] = <<>>]]
  BY DEF Created
<1>4. [disk[session] EXCEPT ![f] = <<>>] \in [Files -> Seq(Record)]
  BY <1>2
<1>5. disk' \in [Sessions -> [Files -> Seq(Record)]]
  BY <1>3, <1>4 DEF TypeInv
<1>6. disk'[session] = [disk[session] EXCEPT ![f] = <<>>]
  BY <1>1, <1>3 DEF TypeInv
<1>7. \A s \in Sessions \ {session} : disk'[s] = disk[s]
  BY <1>3 DEF TypeInv
<1>8. [NoRecords EXCEPT ![f] = <<>>] = NoRecords
  BY DEF NoRecords
<1> QED
  BY <1>1, <1>2, <1>5, <1>6, <1>7, <1>8 DEF Created

\* It truncates nothing where the number is right: the file is new.
LEMMA CreatedNothing ==
  ASSUME TypeInv, PhaseInv, NamesInv, OpenInv, RoomForNames,
         session \notin misnumbered,
         NEW f \in Files, pc \in {"open_bin", "open_csv"}, Created(f)
  PROVE  /\ disk' = disk
         /\ \A g \in Files : disk[session][g] = cache[g]
<1>1. Active /\ \A g \in Files : cache[g] = <<>>
  BY DEF Active, PhaseInv, NoRecords
<1>2. session \in Sessions
  BY <1>1, Constants DEF NamesInv
<1>3. disk[session] \in [Files -> Seq(Record)]
  BY <1>2 DEF TypeInv
<1>4. \A g \in Files : /\ disk[session][g] \in Seq(Record)
                        /\ IsPrefix(disk[session][g], <<>>)
  BY <1>1, <1>3 DEF OpenInv, Opened
<1>5. \A g \in Files : disk[session][g] = <<>>
  BY <1>4, PrefixFacts
<1>6. [disk[session] EXCEPT ![f] = <<>>] = disk[session]
  BY <1>3, <1>5
<1>7. [disk EXCEPT ![session] = disk[session]] = disk
  BY <1>2 DEF TypeInv
<1>8. disk' = [disk EXCEPT ![session] = [disk[session] EXCEPT ![f] = <<>>]]
  BY DEF Created
<1> QED
  BY <1>1, <1>5, <1>6, <1>7, <1>8

\* So no log loses a record but a misnumbered one.
LEMMA OpenKeeps ==
  ASSUME TypeInv, PhaseInv, NamesInv, OpenInv, RoomForNames, NEW f \in Files,
         NEW at \in {"open_bin", "open_csv"}, NEW next, Open(f, at, next)
  PROVE  /\ \A s \in Sessions \ misnumbered : disk'[s] = disk[s]
         /\ \A s \in Sessions : Log(s)' = Log(s) \/ Log(s)' = <<>>
<1>1. Active /\ pc = at
  BY DEF Open, Active
<1>2. CASE disk' = disk
  BY <1>2 DEF Log
<1>3. CASE Created(f)
  <2>1. /\ \A s \in Sessions, g \in Files :
             disk'[s][g] = IF s = session /\ g = f THEN <<>> ELSE disk[s][g]
        /\ \A s \in Sessions \ {session} : disk'[s] = disk[s]
    BY <1>1, <1>3, Truncated
  <2>2. session \notin misnumbered => disk' = disk
    BY <1>1, <1>3, CreatedNothing
  <2> QED BY <2>1, <2>2 DEF Log, Files
<1> QED
  BY <1>2, <1>3 DEF Open, volume

-----------------------------------------------------------------------------
(* Types. *)

LEMMA TypeStep ==
  ASSUME StoreInv, RoomForNames, [Next]_vars
  PROVE  TypeInv'
<1> USE DEF producer, local, timers, names, open, medium, volume, Steps
<1> SUFFICES ASSUME TypeInv, PhaseInv, NamesInv, OpenInv PROVE TypeInv'
  BY DEF StoreInv
<1>a. Active => session \in Sessions /\ session \in 1 .. MaxSession
  BY Constants DEF NamesInv
<1>b. Meta \in Record /\ Nobody \in Record /\ Queued \subseteq Record
  BY DEF Record, Nobody
<1>c. NoRecords \in [Files -> Seq(Record)]
  BY EmptySeq DEF NoRecords
<1>d. ASSUME NEW f \in Files, SyncSucceeds(f) \/ SyncFails(f), Active
      PROVE  /\ disk' \in [Sessions -> [Files -> Seq(Record)]]
             /\ exists' \in SUBSET (1 .. MaxSession) /\ dirty' \in SUBSET Files
             /\ ready' \in BOOLEAN /\ card' \in {"ok", "lost", "out"}
             /\ faults' \in Nat
  BY <1>a, <1>d, SyncStep, Stored DEF TypeInv
<1>e. ASSUME NEW f \in Files, NEW r \in Record, Accepts(f, r)
      PROVE  /\ cache' \in [Files -> Seq(Record)] /\ dirty' \in SUBSET Files
             /\ space' \in Nat /\ ready' \in BOOLEAN
  <2>1. Append(cache[f], r) \in Seq(Record)
    BY <1>e, AppendProperties DEF TypeInv
  <2> QED BY <1>e, <2>1 DEF Accepts, TypeInv
<1>f. Rejects => ready' \in BOOLEAN /\ UNCHANGED <<cache, dirty, space>>
  BY DEF Rejects, TransferFails, TypeInv
<1>1. CASE \E k \in Kinds : Push(k)
  <2> PICK k \in Kinds : Push(k)
    BY <1>1
  <2>1. [kind |-> k, n |-> pushed + 1] \in Queued
    BY DEF Queued, TypeInv
  <2>2. Append(queue, [kind |-> k, n |-> pushed + 1]) \in Seq(Queued)
    BY <2>1, AppendProperties DEF TypeInv
  <2>3. /\ queue' = queue \/ queue' = Append(queue, [kind |-> k, n |-> pushed + 1])
        /\ dropped' = dropped \/ dropped' = dropped + 1
        /\ pushed' = pushed \/ pushed' = pushed + 1
    BY DEF Push, push_frame
  <2>4. queue \in Seq(Queued) /\ dropped \in Nat /\ pushed \in Nat
    BY DEF TypeInv
  <2>5. queue' \in Seq(Queued)
    BY <2>2, <2>3, <2>4
  <2>6. dropped' \in Nat /\ pushed' \in Nat
    BY <2>3, <2>4
  <2> QED BY <2>5, <2>6 DEF Push, TypeInv
<1>2. CASE Service
  BY <1>2 DEF Service, TypeInv
<1>3. CASE Mount
  BY <1>3, <1>c DEF Mount, Initialise, TransferFails, TypeInv, NoRecords
<1>4. CASE Scan
  BY <1>4, ScanNumbers, Constants DEF Scan, TransferFails, TypeInv
<1>5. ASSUME NEW f \in Files, NEW at \in {"open_bin", "open_csv"},
             NEW next \in {"open_csv", "meta"}, Open(f, at, next)
      PROVE  TypeInv'
  <2>1. Active /\ pc = at
    BY <1>5 DEF Active, Open
  <2>2. Created(f) => /\ disk' \in [Sessions -> [Files -> Seq(Record)]]
                      /\ exists' \in {exists, exists \cup {session}}
    BY <2>1, Truncated
  <2>3. exists' \in SUBSET (1 .. MaxSession) /\ disk' \in [Sessions -> [Files -> Seq(Record)]]
    BY <1>5, <1>a, <2>1, <2>2 DEF Open, TypeInv
  <2> QED BY <1>5, <2>3 DEF Open, Initialise, TransferFails, TypeInv
<1>6. CASE WriteMeta
  BY <1>6, <1>b, <1>e, <1>f, Constants DEF WriteMeta, TypeInv
<1>7. CASE FirstSyncBin \/ FirstSyncCsv \/ SyncBin \/ SyncCsv
           \/ CloseBin \/ CloseCsv
  <2>1. Active
    BY <1>7 DEF Active, FirstSyncBin, FirstSyncCsv, SyncBin, SyncCsv,
                CloseBin, CloseCsv
  <2>2. CASE FirstSyncBin
    BY <2>1, <2>2, <1>d, Constants DEF FirstSyncBin, TypeInv
  <2>3. CASE FirstSyncCsv
    BY <2>1, <2>3, <1>d, Constants DEF FirstSyncCsv, TypeInv
  <2>4. CASE SyncBin
    BY <2>1, <2>4, <1>d, Constants DEF SyncBin, TypeInv
  <2>5. CASE SyncCsv
    BY <2>1, <2>5, <1>d, Constants DEF SyncCsv, TypeInv
  <2>6. CASE CloseBin
    BY <2>1, <2>6, <1>d, Constants DEF CloseBin, TypeInv
  <2>7. CASE CloseCsv
    BY <2>1, <2>7, <1>d, Constants DEF CloseCsv, TypeInv
  <2> QED BY <1>7, <2>2, <2>3, <2>4, <2>5, <2>6, <2>7
<1>8. CASE Pop
  <2>1. queue # <<>> => Head(queue) \in Queued /\ Tail(queue) \in Seq(Queued)
    BY HeadTailProperties DEF TypeInv
  <2> QED BY <1>8, <1>b, <2>1 DEF Pop, TypeInv
<1>9. CASE WriteBin
  BY <1>9, <1>b, <1>e, <1>f, Constants DEF WriteBin, TypeInv
<1>10. CASE WriteCsv
  BY <1>10, <1>b, <1>e, <1>f, Constants DEF WriteCsv, write_csv, SyncNow, TypeInv
<1>11. CASE CardFails \/ Insert
  <2>1. CASE CardFails
    BY <2>1 DEF CardFails, TypeInv
  <2>2. CASE Insert
    BY <2>2 DEF Insert, TypeInv
  <2> QED BY <1>11, <2>1, <2>2
<1>12. CASE PowerLoss
  <2>1. cache' = NoRecords /\ queue' \in Seq(Queued)
    BY <1>12, EmptySeq DEF PowerLoss, NoRecords
  <2>2. losses' \in Nat /\ session' \in Nat /\ dropped' \in Nat
    BY <1>12 DEF PowerLoss, TypeInv
  <2>3. frame' \in Record /\ dirty' \in SUBSET Files /\ card' \in {"ok", "lost", "out"}
    BY <1>12, <1>b DEF PowerLoss
  <2>4. mounted' \in BOOLEAN /\ sync_now' \in BOOLEAN /\ ready' \in BOOLEAN /\ pc' \in Steps
    BY <1>12 DEF PowerLoss
  <2> QED BY <1>12, <1>c, <2>1, <2>2, <2>3, <2>4 DEF PowerLoss, TypeInv
<1>13. CASE UNCHANGED vars
  BY <1>13 DEF vars, TypeInv
<1> QED
  BY <1>1, <1>2, <1>3, <1>4, <1>5, <1>6, <1>7, <1>8, <1>9, <1>10, <1>11, <1>12,
     <1>13, Constants DEF Next, StorageTask, OpenBin, OpenCsv
-----------------------------------------------------------------------------
(* Where the service is. *)

LEMMA PhaseStep ==
  ASSUME StoreInv, RoomForNames, [Next]_vars
  PROVE  PhaseInv'
<1> USE DEF producer, local, timers, names, open, medium, volume
<1> SUFFICES ASSUME TypeInv, PhaseInv PROVE PhaseInv'
  BY DEF StoreInv
<1>a. ASSUME NEW f \in Files, SyncSucceeds(f) \/ SyncFails(f)
      PROVE  /\ SyncSucceeds(f) => f \notin dirty'
             /\ dirty' \subseteq dirty /\ (ready' = FALSE \/ f \notin dirty')
             /\ ready' = FALSE \/ ready' = ready
  BY <1>a, SyncStep DEF TypeInv
<1>1. CASE \E k \in Kinds : Push(k)
  <2>1. UNCHANGED <<pc, mounted, frame, ready, card, dirty, cache>>
    BY <1>1 DEF Push
  <2> QED BY <2>1 DEF PhaseInv
<1>2. CASE Service
  BY <1>2 DEF Service, PhaseInv
<1>3. CASE Mount
  BY <1>3 DEF Mount, Initialise, usable, PhaseInv, NoRecords, Nobody
<1>4. CASE Scan
  BY <1>4 DEF Scan, usable, TransferFails, PhaseInv
<1>5. CASE OpenBin
  BY <1>5 DEF OpenBin, Open, PhaseInv
<1>6. CASE OpenCsv
  BY <1>6 DEF OpenCsv, Open, PhaseInv
<1>7. CASE WriteMeta
  <2>1. cache["bin"] = <<>> /\ cache["csv"] = <<>> /\ Append(<<>>, Meta) = <<Meta>>
    BY <1>7 DEF WriteMeta, PhaseInv, NoRecords, Files
  <2>2. Accepts("bin", Meta) => /\ cache'["bin"] = Append(<<>>, Meta)
                                /\ cache'["csv"] = <<>>
    BY <2>1 DEF Accepts, Files, TypeInv
  <2> QED BY <1>7, <2>1, <2>2 DEF WriteMeta, PhaseInv
<1>8. CASE FirstSyncBin
  BY <1>8 DEF FirstSyncBin, PhaseInv
<1>9. CASE FirstSyncCsv
  BY <1>9 DEF FirstSyncCsv, PhaseInv
<1>10. CASE Pop
  <2>1. queue # <<>> => Head(queue) \in Queued
    BY HeadTailProperties DEF TypeInv
  <2> QED BY <1>10, <2>1 DEF Pop, PhaseInv
<1>11. CASE WriteBin
  BY <1>11 DEF WriteBin, PhaseInv
<1>12. CASE WriteCsv
  BY <1>12 DEF WriteCsv, PhaseInv
<1>13. CASE SyncBin
  BY <1>13, <1>a DEF SyncBin, PhaseInv, Files
<1>14. CASE SyncCsv
  BY <1>14 DEF SyncCsv, PhaseInv
<1>15. CASE CloseBin
  BY <1>15, <1>a DEF CloseBin, PhaseInv, Files
<1>16. CASE CloseCsv
  BY <1>16 DEF CloseCsv, PhaseInv
<1>17. CASE CardFails
  BY <1>17 DEF CardFails, PhaseInv
<1>18. CASE Insert
  BY <1>18 DEF Insert, PhaseInv
<1>19. CASE PowerLoss
  BY <1>19 DEF PowerLoss, PhaseInv
<1>20. CASE UNCHANGED vars
  BY <1>20 DEF vars, PhaseInv
<1> QED
  BY <1>1, <1>2, <1>3, <1>4, <1>5, <1>6, <1>7, <1>8, <1>9, <1>10, <1>11, <1>12,
     <1>13, <1>14, <1>15, <1>16, <1>17, <1>18, <1>19, <1>20
  DEF Next, StorageTask
-----------------------------------------------------------------------------
(* Names and sessions. *)

LEMMA NamesStep ==
  ASSUME StoreInv, RoomForNames, [Next]_vars
  PROVE  NamesInv'
<1> USE DEF producer, local, timers, names, open, medium, volume
<1> SUFFICES ASSUME TypeInv, PhaseInv, NamesInv, OpenInv PROVE NamesInv'
  BY DEF StoreInv
<1>a. Active => session \in Sessions /\ session \in 1 .. MaxSession
  BY Constants DEF NamesInv
<1>b. ASSUME UNCHANGED <<names, exists, disk>>, Active' => Active,
             pc' \in {"mount", "scan"} => MaxSession \notin exists
      PROVE  NamesInv'
  BY <1>b DEF NamesInv
<1>c. ASSUME NEW f \in Files, SyncSucceeds(f) \/ SyncFails(f), UNCHANGED names,
             Active, pc' \notin {"mount", "scan"}
      PROVE  NamesInv'
  <2>1. CASE UNCHANGED <<disk, exists>>
    BY <1>b, <1>c, <2>1
  <2>2. CASE Written(f)
    <3>1. /\ exists' = exists \cup {session}
          /\ \A s \in Sessions \ {session} : disk'[s] = disk[s]
      BY <1>a, <1>c, <2>2, Stored DEF TypeInv
    <3>2. \A s \in Sessions \ exists' : disk'[s] = NoRecords
      BY <3>1 DEF NamesInv
    <3>3. /\ session' \in 1 .. MaxSession
          /\ session' \notin misnumbered' => \A t \in exists' : t <= session'
      BY <1>a, <1>c, <3>1 DEF NamesInv
    <3> QED BY <1>c, <3>2, <3>3 DEF NamesInv
  <2> QED BY <1>c, <2>1, <2>2, SyncStep DEF TypeInv
<1>1. CASE \E k \in Kinds : Push(k)
  BY <1>1, <1>b DEF Push, Active, NamesInv
<1>2. CASE Service
  BY <1>2, <1>b DEF Service, Active
<1>3. CASE Mount
  BY <1>3, <1>b DEF Mount, Active, NamesInv
<1>4. CASE Scan
  <2>1. pc' = "open_bin" /\ UNCHANGED volume
    BY <1>4 DEF Scan
  <2> QED BY <1>4, <2>1, ScanNumbers DEF NamesInv
<1>5. ASSUME NEW f \in Files, NEW at \in {"open_bin", "open_csv"},
             NEW next \in {"open_csv", "meta"}, Open(f, at, next)
      PROVE  NamesInv'
  <2>1. /\ Active /\ pc = at /\ UNCHANGED names
        /\ pc' \in {"open_csv", "meta", "close_bin"}
        /\ Created(f) \/ UNCHANGED volume
    BY <1>5 DEF Active, Open
  <2>2. CASE Created(f)
    <3>1. /\ exists' \in {exists, exists \cup {session}}
          /\ \A s \in Sessions \ {session} : disk'[s] = disk[s]
          /\ disk[session] = NoRecords => disk'[session] = NoRecords
      BY <2>1, <2>2, Truncated
    <3>2. \A s \in Sessions \ exists' : disk'[s] = NoRecords
      BY <3>1 DEF NamesInv
    <3>3. session \notin misnumbered => \A t \in exists' : t <= session
      BY <1>a, <2>1, <3>1 DEF NamesInv
    <3> QED BY <1>a, <2>1, <3>2, <3>3 DEF NamesInv
  <2>3. CASE UNCHANGED volume
    BY <1>b, <2>1, <2>3
  <2> QED BY <2>1, <2>2, <2>3
<1>6. CASE WriteMeta \/ Pop \/ WriteBin \/ WriteCsv
  <2>1. UNCHANGED <<names, exists, disk>> /\ Active /\ pc' \notin {"mount", "scan"}
    BY <1>6 DEF WriteMeta, Pop, WriteBin, WriteCsv, Active
  <2> QED BY <1>b, <2>1
<1>7. CASE FirstSyncBin \/ FirstSyncCsv \/ SyncBin \/ SyncCsv
           \/ CloseBin \/ CloseCsv
  <2>1. /\ Active /\ UNCHANGED names /\ pc' \notin {"mount", "scan"}
        /\ \E f \in Files : SyncSucceeds(f) \/ SyncFails(f)
    BY <1>7 DEF Active, FirstSyncBin, FirstSyncCsv, SyncBin, SyncCsv,
                CloseBin, CloseCsv, Files
  <2> QED BY <2>1, <1>c
<1>8. CASE CardFails \/ Insert
  BY <1>8, <1>b DEF CardFails, Insert, Active, NamesInv
<1>9. CASE PowerLoss
  BY <1>9 DEF PowerLoss, Active, NamesInv
<1>10. CASE UNCHANGED vars
  BY <1>10, <1>b DEF vars, Active, NamesInv
<1> QED
  BY <1>1, <1>2, <1>3, <1>4, <1>5, <1>6, <1>7, <1>8, <1>9, <1>10, Constants
  DEF Next, StorageTask, OpenBin, OpenCsv

-----------------------------------------------------------------------------
(* The open files. *)

\* A sync leaves the open files on the card up to the last one.
LEMMA SyncOpen ==
  ASSUME TypeInv, OpenInv, Active, session \in Sessions, NEW f \in Files,
         SyncSucceeds(f) \/ SyncFails(f)
  PROVE  \A g \in Files : Opened(g) =>
           /\ IsPrefix(disk'[session][g], cache[g])
           /\ g \notin dirty' => disk'[session][g] = cache[g]
<1>1. CASE UNCHANGED <<disk, dirty>>
  BY <1>1 DEF OpenInv
<1>2. CASE Written(f)
  <2>1. /\ \A g \in Files : disk'[session][g] =
                IF g = f THEN cache[f] ELSE disk[session][g]
        /\ dirty' = dirty \ {f}
    BY <1>2, Stored DEF TypeInv
  <2>2. cache[f] \in Seq(Record)
    BY DEF TypeInv
  <2>3. IsPrefix(cache[f], cache[f])
    BY <2>2, PrefixFacts
  <2> QED BY <2>1, <2>3 DEF OpenInv
<1> QED
  BY <1>1, <1>2, SyncStep DEF TypeInv

LEMMA OpenStep ==
  ASSUME StoreInv, RoomForNames, [Next]_vars
  PROVE  OpenInv'
<1> USE DEF producer, local, timers, names, open, medium, volume
<1> SUFFICES ASSUME TypeInv, PhaseInv, NamesInv, OpenInv PROVE OpenInv'
  BY DEF StoreInv
<1>a. Active => session \in Sessions /\ session \in 1 .. MaxSession
  BY Constants DEF NamesInv
<1>b. ASSUME UNCHANGED <<names, cache, dirty, disk>>, Active' => Active,
             \A g \in Files : Opened(g)' => Opened(g)
      PROVE  OpenInv'
  BY <1>b DEF OpenInv
<1>c. ASSUME NEW f \in Files, SyncSucceeds(f) \/ SyncFails(f), Active,
             UNCHANGED <<names, cache>>, \A g \in Files : Opened(g)' => Opened(g)
      PROVE  OpenInv'
  BY <1>a, <1>c, SyncOpen DEF OpenInv
<1>d. ASSUME NEW f \in Files, NEW r \in Record, Accepts(f, r), Active,
             UNCHANGED <<names, disk>>, \A g \in Files : Opened(g)
      PROVE  OpenInv'
  <2>1. /\ cache[f] \in Seq(Record) /\ disk[session] \in [Files -> Seq(Record)]
        /\ IsPrefix(disk[session][f], cache[f])
    BY <1>a, <1>d DEF TypeInv, OpenInv
  <2>2. disk[session][f] \in Seq(Record)
    BY <2>1
  <2>3. IsPrefix(disk[session][f], Append(cache[f], r))
    BY <2>1, <2>2, PrefixLonger
  <2>4. /\ cache'[f] = Append(cache[f], r)
        /\ \A g \in Files \ {f} : cache'[g] = cache[g]
        /\ dirty' = dirty \cup {f}
    BY <1>d DEF Accepts, TypeInv
  <2> QED BY <1>d, <2>3, <2>4 DEF OpenInv
<1>e. Rejects => UNCHANGED <<cache, dirty>>
  BY DEF Rejects
<1>f. Meta \in Record /\ frame \in Record /\ "bin" \in Files /\ "csv" \in Files
  BY DEF Record, TypeInv, Files
<1>1. CASE \E k \in Kinds : Push(k)
  BY <1>1, <1>b DEF Push, Active, Opened
<1>2. CASE Service
  BY <1>2, <1>b DEF Service, Active, Opened
<1>3. CASE Mount
  BY <1>3 DEF Mount, Active, OpenInv, PhaseInv
<1>4. CASE Scan
  <2>1. /\ UNCHANGED <<disk, exists, cache, dirty, mounted>> /\ pc' = "open_bin"
        /\ cache = NoRecords /\ dirty = {} /\ ~mounted
    BY <1>4 DEF Scan, PhaseInv
  <2>2. CASE session' \in misnumbered'
    BY <2>1, <2>2 DEF OpenInv, Opened
  <2>3. CASE session' \notin misnumbered'
    <3>1. disk[session'] = NoRecords
      BY <1>4, <2>3, ScanNumbers DEF NamesInv
    <3>2. NoRecords \in [Files -> Seq(Record)]
      BY EmptySeq DEF NoRecords
    <3>3. \A g \in Files : IsPrefix(NoRecords[g], NoRecords[g])
      BY <3>2, PrefixFacts
    <3> QED BY <2>1, <3>1, <3>3 DEF OpenInv
  <2> QED BY <2>2, <2>3
<1>5. CASE OpenBin \/ OpenCsv
  <2>1. PICK f \in Files, at \in {"open_bin", "open_csv"},
             next \in {"open_csv", "meta"} :
          Open(f, at, next) /\ at = (IF f = "bin" THEN "open_bin" ELSE "open_csv")
          /\ next = (IF f = "bin" THEN "open_csv" ELSE "meta")
    BY <1>5 DEF OpenBin, OpenCsv, Files
  <2>2. /\ Active /\ pc = at /\ UNCHANGED <<names, cache, mounted>> /\ ~mounted
        /\ \A g \in Files : cache[g] = <<>>
    BY <2>1 DEF Active, Open, PhaseInv, NoRecords
  <2>3. CASE pc' = "close_bin" /\ UNCHANGED <<dirty, disk>>
    BY <1>b, <2>2, <2>3 DEF Opened
  <2>4. CASE Created(f) /\ pc' = next
    <3>1. /\ \A s \in Sessions, g \in Files :
               disk'[s][g] = IF s = session /\ g = f THEN <<>> ELSE disk[s][g]
          /\ session \in Sessions
      BY <2>2, <2>4, Truncated
    <3>2. \A g \in Files : disk[session][g] \in Seq(Record)
      BY <3>1 DEF TypeInv
    <3>3. ASSUME NEW g \in Files, Opened(g) PROVE disk[session][g] = <<>>
      BY <2>2, <3>2, <3>3, PrefixFacts DEF OpenInv
    <3>4. \A g \in Files \ {f} : Opened(g)' => Opened(g)
      BY <2>1, <2>2, <2>4 DEF Opened, Files, Open
    <3>5. \A g \in Files : Opened(g)' => disk'[session][g] = <<>>
      BY <3>1, <3>3, <3>4
    <3>6. IsPrefix(<<>>, <<>>)
      BY EmptySeq, PrefixFacts
    <3> QED BY <2>2, <3>5, <3>6 DEF OpenInv
  <2> QED BY <2>1, <2>3, <2>4 DEF Open
<1>6. CASE WriteMeta
  <2>1. /\ Active /\ UNCHANGED <<names, disk, mounted>>
        /\ \A g \in Files : Opened(g)
    BY <1>6 DEF WriteMeta, Active, Opened
  <2> QED BY <1>6, <1>b, <1>d, <1>e, <1>f, <2>1 DEF WriteMeta
<1>7. CASE FirstSyncBin \/ FirstSyncCsv \/ SyncBin \/ SyncCsv
           \/ CloseBin \/ CloseCsv
  <2>1. /\ Active /\ UNCHANGED <<names, cache>>
        /\ \E f \in Files : SyncSucceeds(f) \/ SyncFails(f)
        /\ \/ UNCHANGED mounted /\ pc \notin {"first_sync_bin", "first_sync_csv"}
              /\ pc' \notin {"meta", "first_sync_bin", "first_sync_csv", "open_csv"}
           \/ pc \in {"first_sync_bin", "first_sync_csv"}
           \/ ~mounted' /\ pc' = "idle"
    BY <1>7 DEF Active, FirstSyncBin, FirstSyncCsv, SyncBin, SyncCsv,
                CloseBin, CloseCsv, Files
  <2>2. dirty' \subseteq dirty
    BY <2>1, SyncStep DEF TypeInv
  <2>3. \A g \in Files : Opened(g)' => Opened(g)
    BY <2>1, <2>2 DEF Opened
  <2> QED BY <2>1, <2>3, <1>c
<1>8. CASE Pop
  <2>1. UNCHANGED mounted /\ pc' \in {"write_bin", "sync_bin", "idle"}
    BY <1>8 DEF Pop
  <2> QED BY <1>8, <1>b, <2>1 DEF Pop, Active, Opened
<1>9. CASE WriteBin
  <2>1. /\ Active /\ UNCHANGED <<names, disk, mounted>>
        /\ \A g \in Files : Opened(g)
    BY <1>9 DEF WriteBin, Active, PhaseInv, Opened
  <2> QED BY <1>9, <1>b, <1>d, <1>e, <1>f, <2>1 DEF WriteBin
<1>10. CASE WriteCsv
  <2>1. /\ Active /\ UNCHANGED <<names, disk, mounted>>
        /\ \A g \in Files : Opened(g)
    BY <1>10 DEF WriteCsv, Active, PhaseInv, Opened
  <2> QED BY <1>10, <1>b, <1>d, <1>e, <1>f, <2>1 DEF WriteCsv, write_csv
<1>11. CASE CardFails \/ Insert
  BY <1>11, <1>b DEF CardFails, Insert, Active, Opened
<1>12. CASE PowerLoss
  BY <1>12 DEF PowerLoss, Active, OpenInv
<1>13. CASE UNCHANGED vars
  BY <1>13, <1>b DEF vars, Active, Opened
<1> QED
  BY <1>1, <1>2, <1>3, <1>4, <1>5, <1>6, <1>7, <1>8, <1>9, <1>10, <1>11, <1>12,
     <1>13, Constants DEF Next, StorageTask, OpenBin, OpenCsv
-----------------------------------------------------------------------------
(* The order of the records. *)

\* What a sync does to the BIN files: that of the session may grow.
LEMMA SyncLog ==
  ASSUME TypeInv, session \in Sessions, NEW f \in Files,
         SyncSucceeds(f) \/ SyncFails(f)
  PROVE  \A s \in Sessions : \/ Log(s)' = Log(s)
                             \/ s = session /\ Log(s)' = cache["bin"]
<1>1. CASE UNCHANGED disk
  BY <1>1 DEF Log
<1>2. CASE Written(f)
  <2>1. \A s \in Sessions : disk'[s]["bin"] =
          IF s = session /\ "bin" = f THEN cache[f] ELSE disk[s]["bin"]
    BY <1>2, Stored DEF TypeInv, Files
  <2> QED BY <2>1 DEF Log
<1> QED
  BY <1>1, <1>2, SyncStep DEF TypeInv

LEMMA LaterSessions ==
  ASSUME TypeInv, NamesInv, Active, session \notin misnumbered
  PROVE  \A s \in Sessions : s > session => Log(s) = <<>>
<1> SUFFICES ASSUME NEW s \in Sessions, s > session PROVE Log(s) = <<>>
  OBVIOUS
<1>1. s \notin exists
  <2>1. \A t \in exists : t <= session
    BY DEF NamesInv
  <2>2. s \in Int /\ session \in Int
    BY DEF TypeInv, Sessions
  <2> QED BY <2>1, <2>2
<1>2. disk[s] = NoRecords
  BY <1>1 DEF NamesInv
<1> QED
  BY <1>2 DEF Log, NoRecords, Files

LEMMA OrderKept ==
  ASSUME OrderInv, UNCHANGED <<queue, frame, cache, disk, pushed, names>>,
         Active' => Active, pc' = "write_bin" => pc = "write_bin"
  PROVE  OrderInv'
  BY DEF OrderInv, Ordered, Log, InHand, Before, Increasing, names

\* A truncated log takes nothing out of order.
LEMMA OrderTruncated ==
  ASSUME OrderInv, UNCHANGED <<queue, frame, cache, pushed, names>>,
         \A s \in Sessions : Log(s)' = Log(s) \/ Log(s)' = <<>>,
         Active, pc' # "write_bin"
  PROVE  OrderInv'
<1>1. \A s \in Sessions : Numbers(Log(s)') = Numbers(Log(s)) \/ Numbers(Log(s)') = {}
  BY NumbersNone
<1>2. InHand' = InHand /\ Increasing(<<>>)
  BY DEF InHand, Increasing
<1>3. \A s \in Sessions : Increasing(Log(s)')
  BY <1>2 DEF OrderInv, Ordered
<1>4. ASSUME NEW s \in Sessions, NEW B
      PROVE  Before(Numbers(Log(s)), B) => Before(Numbers(Log(s)'), B)
  BY <1>1 DEF Before
<1>5. ASSUME NEW s \in Sessions, NEW t \in Sessions, s < t, s \notin misnumbered
      PROVE  Before(Numbers(Log(s)'), Numbers(Log(t)'))
  BY <1>1, <1>5 DEF OrderInv, Ordered, Before
<1>6. Ordered'
  BY <1>2, <1>3, <1>4, <1>5 DEF OrderInv, Ordered, names
<1>7. \A s \in Sessions : Numbers(Log(s)') \subseteq 1 .. pushed
  BY <1>1 DEF OrderInv
<1>8. \A s \in Sessions : s < session => Before(Numbers(Log(s)'), Numbers(cache["bin"]))
  BY <1>4 DEF OrderInv
<1> QED
  BY <1>2, <1>6, <1>7, <1>8 DEF OrderInv, names

LEMMA OrderSynced ==
  ASSUME TypeInv, NamesInv, OrderInv, Active, session \in Sessions,
         NEW f \in Files, SyncSucceeds(f) \/ SyncFails(f),
         UNCHANGED <<queue, frame, cache, pushed, names>>,
         frame = Nobody, pc' # "write_bin"
  PROVE  OrderInv'
<1> DEFINE C == Numbers(cache["bin"])
           Q == Numbers(queue)
           L(s) == Numbers(Log(s))
<1>1. InHand = {} /\ InHand' = {}
  BY NumbersOne DEF InHand, Nobody, Meta
<1>2. \A s \in Sessions : \/ Log(s)' = Log(s)
                          \/ s = session /\ Log(s)' = cache["bin"]
  BY SyncLog
<1>3. session \notin misnumbered => \A s \in Sessions : s > session => L(s) = {}
  BY LaterSessions, NumbersNone
<1>4. \A s \in Sessions : Increasing(Log(s)')
  BY <1>2 DEF OrderInv, Ordered
<1>5. \A s \in Sessions : \/ Numbers(Log(s)') = L(s)
                          \/ s = session /\ Numbers(Log(s)') = C
  BY <1>2
<1>6. Sessions \subseteq Int
  BY DEF Sessions
<1>7. \A s \in Sessions : Before(Numbers(Log(s)'), InHand' \cup Q)
  BY <1>1, <1>5 DEF OrderInv, Ordered, Before
<1>8. ASSUME NEW s \in Sessions, NEW t \in Sessions, s < t, s \notin misnumbered
      PROVE  Before(Numbers(Log(s)'), Numbers(Log(t)'))
  <2>1. CASE t = session
    <3>1. Numbers(Log(s)') = L(s) /\ Before(L(s), C) /\ Before(L(s), L(t))
      BY <1>5, <1>6, <1>8, <2>1 DEF OrderInv, Ordered
    <3> QED BY <1>5, <3>1
  <2>2. CASE s = session
    <3>1. Numbers(Log(t)') = {}
      BY <1>3, <1>5, <1>6, <1>8, <2>2
    <3> QED BY <3>1 DEF Before
  <2>3. CASE t # session /\ s # session
    BY <1>5, <1>8, <2>3 DEF OrderInv, Ordered
  <2> QED BY <2>1, <2>2, <2>3
<1>9. \A s \in Sessions : s < session => Before(Numbers(Log(s)'), C)
  BY <1>5, <1>6 DEF OrderInv
<1>10. \A s \in Sessions : Numbers(Log(s)') \subseteq 1 .. pushed
  BY <1>5 DEF OrderInv
<1>11. Ordered'
  BY <1>1, <1>4, <1>7, <1>8 DEF OrderInv, Ordered, Before, names
<1> QED
  BY <1>1, <1>9, <1>10, <1>11 DEF OrderInv, names

LEMMA OrderStep ==
  ASSUME StoreInv, RoomForNames, [Next]_vars
  PROVE  OrderInv'
<1> USE DEF producer, local, timers, names, open, medium, volume
<1> SUFFICES ASSUME TypeInv, PhaseInv, NamesInv, OpenInv, OrderInv PROVE OrderInv'
  BY DEF StoreInv
<1> DEFINE C == Numbers(cache["bin"])
           Q == Numbers(queue)
<1>a. Active => session \in Sessions
  BY Constants DEF NamesInv
<1>b. ASSUME NEW f \in Files, SyncSucceeds(f) \/ SyncFails(f), Active,
             UNCHANGED <<queue, frame, cache, pushed, names>>,
             pc \notin {"write_bin", "write_csv"}, pc' # "write_bin"
      PROVE  OrderInv'
  BY <1>a, <1>b, OrderSynced DEF PhaseInv
<1>c. /\ cache["bin"] \in Seq(Record) /\ pushed \in Nat /\ queue \in Seq(Queued)
      /\ \A r \in Queued : Numbers(<<r>>) = {r.n} /\ r.n \in Nat \ {0}
      /\ "bin" \in Files /\ Queued \subseteq Record
  BY NumbersOne DEF TypeInv, Queued, Record, Files
<1>d. Numbers(<<Nobody>>) = {} /\ Numbers(<<>>) = {} /\ Increasing(<<Meta>>) /\ Increasing(<<>>)
  BY NumbersOne, NumbersNone DEF Nobody, Meta, Increasing
<1>1. CASE \E k \in Kinds : Push(k)
  <2> PICK k \in Kinds : Push(k)
    BY <1>1
  <2> DEFINE r == [kind |-> k, n |-> pushed + 1]
  <2>1. /\ UNCHANGED <<frame, cache, disk, names, pc, mounted>>
        /\ \/ queue' = queue /\ pushed' = pushed
           \/ queue' = queue /\ pushed' = pushed + 1
           \/ queue' = Append(queue, r) /\ pushed' = pushed + 1
    BY DEF Push, push_frame
  <2>2. r \in Queued
    BY <1>c DEF Queued
  <2>3. CASE queue' = queue /\ pushed' = pushed
    BY <2>1, <2>3, OrderKept DEF Active
  <2>4. CASE queue' = queue /\ pushed' = pushed + 1
    <3>1. 1 .. pushed \subseteq 1 .. pushed'
      BY <1>c, <2>4
    <3> QED BY <2>1, <2>4, <3>1 DEF OrderInv, Ordered, Log, InHand, Before, Active
  <2>5. CASE queue' = Append(queue, r) /\ pushed' = pushed + 1
    <3>1. Numbers(queue') = Q \cup {pushed + 1} /\ Q \subseteq 1 .. pushed
      <4>1. Numbers(Append(queue, r)) = Q \cup Numbers(<<r>>)
        BY <1>c, <2>2, NumbersAppend
      <4>2. Numbers(<<r>>) = {pushed + 1}
        BY <1>c, <2>2
      <4> QED BY <2>5, <4>1, <4>2 DEF OrderInv
    <3>2. Before(Q, Numbers(<<r>>))
      BY <1>c, <2>2, <3>1 DEF Before
    <3>3. Increasing(queue')
      <4>1. queue \in Seq(Record)
        BY <1>c, SeqMonotonic
      <4> QED BY <2>2, <2>5, <3>2, <4>1, IncreasingAppend DEF OrderInv, Ordered
    <3>4. ASSUME NEW A, A \subseteq 1 .. pushed, Before(A, Q)
          PROVE  Before(A, Numbers(queue'))
      BY <1>c, <3>1, <3>4 DEF Before
    <3>5. Before(InHand, Numbers(queue')) /\ Before(C, Numbers(queue'))
      BY <3>4 DEF OrderInv, Ordered
    <3>6. ASSUME NEW s \in Sessions
          PROVE  Before(Numbers(Log(s)), InHand \cup Numbers(queue'))
      <4>1. Before(Numbers(Log(s)), Numbers(queue'))
        BY <3>4 DEF OrderInv, Ordered, Before
      <4> QED BY <4>1 DEF OrderInv, Ordered, Before
    <3>7. 1 .. pushed \subseteq 1 .. pushed' /\ pushed + 1 \in 1 .. pushed'
      BY <1>c, <2>5
    <3>8. Ordered'
      BY <2>1, <3>3, <3>5, <3>6 DEF OrderInv, Ordered, Log, InHand
    <3> QED BY <2>1, <3>1, <3>5, <3>7, <3>8 DEF OrderInv, Log, InHand, Active
  <2> QED BY <2>1, <2>3, <2>4, <2>5
<1>2. CASE Service
  BY <1>2, OrderKept DEF Service, Active
<1>3. CASE Mount
  <2>1. /\ UNCHANGED <<queue, frame, disk, pushed, names>> /\ cache'["bin"] = <<>>
        /\ ~Active' /\ pc' # "write_bin"
    BY <1>3, <1>c DEF Mount, Active, PhaseInv
  <2>2. Ordered'
    BY <2>1 DEF OrderInv, Ordered, Log, InHand
  <2> QED BY <1>d, <2>1, <2>2 DEF OrderInv, Log, InHand, Before
<1>4. CASE Scan
  <2>1. /\ UNCHANGED <<queue, frame, disk, pushed, cache>> /\ cache["bin"] = <<>>
        /\ pc' # "write_bin" /\ misnumbered \subseteq misnumbered'
    BY <1>4, <1>c, ScanNumbers DEF Scan, PhaseInv, NoRecords
  <2>2. Ordered'
    BY <2>1 DEF OrderInv, Ordered, Log, InHand
  <2> QED BY <1>d, <2>1, <2>2 DEF OrderInv, Log, InHand, Before
<1>5. ASSUME NEW f \in Files, NEW at \in {"open_bin", "open_csv"},
             NEW next \in {"open_csv", "meta"}, Open(f, at, next)
      PROVE  OrderInv'
  <2>1. /\ Active /\ pc = at /\ UNCHANGED <<queue, frame, cache, pushed, names>>
        /\ pc' # "write_bin"
    BY <1>5 DEF Active, Open
  <2>2. \A s \in Sessions : Log(s)' = Log(s) \/ Log(s)' = <<>>
    BY <1>5, OpenKeeps
  <2> QED BY <2>1, <2>2, OrderTruncated
<1>6. CASE WriteMeta
  <2>1. /\ UNCHANGED <<queue, frame, disk, pushed, names>> /\ Active
        /\ cache["bin"] = <<>> /\ pc' # "write_bin"
    BY <1>6, <1>c DEF WriteMeta, Active, PhaseInv, NoRecords
  <2>2. cache' = cache \/ cache'["bin"] = Append(<<>>, Meta)
    BY <1>6, <1>c, <2>1 DEF WriteMeta, Accepts, Rejects, TypeInv
  <2>3. CASE cache' = cache
    BY <2>1, <2>3, OrderKept
  <2>4. CASE cache'["bin"] = <<Meta>>
    <3>1. Numbers(cache'["bin"]) = {} /\ Increasing(cache'["bin"])
      BY <1>d, <2>4 DEF Nobody
    <3>2. Ordered'
      BY <2>1 DEF OrderInv, Ordered, Log, InHand
    <3> QED BY <2>1, <3>1, <3>2 DEF OrderInv, Log, InHand, Before
  <2> QED BY <2>2, <2>3, <2>4
<1>7. CASE FirstSyncBin \/ FirstSyncCsv \/ SyncBin \/ SyncCsv
           \/ CloseBin \/ CloseCsv
  <2>1. /\ Active /\ UNCHANGED <<queue, frame, cache, pushed, names>>
        /\ pc \notin {"write_bin", "write_csv"} /\ pc' # "write_bin"
        /\ \E f \in Files : SyncSucceeds(f) \/ SyncFails(f)
    BY <1>7 DEF Active, FirstSyncBin, FirstSyncCsv, SyncBin, SyncCsv,
                CloseBin, CloseCsv, Files
  <2> QED BY <2>1, <1>b
<1>8. CASE Pop
  <2>1. /\ UNCHANGED <<disk, cache, pushed, names>>
        /\ frame = Nobody /\ Active /\ InHand = {}
    BY <1>8, <1>d DEF Pop, Active, PhaseInv, InHand
  <2>2. CASE UNCHANGED <<queue, frame>> /\ pc' # "write_bin"
    BY <2>1, <2>2, OrderKept
  <2>3. CASE queue # <<>> /\ frame' = Head(queue) /\ queue' = Tail(queue)
    <3> DEFINE H == Numbers(<<Head(queue)>>)
               R == Numbers(Tail(queue))
    <3>1. Q = H \cup R
      BY <1>c, <2>3, NumbersTail
    <3>2. Increasing(Tail(queue)) /\ Before(H, R)
      BY <1>c, <2>3, IncreasingTail DEF OrderInv, Ordered
    <3>3. InHand' = H /\ Numbers(queue') = R
      BY <2>3 DEF InHand
    <3>4. Before(C, H) /\ Before(C, R)
      BY <3>1 DEF OrderInv, Before
    <3>5. \A s \in Sessions : Before(Numbers(Log(s)), H \cup R)
      BY <3>1 DEF OrderInv, Ordered, Before
    <3>6. H \cup R \subseteq 1 .. pushed
      BY <3>1 DEF OrderInv
    <3> HIDE DEF H, R
    <3>7. Ordered'
      BY <2>1, <2>3, <3>2, <3>3, <3>5 DEF OrderInv, Ordered, Log
    <3> QED BY <2>1, <2>3, <3>3, <3>4, <3>6, <3>7 DEF OrderInv, Log
  <2> QED BY <1>8, <2>2, <2>3 DEF Pop
<1>9. CASE WriteBin
  <2>1. /\ UNCHANGED <<disk, queue, pushed, names>> /\ Active
        /\ frame' \in {frame, Nobody} /\ frame \in Queued /\ pc' # "write_bin"
        /\ pc = "write_bin"
    BY <1>9 DEF WriteBin, Active, PhaseInv
  <2>2. InHand' \subseteq InHand
    BY <1>d, <2>1 DEF InHand
  <2>3. Ordered'
    BY <2>1, <2>2 DEF OrderInv, Ordered, Log, Before
  <2>4. CASE cache' = cache
    BY <2>1, <2>2, <2>3, <2>4 DEF OrderInv, Log
  <2>5. CASE cache'["bin"] = Append(cache["bin"], frame)
    <3>1. Numbers(cache'["bin"]) = C \cup InHand
      BY <1>c, <2>1, <2>5, NumbersAppend DEF InHand
    <3>2. Increasing(cache'["bin"])
      BY <1>c, <2>1, <2>5, IncreasingAppend DEF OrderInv, InHand
    <3>3. Before(Numbers(cache'["bin"]), Q)
      BY <3>1 DEF OrderInv, Ordered, Before
    <3>4. \A s \in Sessions : s < session =>
            Before(Numbers(Log(s)), Numbers(cache'["bin"]))
      BY <2>1, <3>1 DEF OrderInv, Ordered, Before
    <3>5. Numbers(cache'["bin"]) \subseteq 1 .. pushed
      BY <3>1 DEF OrderInv
    <3> QED BY <2>1, <2>2, <2>3, <3>2, <3>3, <3>4, <3>5 DEF OrderInv, Log
  <2>6. Accepts("bin", frame) => cache'["bin"] = Append(cache["bin"], frame)
    BY <1>c DEF Accepts, TypeInv
  <2> QED BY <1>9, <2>4, <2>5, <2>6 DEF WriteBin, Rejects
<1>10. CASE WriteCsv
  <2>1. /\ UNCHANGED <<disk, queue, pushed, names>> /\ Active
        /\ frame' = Nobody /\ pc' # "write_bin"
    BY <1>10 DEF WriteCsv, Active
  <2>2. cache'["bin"] = cache["bin"]
    BY <1>10 DEF WriteCsv, write_csv, Accepts, Rejects, TypeInv, Files
  <2>3. InHand' = {}
    BY <1>d, <2>1 DEF InHand
  <2>4. Ordered'
    BY <2>1, <2>3 DEF OrderInv, Ordered, Log, Before
  <2> QED BY <2>1, <2>2, <2>3, <2>4 DEF OrderInv, Log
<1>11. CASE CardFails \/ Insert
  BY <1>11, OrderKept DEF CardFails, Insert, Active
<1>12. CASE PowerLoss
  <2>1. /\ UNCHANGED <<disk, pushed, misnumbered>> /\ queue' = <<>> /\ frame' = Nobody
        /\ cache'["bin"] = <<>> /\ ~Active' /\ pc' # "write_bin"
    BY <1>12, <1>c DEF PowerLoss, Active
  <2>2. InHand' = {}
    BY <1>d, <2>1 DEF InHand
  <2>3. Ordered'
    BY <1>d, <2>1, <2>2 DEF OrderInv, Ordered, Log, Before
  <2> QED BY <1>d, <2>1, <2>2, <2>3 DEF OrderInv, Log, Before
<1>13. CASE UNCHANGED vars
  BY <1>13, OrderKept DEF vars, Active
<1> QED
  BY <1>1, <1>2, <1>3, <1>4, <1>5, <1>6, <1>7, <1>8, <1>9, <1>10, <1>11, <1>12,
     <1>13, Constants DEF Next, StorageTask, OpenBin, OpenCsv
-----------------------------------------------------------------------------
(* The rows. *)

LEMMA RowsKept ==
  ASSUME RowsInv, UNCHANGED cache, pc' # "write_csv",
         misnumbered \subseteq misnumbered',
         \A s \in Sessions \ misnumbered' : disk'[s] = disk[s]
  PROVE  RowsInv'
  BY DEF RowsInv, CsvInBin

\* A sync puts no row on the card that tells of a frame which is not there.
LEMMA RowsSynced ==
  ASSUME TypeInv, OpenInv, RowsInv, Active, session \in Sessions, pc' # "write_csv",
         NEW f \in Files, SyncSucceeds(f) \/ SyncFails(f), UNCHANGED <<cache, names>>,
         \/ f = "bin"
         \/ cache["csv"] = <<>>
         \/ "bin" \notin dirty
         \/ ~ready
  PROVE  RowsInv'
<1>1. CASE UNCHANGED disk
  BY <1>1, RowsKept DEF names
<1>2. CASE f \in dirty /\ ready /\ Written(f)
  <2>1. /\ \A s \in Sessions, g \in Files : disk'[s][g] =
               IF s = session /\ g = f THEN cache[f] ELSE disk[s][g]
        /\ "bin" \in Files /\ "csv" \in Files
    BY <1>2, Stored DEF TypeInv, Files
  <2>2. ASSUME NEW g \in Files, session \notin misnumbered
        PROVE  /\ disk[session][g] \in Seq(Record) /\ cache[g] \in Seq(Record)
               /\ IsPrefix(disk[session][g], cache[g])
               /\ g \notin dirty => disk[session][g] = cache[g]
    <3>1. disk[session] \in [Files -> Seq(Record)] /\ cache \in [Files -> Seq(Record)]
      BY DEF TypeInv
    <3> QED BY <2>2, <3>1 DEF OpenInv, Opened
  <2>3. session \notin misnumbered =>
          \A g \in Files : Numbers(disk[session][g]) \subseteq Numbers(cache[g])
    BY <2>2, PrefixFacts
  <2>4. ASSUME session \notin misnumbered
        PROVE  Numbers(disk'[session]["csv"]) \subseteq Numbers(disk'[session]["bin"])
    <3>1. CASE f = "bin"
      BY <2>1, <2>3, <2>4, <3>1 DEF RowsInv
    <3>2. CASE f = "csv" /\ cache["csv"] = <<>>
      BY <2>1, <3>2, NumbersNone
    <3>3. CASE f = "csv" /\ "bin" \notin dirty
      <4>1. disk'[session]["bin"] = cache["bin"] /\ disk'[session]["csv"] = cache["csv"]
        BY <2>1, <2>2, <2>4, <3>3
      <4> QED BY <4>1 DEF RowsInv
    <3> QED BY <1>2, <3>1, <3>2, <3>3 DEF Files
  <2>5. \A s \in Sessions \ misnumbered : s # session =>
          Numbers(disk'[s]["csv"]) \subseteq Numbers(disk'[s]["bin"])
    BY <2>1 DEF RowsInv, CsvInBin
  <2> QED BY <2>4, <2>5 DEF RowsInv, CsvInBin, names
<1> QED
  BY <1>1, <1>2, SyncStep DEF TypeInv

LEMMA RowsStep ==
  ASSUME StoreInv, RoomForNames, [Next]_vars
  PROVE  RowsInv'
<1> USE DEF producer, local, timers, names, open, medium, volume
<1> SUFFICES ASSUME TypeInv, PhaseInv, NamesInv, OpenInv, RowsInv PROVE RowsInv'
  BY DEF StoreInv
<1>a. Active => session \in Sessions
  BY Constants DEF NamesInv
<1>b. /\ cache \in [Files -> Seq(Record)] /\ frame \in Record
      /\ "bin" \in Files /\ "csv" \in Files
  BY DEF TypeInv, Files
<1>1. CASE (\E k \in Kinds : Push(k)) \/ CardFails \/ Insert \/ UNCHANGED vars
  <2>1. UNCHANGED <<pc, cache, disk, frame, names>>
    BY <1>1 DEF Push, CardFails, Insert, vars
  <2> QED BY <2>1 DEF RowsInv, CsvInBin, InHand
<1>2. CASE Service \/ Scan \/ Pop
  <2>1. /\ UNCHANGED <<cache, disk>> /\ pc' # "write_csv"
        /\ misnumbered \subseteq misnumbered'
    BY <1>2, ScanNumbers DEF Service, Scan, Pop
  <2> QED BY <2>1, RowsKept
<1>3. CASE Mount \/ PowerLoss
  <2>1. /\ UNCHANGED <<disk, misnumbered>> /\ pc' # "write_csv"
        /\ cache'["bin"] = <<>> /\ cache'["csv"] = <<>>
    BY <1>b, <1>3 DEF Mount, PowerLoss
  <2> QED BY <2>1, NumbersNone DEF RowsInv, CsvInBin
<1>4. ASSUME NEW f \in Files, NEW at \in {"open_bin", "open_csv"},
             NEW next \in {"open_csv", "meta"}, Open(f, at, next)
      PROVE  RowsInv'
  <2>1. UNCHANGED <<cache, misnumbered>> /\ pc' # "write_csv"
    BY <1>4 DEF Open
  <2>2. \A s \in Sessions \ misnumbered : disk'[s] = disk[s]
    BY <1>4, OpenKeeps
  <2> QED BY <2>1, <2>2, RowsKept
<1>5. CASE WriteMeta
  <2>1. UNCHANGED <<disk, misnumbered>> /\ pc' # "write_csv" /\ cache["csv"] = <<>>
    BY <1>b, <1>5 DEF WriteMeta, PhaseInv, NoRecords
  <2>2. cache' = cache \/ cache'["csv"] = cache["csv"]
    BY <1>b, <1>5 DEF WriteMeta, Accepts, Rejects
  <2> QED BY <2>1, <2>2, NumbersNone DEF RowsInv, CsvInBin
<1>6. CASE WriteBin
  <2>1. /\ UNCHANGED <<disk, misnumbered>> /\ frame \in Queued
        /\ pc' = "write_csv" => frame' = frame
    BY <1>6 DEF WriteBin, PhaseInv
  <2>2. CASE cache' = cache /\ pc' # "write_csv"
    BY <2>1, <2>2, RowsKept
  <2>3. CASE Accepts("bin", frame)
    <3>1. cache'["bin"] = Append(cache["bin"], frame) /\ cache'["csv"] = cache["csv"]
      BY <1>b, <2>3 DEF Accepts
    <3>2. Numbers(cache'["bin"]) = Numbers(cache["bin"]) \cup InHand
      BY <1>b, <3>1, NumbersAppend DEF InHand
    <3> QED BY <2>1, <3>1, <3>2 DEF RowsInv, CsvInBin, InHand
  <2> QED BY <1>6, <2>2, <2>3 DEF WriteBin, Rejects
<1>7. CASE WriteCsv
  <2>1. UNCHANGED <<disk, misnumbered>> /\ pc' # "write_csv" /\ pc = "write_csv"
    BY <1>7 DEF WriteCsv
  <2>2. CASE cache' = cache
    BY <2>1, <2>2, RowsKept
  <2>3. CASE Accepts("csv", frame)
    <3>1. cache'["csv"] = Append(cache["csv"], frame) /\ cache'["bin"] = cache["bin"]
      BY <1>b, <2>3 DEF Accepts
    <3>2. Numbers(cache'["csv"]) = Numbers(cache["csv"]) \cup InHand
      BY <1>b, <3>1, NumbersAppend DEF InHand
    <3> QED BY <2>1, <3>1, <3>2 DEF RowsInv, CsvInBin
  <2> QED BY <1>7, <2>2, <2>3 DEF WriteCsv, write_csv, Rejects
<1>8. CASE FirstSyncBin \/ FirstSyncCsv \/ SyncBin \/ SyncCsv
           \/ CloseBin \/ CloseCsv
  <2>1. /\ Active /\ UNCHANGED <<cache, names>> /\ pc' # "write_csv"
        /\ \E f \in Files : /\ SyncSucceeds(f) \/ SyncFails(f)
                            /\ \/ f = "bin"
                               \/ pc \in {"first_sync_csv", "sync_csv", "close_csv"}
    BY <1>8 DEF Active, FirstSyncBin, FirstSyncCsv, SyncBin, SyncCsv,
                CloseBin, CloseCsv, Files
  <2>2. pc \in {"first_sync_csv", "sync_csv", "close_csv"} =>
          cache["csv"] = <<>> \/ "bin" \notin dirty \/ ~ready
    BY DEF PhaseInv
  <2> QED BY <1>a, <2>1, <2>2, RowsSynced
<1> QED
  BY <1>1, <1>2, <1>3, <1>4, <1>5, <1>6, <1>7, <1>8, Constants
  DEF Next, StorageTask, OpenBin, OpenCsv
-----------------------------------------------------------------------------
(* The events. *)

LEMMA RangeAppend ==
  ASSUME NEW S, NEW s \in Seq(S), NEW r \in S
  PROVE  Range(Append(s, r)) = Range(s) \cup {r}
<1>1. Range(s) = {s[i] : i \in 1 .. Len(s)} /\ Len(s) \in Nat
  BY RangeEquality, LenProperties
<1> DEFINE a == Append(s, r)
<1>2. /\ a \in Seq(S) /\ Len(a) = Len(s) + 1 /\ a[Len(s) + 1] = r
      /\ \A i \in 1 .. Len(s) : a[i] = s[i]
  BY AppendProperties
<1> HIDE DEF a
<1>3. Range(a) = {a[i] : i \in 1 .. Len(a)}
  BY <1>2, RangeEquality
<1>4. Range(a) = Range(s) \cup {r}
  <2>1. ASSUME NEW i \in 1 .. Len(a) PROVE a[i] \in Range(s) \cup {r}
    BY <1>1, <1>2
  <2>2. ASSUME NEW i \in 1 .. Len(s) PROVE s[i] \in Range(a)
    BY <1>1, <1>2, <1>3
  <2>3. r \in Range(a)
    BY <1>1, <1>2, <1>3
  <2> QED BY <1>1, <1>3, <2>1, <2>2, <2>3
<1> QED
  BY <1>4 DEF a

\* A BIN file that is up to date holds all events.
LEMMA UpToDate ==
  ASSUME TypeInv, Log(session) = cache["bin"]
  PROVE  EventsOn
<1> SUFFICES ASSUME NEW r \in Range(cache["bin"]), r.kind = "EVENT"
             PROVE  r.n \in Numbers(cache["bin"])
  BY DEF EventsOn
<1>1. cache["bin"] \in Seq(Record)
  BY DEF TypeInv, Files
<1>2. PICK i \in DOMAIN cache["bin"] : r = cache["bin"][i]
  BY DEF Range
<1>3. r \in Record
  BY <1>1, <1>2, ElementOfSeq, LenProperties
<1>4. r.n # 0
  BY <1>3 DEF Record, Queued, Meta
<1> QED
  BY <1>2, <1>4 DEF Numbers

LEMMA EventsStep ==
  ASSUME StoreInv, RoomForNames, [Next]_vars
  PROVE  EventsInv'
<1> USE DEF producer, local, timers, names, open, medium, volume
<1> SUFFICES ASSUME TypeInv, TypeInv', PhaseInv, PhaseInv', NamesInv, OpenInv,
                    OpenInv', EventsInv
             PROVE  EventsInv'
  BY TypeStep, PhaseStep, OpenStep DEF StoreInv
<1>a. /\ cache \in [Files -> Seq(Record)] /\ frame \in Record
      /\ "bin" \in Files /\ "csv" \in Files
  BY DEF TypeInv, Files
<1>b. UNCHANGED <<session, disk>> /\ cache'["bin"] = cache["bin"] =>
        Log(session)' = Log(session)
  BY DEF Log
<1>1. CASE (\E k \in Kinds : Push(k)) \/ CardFails \/ Insert \/ UNCHANGED vars
  <2>1. UNCHANGED <<pc, cache, disk, frame, session, mounted, sync_now>>
    BY <1>1 DEF Push, CardFails, Insert, vars
  <2> QED BY <2>1 DEF EventsInv, EventsOn, Log
<1>2. CASE Service
  <2>1. UNCHANGED <<cache, disk, frame, session, mounted>> /\ pc = "idle"
        /\ \/ pc' = "drain" /\ mounted
           \/ pc' \in {"idle", "mount"} /\ ~mounted
    BY <1>2 DEF Service
  <2> QED BY <2>1 DEF EventsInv, EventsOn, Log
<1>3. CASE Mount \/ Scan \/ OpenBin \/ OpenCsv \/ WriteMeta \/ FirstSyncBin
           \/ SyncBin \/ CloseBin \/ CloseCsv \/ PowerLoss
  <2>1. /\ pc' \notin {"drain", "write_bin", "write_csv"}
        /\ pc' = "idle" => ~mounted'
    BY <1>3 DEF Mount, Scan, OpenBin, OpenCsv, Open, WriteMeta, FirstSyncBin,
                SyncBin, CloseBin, CloseCsv, PowerLoss, PhaseInv
  <2> QED BY <2>1 DEF EventsInv
<1>4. CASE FirstSyncCsv
  <2>1. cache'["bin"] = <<Meta>> /\ pc' = "drain"
    BY <1>4 DEF FirstSyncCsv, PhaseInv
  <2>2. EventsOn'
    <3>1. \A r \in Range(<<Meta>>) : r.kind # "EVENT"
      BY DEF Range, Meta
    <3> QED BY <2>1, <3>1 DEF EventsOn
  <2> QED BY <2>1, <2>2 DEF EventsInv
<1>5. CASE Pop
  <2>1. /\ UNCHANGED <<cache, disk, session, mounted, sync_now>> /\ pc = "drain"
        /\ \/ pc' \in {"write_bin", "sync_bin"}
           \/ pc' = "idle" /\ ~sync_now
    BY <1>5 DEF Pop
  <2>2. ~sync_now => EventsOn'
    BY <2>1 DEF EventsInv, EventsOn, Log
  <2> QED BY <2>1, <2>2 DEF EventsInv
<1>6. CASE WriteBin
  <2>1. /\ UNCHANGED <<disk, session, mounted, sync_now>> /\ pc = "write_bin"
        /\ frame \in Queued
    BY <1>6 DEF WriteBin, PhaseInv
  <2>2. CASE pc' = "close_bin"
    BY <2>2 DEF EventsInv
  <2>3. CASE /\ Accepts("bin", frame)
             /\ pc' = IF frame.kind \in Tabled THEN "write_csv" ELSE "drain"
             /\ frame' = IF frame.kind \in Tabled THEN frame ELSE Nobody
    <3>1. Range(cache'["bin"]) = Range(cache["bin"]) \cup {frame}
      <4>1. cache'["bin"] = Append(cache["bin"], frame)
        BY <1>a, <2>3 DEF Accepts
      <4> QED BY <1>a, <4>1, RangeAppend
    <3>2. ~sync_now => \A r \in Range(cache'["bin"]) :
            r.kind = "EVENT" /\ r # frame => r.n \in Numbers(Log(session)')
      BY <2>1, <3>1 DEF EventsInv, EventsOn, Log
    <3>3. CASE frame.kind \in Tabled
      BY <2>1, <2>3, <3>2, <3>3 DEF EventsInv, Log
    <3>4. CASE frame.kind \notin Tabled
      <4>1. ~sync_now => EventsOn'
        BY <2>1, <3>2, <3>4 DEF EventsOn, Tabled, Log
      <4> QED BY <2>1, <2>3, <3>4, <4>1 DEF EventsInv
    <3> QED BY <3>3, <3>4
  <2> QED BY <1>6, <2>2, <2>3 DEF WriteBin
<1>7. CASE WriteCsv
  <2>1. /\ UNCHANGED <<disk, session, mounted>> /\ pc = "write_csv"
        /\ \/ pc' = "drain" /\ sync_now' = SyncNow
           \/ pc' = "close_bin"
        /\ cache'["bin"] = cache["bin"]
    BY <1>a, <1>7 DEF WriteCsv, write_csv, Accepts, Rejects
  <2>2. CASE pc' = "drain" /\ ~sync_now'
    <3>1. ~sync_now /\ frame.kind # "EVENT"
      BY <2>1, <2>2 DEF SyncNow
    <3>2. EventsOn'
      BY <2>1, <3>1 DEF EventsInv, EventsOn, Log
    <3> QED BY <2>2, <3>2 DEF EventsInv
  <2> QED BY <2>1, <2>2 DEF EventsInv
<1>8. CASE SyncCsv
  <2>1. CASE pc' = "close_bin"
    BY <2>1 DEF EventsInv
  <2>2. CASE pc' = "idle"
    <3>1. "bin" \notin dirty /\ Active /\ Active' /\ session \in Sessions
          /\ UNCHANGED <<session, cache>> /\ (SyncSucceeds("csv") \/ SyncFails("csv"))
          /\ mounted'
      BY <1>8, Constants DEF SyncCsv, PhaseInv, Active, NamesInv
    <3>2. "bin" \notin dirty'
      BY <1>a, <3>1, SyncStep DEF TypeInv
    <3>3. Log(session)' = cache'["bin"]
      BY <1>a, <3>1, <3>2 DEF OpenInv, Opened, Log
    <3>4. EventsOn'
      <4>1. TypeInv /\ Log(session) = cache["bin"] => EventsOn
        BY UpToDate
      <4>2. (TypeInv /\ Log(session) = cache["bin"] => EventsOn)'
        BY UpToDate, PTL
      <4> QED BY <3>3, <4>2
    <3> QED BY <2>2, <3>4 DEF EventsInv
  <2> QED BY <1>8, <2>1, <2>2 DEF SyncCsv
<1> QED
  BY <1>1, <1>2, <1>3, <1>4, <1>5, <1>6, <1>7, <1>8 DEF Next, StorageTask
-----------------------------------------------------------------------------
(* A good card, and the count of the records. *)

LEMMA GoodStep ==
  ASSUME StoreInv, RoomForNames, [Next]_vars
  PROVE  GoodInv' /\ (Good' => Good)
<1> USE DEF producer, local, timers, names, open, medium, volume, Good
<1> SUFFICES ASSUME TypeInv, PhaseInv, GoodInv PROVE GoodInv' /\ (Good' => Good)
  BY DEF StoreInv
<1>a. faults \in Nat /\ losses \in Nat /\ space \in Nat /\ Files = {"bin", "csv"}
      /\ cache \in [Files -> Seq(Record)] /\ ready \in BOOLEAN
  BY DEF TypeInv, Files
<1>b. ASSUME NEW f \in Files, SyncSucceeds(f) \/ SyncFails(f)
      PROVE  /\ faults' = 0 => faults = 0
             /\ faults = 0 /\ ready /\ card = "ok" /\ faults' = 0 =>
                  ready' = ready /\ card' = card /\ ~SyncFails(f)
  <2>1. /\ SyncSucceeds(f) => UNCHANGED <<ready, card, faults>>
        /\ SyncFails(f) => faults' > faults \/ ~ready \/ card # "ok"
        /\ faults' = faults \/ faults' = faults + 1
    BY <1>b, SyncStep DEF TypeInv
  <2> QED BY <1>a, <1>b, <2>1
<1>c. ASSUME NEW f \in Files, NEW r, Accepts(f, r) PROVE space > 0 /\ ready /\ ready' = ready
  BY <1>c DEF Accepts
<1>1. CASE (\E k \in Kinds : Push(k)) \/ UNCHANGED vars
  <2>1. UNCHANGED <<pc, mounted, ready, card, cache, dirty, faults, losses, space>>
    BY <1>1 DEF Push, vars
  <2> QED BY <2>1 DEF GoodInv, Active
<1>2. CASE Service
  BY <1>2 DEF Service, GoodInv, Active, PhaseInv
<1>3. CASE Mount
  BY <1>3, <1>a DEF Mount, Initialise, usable, TransferFails, GoodInv, Active, PhaseInv
<1>4. CASE Scan
  BY <1>4 DEF Scan, usable, TransferFails, GoodInv, Active, PhaseInv
<1>5. ASSUME NEW f \in Files, Open("bin", "open_bin", "open_csv") \/ Open("csv", "open_csv", "meta")
      PROVE  GoodInv' /\ (Good' => Good)
  BY <1>5 DEF Open, Initialise, usable, TransferFails, GoodInv, Active, PhaseInv
<1>6. CASE WriteMeta
  BY <1>6, <1>a DEF WriteMeta, Accepts, Rejects, TransferFails, GoodInv, Active, PhaseInv
<1>7. CASE FirstSyncBin
  BY <1>7, <1>a, <1>b DEF FirstSyncBin, GoodInv, Active, PhaseInv
<1>8. CASE FirstSyncCsv
  BY <1>8, <1>a, <1>b DEF FirstSyncCsv, GoodInv, Active, PhaseInv
<1>9. CASE Pop
  BY <1>9 DEF Pop, GoodInv, Active, PhaseInv
<1>10. CASE WriteBin
  BY <1>10, <1>a DEF WriteBin, Accepts, Rejects, TransferFails, GoodInv, Active, PhaseInv
<1>11. CASE WriteCsv
  BY <1>11, <1>a DEF WriteCsv, write_csv, Accepts, Rejects, TransferFails, GoodInv, Active, PhaseInv
<1>12. CASE SyncBin
  BY <1>12, <1>a, <1>b DEF SyncBin, GoodInv, Active, PhaseInv
<1>13. CASE SyncCsv
  BY <1>13, <1>a, <1>b DEF SyncCsv, GoodInv, Active, PhaseInv
<1>14. CASE CloseBin
  BY <1>14, <1>a, <1>b DEF CloseBin, GoodInv, Active, PhaseInv
<1>15. CASE CloseCsv
  BY <1>15, <1>a, <1>b DEF CloseCsv, GoodInv, Active, PhaseInv
<1>16. CASE CardFails
  BY <1>16, <1>a DEF CardFails, GoodInv
<1>17. CASE Insert
  BY <1>17 DEF Insert, GoodInv, Active, PhaseInv
<1>18. CASE PowerLoss
  BY <1>18, <1>a DEF PowerLoss, GoodInv
<1> QED
  BY <1>1, <1>2, <1>3, <1>4, <1>5, <1>6, <1>7, <1>8, <1>9, <1>10, <1>11, <1>12,
     <1>13, <1>14, <1>15, <1>16, <1>17, <1>18, <1>a
  DEF Next, StorageTask, OpenBin, OpenCsv, GoodInv
\* The records that are neither dropped nor lost.
Held == Numbers(queue) \cup InHand \cup Numbers(cache["bin"])

LEMMA CountKept ==
  ASSUME Accounted, Good' => Good, Held' = Held, UNCHANGED <<pushed, dropped>>
  PROVE  Accounted'
BY DEF Accounted, Good, Held

LEMMA CountStep ==
  ASSUME StoreInv, RoomForNames, [Next]_vars
  PROVE  Accounted'
<1> USE DEF producer, local, timers, names, open, medium, volume
<1> SUFFICES ASSUME TypeInv, PhaseInv, OrderInv, RowsInv, GoodInv, GoodInv',
                    Accounted, Good, Good'
             PROVE  Accounted'
  BY GoodStep DEF StoreInv, Accounted, Good
<1>a. /\ cache \in [Files -> Seq(Record)] /\ "bin" \in Files /\ "csv" \in Files
      /\ pushed \in Nat /\ dropped \in Nat /\ queue \in Seq(Queued)
      /\ frame \in Record /\ Queued \subseteq Record
      /\ pc' \notin {"close_bin", "close_csv"}
  BY DEF TypeInv, Files, Record, GoodInv
<1>b. Numbers(<<Nobody>>) = {} /\ Numbers(<<>>) = {}
  BY NumbersOne, NumbersNone DEF Nobody, Meta
<1>c. pushed = dropped + Cardinality(Held)
  BY DEF Accounted, Good, Held
<1>1. CASE \E k \in Kinds : Push(k)
  <2> PICK k \in Kinds : Push(k)
    BY <1>1
  <2> DEFINE r == [kind |-> k, n |-> pushed + 1]
  <2>1. /\ UNCHANGED <<frame, cache>>
        /\ \/ UNCHANGED <<queue, pushed, dropped>>
           \/ /\ queue' = queue /\ pushed' = pushed + 1 /\ dropped' = dropped + 1
           \/ /\ queue' = Append(queue, r) /\ pushed' = pushed + 1
              /\ dropped' = dropped
    BY DEF Push, push_frame
  <2>2. Held \subseteq 1 .. pushed
    BY DEF OrderInv, Held
  <2>3. IsFiniteSet(Held) /\ Cardinality(Held) \in Nat
    <3>1. IsFiniteSet(1 .. pushed)
      BY <1>a, FS_Interval
    <3>2. IsFiniteSet(Held)
      BY <2>2, <3>1, FS_Subset
    <3> QED BY <3>2, FS_CardinalityType
  <2>4. CASE UNCHANGED <<queue, pushed, dropped>>
    BY <2>1, <2>4, CountKept DEF Held, InHand
  <2>5. CASE queue' = queue /\ pushed' = pushed + 1 /\ dropped' = dropped + 1
    <3>1. Held' = Held
      BY <2>1, <2>5 DEF Held, InHand
    <3>2. pushed' = dropped' + Cardinality(Held')
      BY <1>a, <1>c, <2>3, <2>5, <3>1
    <3> QED BY <3>2 DEF Accounted, Held
  <2>6. CASE queue' = Append(queue, r) /\ pushed' = pushed + 1 /\ dropped' = dropped
    <3>1. r \in Queued /\ Numbers(<<r>>) = {pushed + 1}
      BY <1>a, NumbersOne DEF Queued
    <3>2. Numbers(queue') = Numbers(queue) \cup {pushed + 1}
      BY <1>a, <2>6, <3>1, NumbersAppend
    <3>3. Held' = Held \cup {pushed + 1}
      BY <2>1, <3>2 DEF Held, InHand
    <3>4. pushed + 1 \notin Held
      BY <1>a, <2>2
    <3>5. Cardinality(Held') = Cardinality(Held) + 1
      BY <2>3, <3>3, <3>4, FS_AddElement
    <3>6. pushed' = dropped' + Cardinality(Held')
      BY <1>a, <1>c, <2>3, <2>6, <3>5
    <3> QED BY <3>6 DEF Accounted, Held
  <2> QED BY <2>1, <2>4, <2>5, <2>6
<1>2. CASE Mount
  <2>1. /\ cache["bin"] = <<>> /\ cache'["bin"] = <<>>
        /\ UNCHANGED <<queue, frame, pushed, dropped>>
    BY <1>2, <1>a DEF Mount, GoodInv, PhaseInv
  <2> QED BY <2>1, CountKept DEF Held, InHand
<1>3. CASE WriteMeta
  <2>1. /\ UNCHANGED <<queue, frame, pushed, dropped>> /\ cache["bin"] = <<>>
        /\ cache'["bin"] = Append(<<>>, Meta)
    BY <1>3, <1>a DEF WriteMeta, Accepts, PhaseInv, NoRecords
  <2>2. Numbers(cache'["bin"]) = Numbers(cache["bin"])
    BY <1>b, <2>1 DEF Nobody
  <2> QED BY <2>1, <2>2, CountKept DEF Held, InHand
<1>4. CASE Pop
  <2>1. UNCHANGED <<cache, pushed, dropped>> /\ frame = Nobody
    BY <1>4 DEF Pop, PhaseInv
  <2>2. CASE UNCHANGED <<queue, frame>>
    BY <2>1, <2>2, CountKept DEF Held, InHand
  <2>3. CASE queue # <<>> /\ frame' = Head(queue) /\ queue' = Tail(queue)
    <3>1. Numbers(queue) = InHand' \cup Numbers(queue')
      BY <1>a, <2>3, NumbersTail DEF InHand
    <3>2. Held' = Held
      BY <1>b, <2>1, <3>1 DEF Held, InHand
    <3> QED BY <2>1, <3>2, CountKept
  <2> QED BY <1>4, <2>2, <2>3 DEF Pop
<1>5. CASE WriteBin
  <2>1. /\ UNCHANGED <<queue, pushed, dropped>> /\ frame' \in {frame, Nobody}
        /\ cache'["bin"] = Append(cache["bin"], frame)
    BY <1>5, <1>a DEF WriteBin, Accepts
  <2>2. Numbers(cache'["bin"]) = Numbers(cache["bin"]) \cup InHand
    BY <1>a, <2>1, NumbersAppend DEF InHand
  <2>3. InHand' \subseteq InHand
    BY <1>b, <2>1 DEF InHand
  <2>4. Held' = Held
    BY <2>1, <2>2, <2>3 DEF Held
  <2> QED BY <2>1, <2>4, CountKept
<1>6. CASE WriteCsv
  <2>1. /\ UNCHANGED <<queue, pushed, dropped>> /\ frame' = Nobody
        /\ cache'["bin"] = cache["bin"] /\ pc = "write_csv"
    BY <1>6, <1>a DEF WriteCsv, write_csv, Accepts, Rejects
  <2>2. InHand \subseteq Numbers(cache["bin"]) /\ InHand' = {}
    BY <1>b, <2>1 DEF RowsInv, InHand
  <2>3. Held' = Held
    BY <2>1, <2>2 DEF Held
  <2> QED BY <2>1, <2>3, CountKept
<1>7. CASE PowerLoss
  <2>1. losses' = losses + 1 /\ losses = 0 /\ losses' = 0
    BY <1>7 DEF PowerLoss, Good
  <2> QED BY <2>1
<1>8. CASE \/ Service \/ Scan \/ OpenBin \/ OpenCsv \/ FirstSyncBin \/ FirstSyncCsv
           \/ SyncBin \/ SyncCsv \/ CloseBin \/ CloseCsv \/ CardFails \/ Insert
           \/ UNCHANGED vars
  <2>1. UNCHANGED <<queue, frame, cache, pushed, dropped>>
    BY <1>8 DEF Service, Scan, OpenBin, OpenCsv, Open, FirstSyncBin, FirstSyncCsv,
                SyncBin, SyncCsv, CloseBin, CloseCsv, CardFails, Insert, vars
  <2> QED BY <2>1, CountKept DEF Held, InHand
<1> QED
  BY <1>1, <1>2, <1>3, <1>4, <1>5, <1>6, <1>7, <1>8 DEF Next, StorageTask

-----------------------------------------------------------------------------
(* The theorems. *)

LEMMA StoreInit ==
  ASSUME RoomForNames, Init
  PROVE  StoreInv
<1> USE DEF Init
<1>1. /\ Numbers(<<>>) = {} /\ Numbers(<<Meta>>) = {} /\ Increasing(<<>>)
      /\ Increasing(<<Meta>>) /\ <<>> \in Seq(Queued) /\ <<>> \in Seq(Record)
      /\ Meta \in Record
  BY NumbersOne, NumbersNone, EmptySeq DEF Meta, Increasing, Record
<1>2. cache = NoRecords /\ cache \in [Files -> Seq(Record)] /\ cache["bin"] = <<>>
      /\ cache["csv"] = <<>> /\ frame = Meta /\ ~Active
  BY <1>1 DEF NoRecords, Files, Nobody, Active
<1>3. \A s \in Sessions : \A f \in Files :
        disk[s][f] = IF s \in OldSessions /\ f = "bin" THEN <<Meta>> ELSE <<>>
  OBVIOUS
<1>4. disk \in [Sessions -> [Files -> Seq(Record)]]
  <2>1. <<Meta>> \in Seq(Record)
    BY <1>1
  <2> QED BY <1>1, <2>1
<1>5. \A s \in Sessions : /\ Log(s) = <<>> \/ Log(s) = <<Meta>>
                          /\ disk[s]["csv"] = <<>>
  BY <1>3 DEF Log, Files
<1>6. InHand = {} /\ \A s \in Sessions : Numbers(Log(s)) = {} /\ Increasing(Log(s))
  BY <1>1, <1>2, <1>5 DEF InHand
<1>7. TypeInv
  BY <1>1, <1>2, <1>4, Constants, StorageAssumption DEF TypeInv, Steps
<1>8. PhaseInv
  BY <1>2 DEF PhaseInv, Nobody
<1>9. NamesInv
  <2>1. ASSUME NEW s \in Sessions \ exists PROVE disk[s] = NoRecords
    <3>1. disk[s] = [f \in Files |-> IF s \in OldSessions /\ f = "bin"
                                    THEN <<Meta>> ELSE <<>>]
      OBVIOUS
    <3>2. s \notin OldSessions
      OBVIOUS
    <3> QED BY <3>1, <3>2 DEF NoRecords
  <2> QED BY <1>2, <2>1 DEF NamesInv
<1>10. OpenInv
  BY <1>2 DEF OpenInv
<1>11. OrderInv
  BY <1>1, <1>2, <1>6 DEF OrderInv, Ordered, Before
<1>12. RowsInv
  BY <1>1, <1>2, <1>5 DEF RowsInv, CsvInBin
<1>13. EventsInv
  BY DEF EventsInv
<1>14. GoodInv
  BY <1>2 DEF GoodInv
<1>15. Accounted
  <2>1. Numbers(queue) \cup InHand \cup Numbers(cache["bin"]) = {}
    BY <1>1, <1>2, <1>6
  <2>2. Cardinality(Numbers(queue) \cup InHand \cup Numbers(cache["bin"])) = 0
    BY <2>1, FS_EmptySet
  <2>3. pushed = 0 /\ dropped = 0
    OBVIOUS
  <2> QED BY <2>2, <2>3 DEF Accounted
<1> QED
  BY <1>7, <1>8, <1>9, <1>10, <1>11, <1>12, <1>13, <1>14, <1>15 DEF StoreInv

LEMMA StoreStep ==
  ASSUME StoreInv, RoomForNames, [Next]_vars
  PROVE  StoreInv'
BY TypeStep, PhaseStep, NamesStep, OpenStep, OrderStep, RowsStep, EventsStep,
   GoodStep, CountStep DEF StoreInv

(* The service, the files and the queue agree for ever (storage.c).        *)
THEOREM StoreHolds ==
  ASSUME RoomForNames
  PROVE  Spec => []StoreInv
<1>1. Init => StoreInv
  BY StoreInit
<1>2. StoreInv /\ [Next]_vars => StoreInv'
  BY StoreStep
<1> QED
  BY <1>1, <1>2, PTL DEF Spec

(* Every row of a CSV file tells of a frame in its BIN file, whichever     *)
(* f_write or f_sync fails and whenever the power goes (drain_queue,       *)
(* hk_storage_service, fs_failed).                                         *)
THEOREM RowsHaveFrames ==
  ASSUME RoomForNames
  PROVE  Spec => []CsvInBin
<1>1. StoreInv => CsvInBin
  BY DEF StoreInv, RowsInv
<1> QED
  BY StoreHolds, <1>1, PTL

(* Session after session the log holds records once and in the order they *)
(* were pushed, and none that is still in the queue (push_frame,           *)
(* drain_queue, next_session_index).                                       *)
THEOREM LogOrdered ==
  ASSUME RoomForNames
  PROVE  Spec => []Ordered
<1>1. StoreInv => Ordered
  BY DEF StoreInv, OrderInv
<1> QED
  BY StoreHolds, <1>1, PTL

(* When hk_storage_service returns with the card mounted, every EVENT it   *)
(* has taken from the queue is on the card (sync_now).                     *)
THEOREM EventsOnCard ==
  ASSUME RoomForNames
  PROVE  Spec => []EventsDurable
<1>1. StoreInv => EventsDurable
  BY DEF StoreInv, EventsInv, EventsDurable, EventsOn, Log
<1> QED
  BY StoreHolds, <1>1, PTL

(* As long as card and power are good, a record is in the queue, in the    *)
(* log or counted in dropped (push_frame, drain_queue).                    *)
THEOREM NoneForgotten ==
  ASSUME RoomForNames
  PROVE  Spec => []Accounted
<1>1. StoreInv => Accounted
  BY DEF StoreInv
<1> QED
  BY StoreHolds, <1>1, PTL

(* Whatever call fails, the scan included, no step shortens or rewrites a  *)
(* file that is on the card, but those of a session that a cut scan has    *)
(* put too low: every other session is new when it is opened, and a sync   *)
(* only adds to it (FA_CREATE_ALWAYS, next_session_index, f_sync).         *)
THEOREM LogAppendOnly ==
  ASSUME RoomForNames
  PROVE  Spec => AppendOnly
<1> DEFINE Grows == \A s \in Sessions \ misnumbered, f \in Files :
                      IsPrefix(disk[s][f], disk'[s][f])
<1>1. StoreInv /\ [Next]_vars => [Grows]_vars
  <2> SUFFICES ASSUME StoreInv, Next PROVE Grows
    OBVIOUS
  <2> USE DEF producer, local, timers, names, open, medium, volume
  <2>a. TypeInv /\ PhaseInv /\ NamesInv /\ OpenInv
    BY DEF StoreInv
  <2>b. (\A s \in Sessions \ misnumbered : disk'[s] = disk[s]) => Grows
    <3>1. \A s \in Sessions, f \in Files : disk[s][f] \in Seq(Record)
      BY <2>a DEF TypeInv
    <3> QED BY <3>1, PrefixFacts
  <2>1. ASSUME NEW f \in Files, Open(f, "open_bin", "open_csv") \/ Open(f, "open_csv", "meta")
        PROVE  Grows
    BY <2>1, <2>a, <2>b, OpenKeeps
  <2>2. ASSUME NEW f \in Files, SyncSucceeds(f) \/ SyncFails(f), Active
        PROVE  Grows
    <3>1. session \in Sessions
      BY <2>a, <2>2, Constants DEF NamesInv
    <3>2. CASE Written(f)
      <4>1. \A s \in Sessions, g \in Files :
              disk'[s][g] = IF s = session /\ g = f THEN cache[f] ELSE disk[s][g]
        BY <2>a, <3>1, <3>2, Stored DEF TypeInv
      <4>2. session \notin misnumbered => IsPrefix(disk[session][f], cache[f])
        BY <2>a, <2>2 DEF OpenInv, Opened
      <4>3. \A s \in Sessions, g \in Files : disk[s][g] \in Seq(Record)
        BY <2>a DEF TypeInv
      <4>4. \A s \in Sessions, g \in Files : IsPrefix(disk[s][g], disk[s][g])
        BY <4>3, PrefixFacts
      <4> QED BY <4>1, <4>2, <4>4
    <3> QED BY <2>a, <2>b, <2>2, <3>2, SyncStep DEF TypeInv
  <2>3. CASE FirstSyncBin \/ FirstSyncCsv \/ SyncBin \/ SyncCsv \/ CloseBin \/ CloseCsv
    <3>1. Active /\ \E f \in Files : SyncSucceeds(f) \/ SyncFails(f)
      BY <2>3 DEF Active, FirstSyncBin, FirstSyncCsv, SyncBin, SyncCsv,
                  CloseBin, CloseCsv, Files
    <3> QED BY <2>2, <3>1
  <2>4. CASE \/ \E k \in Kinds : Push(k)
             \/ Service \/ Mount \/ Scan \/ WriteMeta \/ Pop \/ WriteBin \/ WriteCsv
             \/ CardFails \/ Insert \/ PowerLoss
    <3>1. disk' = disk
      BY <2>4 DEF Push, Service, Mount, Scan, WriteMeta, Pop, WriteBin, WriteCsv,
                  CardFails, Insert, PowerLoss
    <3> QED BY <2>b, <3>1
  <2>5. CASE OpenBin \/ OpenCsv
    BY <2>1, <2>5 DEF OpenBin, OpenCsv, Files
  <2> QED BY <2>3, <2>4, <2>5 DEF Next, StorageTask
<1> QED
  BY StoreHolds, <1>1, PTL DEF Spec, AppendOnly
=============================================================================
