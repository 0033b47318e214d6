--------------------------- MODULE WorkspaceProofs ---------------------------
(* What TLAPS proves of Workspace for every value of its constants: that the  *)
(* window has no gap it does not know of, and that reconcile takes no living  *)
(* terminal for a dead one.                                                   *)
EXTENDS Workspace, TLAPS

-----------------------------------------------------------------------------
(* The inductive invariant behind NoHiddenGap, over values: l a log, p the    *)
(* publications to come, c a cursor, q a queue.                               *)

Change == [seq : Nat, store : Stores]

\* The ring holds the newest changes, numbered without a hole up to l.seq.
LogOK(l) ==
  /\ l \in [epoch : Nat \ {0}, seq : Nat, ring : Seq(Change)]
  /\ Len(l.ring) <= l.seq
  /\ l.ring = <<>> => l.seq = 0
  /\ \A i \in 1 .. Len(l.ring) : l.ring[i].seq = l.seq - Len(l.ring) + i

CanResume(l, c) ==
  /\ c.epoch = l.epoch /\ c.seq <= l.seq
  /\ l.ring = <<>> \/ c.seq + 1 >= l.ring[1].seq
Names(l, n, s) == \E i \in 1 .. Len(l.ring) : l.ring[i].seq > n /\ l.ring[i].store = s

\* A window that subscribes from c is going to read s.
Owed(l, p, c, s) == p[s] > 0 \/ ~CanResume(l, c) \/ Names(l, c.seq, s)
\* A window with q on its way, from number n on, is: by a change of q, or by
\* what comes after it.
Ahead(l, p, q, n, s) ==
  \/ \E j \in 1 .. Len(q) : q[j].store = s
  \/ Owed(l, p, [epoch |-> l.epoch, seq |-> n + Len(q)], s)

\* q holds changes n + 1, n + 2, ... of the log.
Follows(l, q, n) ==
  /\ n + Len(q) <= l.seq
  /\ \A j \in 1 .. Len(q) :
       /\ q[j].seq = n + j
       /\ \A i \in 1 .. Len(l.ring) : l.ring[i].seq = n + j => l.ring[i].store = q[j].store

\* The number the window's queue goes on from.
Base == IF sub.at \in {"owed", "sent"} THEN sub.mark ELSE cursor.seq

StreamTypes ==
  /\ LogOK(log)
  /\ pubs \in [Stores -> Nat]
  /\ sub \in [at : {"off", "owed", "sent", "on", "asked"}, mark : Nat,
              rx : Seq(Change), over : BOOLEAN, since : SUBSET Parts]
  /\ cursor \in [epoch : Nat, seq : Nat]
  /\ stale \subseteq Parts

Connected ==
  /\ cursor.epoch <= log.epoch
  /\ cursor.epoch = log.epoch => cursor.seq <= log.seq
  /\ sub.at \in {"on", "asked"} => cursor.epoch = log.epoch
  /\ sub.at \notin {"sent", "asked"} => sub.since = {}
  /\ sub.at = "asked" => sub.rx # <<>>
  /\ sub.at # "off" => Follows(log, sub.rx, Base)
  /\ sub.at # "off" /\ ~sub.over => Base + Len(sub.rx) = log.seq

NoGap ==
  /\ sub.at \in {"off", "owed", "sent"} => \A s \in stale \ {Notice} : Owed(log, pubs, cursor, s)
  /\ sub.at \in {"on", "asked"} => \A s \in stale \ {Notice} : Ahead(log, pubs, sub.rx, cursor.seq, s)
  /\ sub.at = "sent" => \A s \in sub.since \ {Notice} : Ahead(log, pubs, sub.rx, sub.mark, s)
  /\ sub.at = "asked" =>
       \A s \in sub.since \ {Notice} : Ahead(log, pubs, Tail(sub.rx), cursor.seq + 1, s)

StreamInv == StreamTypes /\ Connected /\ NoGap

\* What Publish makes of a log.
Grown(l, x) ==
  [epoch |-> l.epoch, seq |-> l.seq + 1,
   ring |-> Ring(Append(l.ring, [seq |-> l.seq + 1, store |-> x]))]
\* m has one change more than l, and perhaps lost the oldest.
Extends(l, m, x) ==
  /\ m \in [epoch : Nat \ {0}, seq : Nat, ring : Seq(Change)]
  /\ m.epoch = l.epoch /\ m.seq = l.seq + 1
  /\ m.ring # <<>> /\ Len(m.ring) \in Nat \ {0}
  /\ m.ring[Len(m.ring)] = [seq |-> l.seq + 1, store |-> x]
  /\ \/ /\ Len(m.ring) = Len(l.ring) + 1
        /\ \A i \in 1 .. Len(l.ring) : m.ring[i] = l.ring[i]
     \/ /\ Len(m.ring) = Len(l.ring)
        /\ \A i \in 1 .. Len(l.ring) - 1 : m.ring[i] = l.ring[i + 1]

\* ... and of the publications to come.
Fewer(p, x) == [p EXCEPT ![x] = @ - 1]

-----------------------------------------------------------------------------
(* Lemmas about logs and queues.                                              *)

\* Every part but the line of a message is a store, and goes by its name.
LEMMA PartNames ==
  /\ Notice \notin Stores
  /\ \A A \in SUBSET Parts : A \ {Notice} \subseteq Stores
  /\ \A p \in Parts \ {Notice} : StoreOf(p) = p
  /\ \A s : PartsOf(s) \subseteq Parts
  /\ \A s : \A p \in Parts \ {Notice} : p \notin PartsOf(s) => p # s
  /\ \A s : \A p \in PartsOf(s) \ {Notice} : p = s
BY DEF Notice, Stores, HARNESS_STORES, Parts, StoreOf, PartsOf

\* Publishing appends the change to the ring, which may lose its oldest.
LEMMA GrownRing ==
  ASSUME NEW l, LogOK(l), NEW x \in Stores
  PROVE  Extends(l, Grown(l, x), x)
<1> DEFINE ch == [seq |-> l.seq + 1, store |-> x]
           q == Append(l.ring, ch)
           m == Grown(l, x)
<1>1. ch \in Change /\ l.ring \in Seq(Change) /\ l.seq \in Nat /\ l.epoch \in Nat \ {0}
  BY DEF LogOK, Change
<1>2. /\ q \in Seq(Change) /\ q # <<>> /\ Len(q) = Len(l.ring) + 1 /\ Len(l.ring) \in Nat
      /\ q[Len(l.ring) + 1] = ch
      /\ \A i \in 1 .. Len(l.ring) : q[i] = l.ring[i]
  BY <1>1
<1>3. m = [epoch |-> l.epoch, seq |-> l.seq + 1, ring |-> Ring(q)]
  BY DEF Grown
<1>4. CASE Len(q) > Window
  <2>1. Ring(q) = Tail(q)
    BY <1>4 DEF Ring
  <2>2. /\ Tail(q) \in Seq(Change) /\ Len(Tail(q)) = Len(q) - 1
        /\ \A i \in 1 .. Len(Tail(q)) : Tail(q)[i] = q[i + 1]
    BY <1>2
  <2>3. Len(Tail(q)) = Len(l.ring) /\ Len(l.ring) >= 1
    BY <2>2, <1>2, <1>4, StreamAssumption
  <2>4. Tail(q)[Len(Tail(q))] = ch /\ Tail(q) # <<>>
    BY <2>2, <2>3, <1>2
  <2>5. \A i \in 1 .. Len(l.ring) - 1 : Tail(q)[i] = l.ring[i + 1]
    BY <2>2, <2>3, <1>2
  <2> QED
    <3>1. m = [epoch |-> l.epoch, seq |-> l.seq + 1, ring |-> Tail(q)]
      BY <1>3, <2>1
    <3> HIDE DEF m, q, ch
    <3>2. Len(Tail(q)) = Len(l.ring) /\ Len(Tail(q)) \in Nat \ {0}
      BY <2>3, <1>2
    <3>3. /\ m \in [epoch : Nat \ {0}, seq : Nat, ring : Seq(Change)]
          /\ m.epoch = l.epoch /\ m.seq = l.seq + 1 /\ m.ring = Tail(q)
      BY <3>1, <2>2, <1>1
    <3>4. ch = [seq |-> l.seq + 1, store |-> x]
      BY DEF ch
    <3> QED
      BY <3>2, <3>3, <3>4, <2>4, <2>5 DEF Extends, m
<1>5. CASE ~(Len(q) > Window)
  <2>1. Ring(q) = q
    BY <1>5 DEF Ring
  <2> QED
    <3>1. m = [epoch |-> l.epoch, seq |-> l.seq + 1, ring |-> q]
      BY <1>3, <2>1
    <3> HIDE DEF m, q, ch
    <3>2. Len(q) \in Nat \ {0} /\ q[Len(q)] = ch
      BY <1>2
    <3>3. /\ m \in [epoch : Nat \ {0}, seq : Nat, ring : Seq(Change)]
          /\ m.epoch = l.epoch /\ m.seq = l.seq + 1 /\ m.ring = q
      BY <3>1, <1>1, <1>2
    <3>4. ch = [seq |-> l.seq + 1, store |-> x]
      BY DEF ch
    <3> QED
      BY <3>2, <3>3, <3>4, <1>2 DEF Extends, m
<1> QED
  BY <1>4, <1>5

\* A published log is one.
LEMMA ExtendsOK ==
  ASSUME NEW l, LogOK(l), NEW m, NEW x, Extends(l, m, x)
  PROVE  LogOK(m)
<1>1. /\ l.seq \in Nat /\ Len(l.ring) \in Nat /\ Len(l.ring) <= l.seq
      /\ \A i \in 1 .. Len(l.ring) : l.ring[i].seq = l.seq - Len(l.ring) + i
  BY DEF LogOK
<1>2. /\ m.seq = l.seq + 1 /\ m.ring # <<>> /\ Len(m.ring) \in Nat
      /\ m.ring[Len(m.ring)].seq = l.seq + 1
      /\ m \in [epoch : Nat \ {0}, seq : Nat, ring : Seq(Change)]
  BY DEF Extends
<1>3. CASE /\ Len(m.ring) = Len(l.ring) + 1
           /\ \A i \in 1 .. Len(l.ring) : m.ring[i] = l.ring[i]
  <2>1. ASSUME NEW i \in 1 .. Len(m.ring)
        PROVE  m.ring[i].seq = m.seq - Len(m.ring) + i
    <3>1. CASE i = Len(m.ring)
      BY <3>1, <1>1, <1>2
    <3>2. CASE i # Len(m.ring)
      <4>1. i \in 1 .. Len(l.ring) /\ m.ring[i] = l.ring[i]
        BY <3>2, <1>1, <1>2, <1>3
      <4>2. m.ring[i].seq = l.seq - Len(l.ring) + i
        BY <4>1, <1>1
      <4> QED
        BY <4>2, <1>1, <1>2, <1>3
    <3> QED
      BY <3>1, <3>2
  <2>2. Len(m.ring) <= m.seq
    BY <1>1, <1>2, <1>3
  <2> QED
    BY <2>1, <2>2, <1>2 DEF LogOK
<1>4. CASE /\ Len(m.ring) = Len(l.ring)
           /\ \A i \in 1 .. Len(l.ring) - 1 : m.ring[i] = l.ring[i + 1]
  <2>1. ASSUME NEW i \in 1 .. Len(m.ring)
        PROVE  m.ring[i].seq = m.seq - Len(m.ring) + i
    <3>1. CASE i = Len(m.ring)
      BY <3>1, <1>1, <1>2
    <3>2. CASE i # Len(m.ring)
      <4>1. i \in 1 .. Len(l.ring) - 1 /\ m.ring[i] = l.ring[i + 1]
        BY <3>2, <1>1, <1>2, <1>4
      <4>2. m.ring[i].seq = l.seq - Len(l.ring) + (i + 1)
        BY <4>1, <1>1
      <4>3. Len(m.ring) = Len(l.ring)
        BY <1>4
      <4>4. m.seq = l.seq + 1 /\ l.seq \in Int /\ Len(l.ring) \in Int /\ i \in Int
        BY <4>1, <1>1, <1>2
      <4>5. l.seq - Len(l.ring) + (i + 1) = l.seq + 1 - Len(l.ring) + i
        BY <4>4
      <4> QED
        BY <4>2, <4>3, <4>4, <4>5
    <3> QED
      BY <3>1, <3>2
  <2>2. Len(m.ring) <= m.seq
    BY <1>1, <1>2, <1>4
  <2> QED
    BY <2>1, <2>2, <1>2 DEF LogOK
<1> QED
  BY <1>3, <1>4 DEF Extends

\* A name that is owed at a cursor is owed after a publication: the change
\* that names it is newer than the cursor, or has left the ring, which then
\* no longer reaches back to the cursor.
LEMMA OwedStays ==
  ASSUME NEW l, LogOK(l), NEW m, NEW x \in Stores, Extends(l, m, x), NEW s \in Stores,
         NEW p \in [Stores -> Nat], p[x] > 0,
         NEW c \in [epoch : Nat, seq : Nat], c.epoch = l.epoch => c.seq <= l.seq,
         Owed(l, p, c, s)
  PROVE  Owed(m, Fewer(p, x), c, s)
<1>1. /\ l.seq \in Nat /\ Len(l.ring) \in Nat /\ c.seq \in Nat
      /\ \A i \in 1 .. Len(l.ring) : l.ring[i].seq = l.seq - Len(l.ring) + i
      /\ l.ring = <<>> => l.seq = 0
      /\ l.ring # <<>> => Len(l.ring) >= 1
  BY DEF LogOK
<1>2. /\ m.epoch = l.epoch /\ m.seq = l.seq + 1 /\ m.ring # <<>> /\ Len(m.ring) \in Nat \ {0}
      /\ m.ring[Len(m.ring)] = [seq |-> l.seq + 1, store |-> x]
  BY DEF Extends
<1>3. \A i \in 1 .. Len(m.ring) : m.ring[i].seq = l.seq + 1 - Len(m.ring) + i
  <2>1. \A i \in 1 .. Len(m.ring) : m.ring[i].seq = m.seq - Len(m.ring) + i
    BY ExtendsOK DEF LogOK
  <2> QED
    BY <2>1, <1>1, <1>2
<1>4. CASE p[s] > 0
  <2>1. CASE s = x
    <3>1. Names(m, c.seq, s) \/ ~CanResume(m, c)
      <4>1. CASE c.epoch = l.epoch
        BY <2>1, <4>1, <1>1, <1>2 DEF Names
      <4>2. CASE c.epoch # l.epoch
        BY <4>2, <1>2 DEF CanResume
      <4> QED
        BY <4>1, <4>2
    <3> QED
      BY <3>1 DEF Owed
  <2>2. CASE s # x
    <3>1. Fewer(p, x)[s] = p[s]
      BY <2>2 DEF Fewer
    <3> QED
      BY <3>1, <1>4 DEF Owed
  <2> QED
    BY <2>1, <2>2
<1>5. CASE ~CanResume(l, c)
  <2>1. CASE c.epoch # l.epoch
    BY <2>1, <1>2 DEF Owed, CanResume
  <2>2. CASE c.epoch = l.epoch
    <3>1. l.ring # <<>> /\ ~(c.seq + 1 >= l.ring[1].seq)
      BY <2>2, <1>5 DEF CanResume
    <3>2. ~(c.seq + 1 >= m.ring[1].seq)
      <4>1. l.ring[1].seq = l.seq - Len(l.ring) + 1 /\ Len(l.ring) >= 1
        BY <3>1, <1>1
      <4>2. m.ring[1].seq = l.seq + 1 - Len(m.ring) + 1
        BY <1>2, <1>3
      <4>3. Len(m.ring) = Len(l.ring) + 1 \/ Len(m.ring) = Len(l.ring)
        BY DEF Extends
      <4>4. l.seq \in Nat /\ Len(l.ring) \in Nat /\ c.seq \in Nat
        BY <1>1
      <4> DEFINE a == l.seq
                 k == Len(l.ring)
                 b == Len(m.ring)
                 f == l.ring[1].seq
                 g == m.ring[1].seq
                 n == c.seq
      <4>5. /\ a \in Nat /\ k \in Nat /\ n \in Nat /\ (b = k + 1 \/ b = k)
            /\ f = a - k + 1 /\ g = a + 1 - b + 1 /\ ~(n + 1 >= f)
        BY <3>1, <4>1, <4>2, <4>3, <4>4
      <4> HIDE DEF a, k, b, f, g, n
      <4>6. ~(n + 1 >= g)
        BY <4>5
      <4> QED
        BY <4>6 DEF g, n
    <3>3. ~CanResume(m, c)
      BY <3>2, <1>2 DEF CanResume
    <3> QED
      BY <3>3 DEF Owed
  <2> QED
    BY <2>1, <2>2
<1>6. CASE Names(l, c.seq, s)
  <2>1. PICK i \in 1 .. Len(l.ring) : l.ring[i].seq > c.seq /\ l.ring[i].store = s
    BY <1>6 DEF Names
  <2>2. CASE /\ Len(m.ring) = Len(l.ring) + 1
             /\ \A j \in 1 .. Len(l.ring) : m.ring[j] = l.ring[j]
    <3>1. i \in 1 .. Len(m.ring) /\ m.ring[i] = l.ring[i]
      BY <2>2, <1>1, <1>2
    <3> QED
      BY <3>1, <2>1 DEF Owed, Names
  <2>3. CASE /\ Len(m.ring) = Len(l.ring)
             /\ \A j \in 1 .. Len(l.ring) - 1 : m.ring[j] = l.ring[j + 1]
    <3>1. CASE i = 1
      <4>1. l.ring[1].seq = l.seq - Len(l.ring) + 1
        BY <1>1
      <4>2. m.ring[1].seq = l.seq + 1 - Len(l.ring) + 1
        BY <2>3, <1>2, <1>3
      <4>3. ~(c.seq + 1 >= m.ring[1].seq)
        BY <2>1, <3>1, <4>1, <4>2, <1>1
      <4>4. ~CanResume(m, c)
        BY <4>3, <1>2 DEF CanResume
      <4> QED
        BY <4>4 DEF Owed
    <3>2. CASE i # 1
      <4>1. i - 1 \in 1 .. Len(l.ring) - 1 /\ (i - 1) + 1 = i
        BY <3>2, <1>1
      <4>2. i - 1 \in 1 .. Len(m.ring) /\ m.ring[i - 1] = l.ring[i]
        BY <4>1, <2>3, <1>1
      <4> QED
        BY <4>2, <2>1 DEF Owed, Names
    <3> QED
      BY <3>1, <3>2
  <2> QED
    BY <2>2, <2>3 DEF Extends
<1> QED
  BY <1>4, <1>5, <1>6 DEF Owed

\* A connection that ends leaves the window where its cursor is.
LEMMA AheadOwed ==
  ASSUME NEW l, LogOK(l), NEW p, NEW s, NEW q \in Seq(Change), NEW n \in Nat,
         Follows(l, q, n), Ahead(l, p, q, n, s),
         NEW c \in [epoch : Nat, seq : Nat], c.epoch = l.epoch, c.seq = n
  PROVE  Owed(l, p, c, s)
<1>1. /\ l.seq \in Nat /\ Len(l.ring) \in Nat /\ Len(q) \in Nat /\ n + Len(q) <= l.seq
      /\ \A i \in 1 .. Len(l.ring) : l.ring[i].seq = l.seq - Len(l.ring) + i
      /\ l.ring = <<>> => l.seq = 0
      /\ l.ring # <<>> => Len(l.ring) >= 1
  BY DEF LogOK, Follows
<1>2. CASE \E j \in 1 .. Len(q) : q[j].store = s
  <2>1. PICK j \in 1 .. Len(q) : q[j].store = s
    BY <1>2
  <2>2. /\ n + j <= l.seq /\ j >= 1 /\ j \in Nat
        /\ \A i \in 1 .. Len(l.ring) : l.ring[i].seq = n + j => l.ring[i].store = s
    <3>1. Len(q) \in Nat /\ l.seq \in Nat /\ n + Len(q) <= l.seq
      BY <1>1
    <3>2. n + j <= l.seq /\ j >= 1 /\ j \in Nat
      BY <3>1
    <3>3. \A i \in 1 .. Len(l.ring) : l.ring[i].seq = n + j => l.ring[i].store = s
      BY <2>1 DEF Follows
    <3> QED
      BY <3>2, <3>3
  <2>3. SUFFICES ASSUME CanResume(l, c) PROVE Names(l, n, s)
    BY DEF Owed
  <2>4. l.ring # <<>> /\ n + 1 >= l.seq - Len(l.ring) + 1
    <3>1. l.ring # <<>>
      BY <2>2, <1>1
    <3>2. l.ring[1].seq = l.seq - Len(l.ring) + 1
      BY <3>1, <1>1
    <3> QED
      BY <3>1, <3>2, <2>3 DEF CanResume
  <2> DEFINE i == n + j - l.seq + Len(l.ring)
  <2>5. i \in 1 .. Len(l.ring) /\ l.seq - Len(l.ring) + i = n + j
    <3>1. l.seq \in Nat /\ Len(l.ring) \in Nat /\ j \in Nat
      BY <2>2, <1>1
    <3>2. n + j <= l.seq /\ j >= 1 /\ n + 1 >= l.seq - Len(l.ring) + 1
      BY <2>2, <2>4
    <3> HIDE DEF i
    <3>3. i = n + j - l.seq + Len(l.ring)
      BY DEF i
    <3> DEFINE a == l.seq
               k == Len(l.ring)
    <3> HIDE DEF a, k
    <3>4. /\ a \in Nat /\ k \in Nat /\ n + j <= a /\ n + 1 >= a - k + 1
          /\ i = n + j - a + k
      BY <3>1, <3>2, <3>3 DEF a, k
    <3>5. i \in 1 .. k /\ a - k + i = n + j
      BY <3>1, <3>2, <3>4
    <3> QED
      BY <3>5 DEF a, k
  <2> HIDE DEF i
  <2>6. l.ring[i].seq = n + j
    BY <2>5, <1>1
  <2>7. l.ring[i].store = s /\ l.ring[i].seq > n
    BY <2>2, <2>5, <2>6
  <2> QED
    BY <2>5, <2>7 DEF Names
<1>3. CASE Owed(l, p, [epoch |-> l.epoch, seq |-> n + Len(q)], s)
  <2>1. CASE p[s] > 0
    BY <2>1 DEF Owed
  <2>2. CASE ~CanResume(l, [epoch |-> l.epoch, seq |-> n + Len(q)])
    <3>1. l.ring # <<>> /\ ~(n + Len(q) + 1 >= l.ring[1].seq)
      BY <2>2, <1>1 DEF CanResume
    <3>2. l.ring[1].seq \in Int
      BY <3>1, <1>1
    <3>3. ~(n + 1 >= l.ring[1].seq)
      BY <3>1, <3>2, <1>1
    <3> QED
      BY <3>1, <3>3 DEF Owed, CanResume
  <2>3. CASE Names(l, n + Len(q), s)
    <3>1. PICK i \in 1 .. Len(l.ring) : l.ring[i].seq > n + Len(q) /\ l.ring[i].store = s
      BY <2>3 DEF Names
    <3>2. l.ring[i].seq \in Int
      BY <1>1
    <3>3. l.ring[i].seq > n
      BY <3>1, <3>2, <1>1
    <3> QED
      BY <3>1, <3>3 DEF Owed, Names
  <2> QED
    BY <1>3, <2>1, <2>2, <2>3 DEF Owed
<1> QED
  BY <1>2, <1>3 DEF Ahead

\* A publication the window's queue does not take ...
LEMMA AheadStays ==
  ASSUME NEW l, LogOK(l), NEW m, NEW x \in Stores, Extends(l, m, x), NEW s \in Stores,
         NEW p \in [Stores -> Nat], p[x] > 0,
         NEW q \in Seq(Change), NEW n \in Nat, n + Len(q) <= l.seq,
         Ahead(l, p, q, n, s)
  PROVE  Ahead(m, Fewer(p, x), q, n, s)
<1>1. CASE Owed(l, p, [epoch |-> l.epoch, seq |-> n + Len(q)], s)
  <2> DEFINE c == [epoch |-> l.epoch, seq |-> n + Len(q)]
  <2>1. c \in [epoch : Nat, seq : Nat] /\ c.seq <= l.seq
    BY DEF LogOK
  <2> HIDE DEF c
  <2>2. Owed(l, p, c, s)
    BY <1>1 DEF c
  <2>3. Owed(m, Fewer(p, x), c, s)
    BY <2>1, <2>2, OwedStays
  <2>4. m.epoch = l.epoch
    BY DEF Extends
  <2> QED
    BY <2>3, <2>4 DEF Ahead, c
<1>2. CASE \E j \in 1 .. Len(q) : q[j].store = s
  BY <1>2 DEF Ahead
<1> QED
  BY <1>1, <1>2 DEF Ahead

\* ... and one it takes.
LEMMA AheadTakes ==
  ASSUME NEW l, LogOK(l), NEW m, NEW x \in Stores, Extends(l, m, x), NEW s \in Stores,
         NEW p \in [Stores -> Nat],
         NEW q \in Seq(Change), NEW n \in Nat, n + Len(q) = l.seq,
         Ahead(l, p, q, n, s)
  PROVE  Ahead(m, Fewer(p, x), Append(q, [seq |-> l.seq + 1, store |-> x]), n, s)
<1> DEFINE ch == [seq |-> l.seq + 1, store |-> x]
           r == Append(q, ch)
<1>1. ch \in Change /\ l.seq \in Nat
  BY DEF LogOK, Change
<1>2. /\ Len(r) = Len(q) + 1 /\ Len(q) \in Nat /\ r[Len(q) + 1] = ch
      /\ \A j \in 1 .. Len(q) : r[j] = q[j]
  BY <1>1
<1>3. ch.store = x
  OBVIOUS
<1> HIDE DEF r, ch
<1>4. CASE \E j \in 1 .. Len(q) : q[j].store = s
  <2>1. \E j \in 1 .. Len(r) : r[j].store = s
    BY <1>2, <1>4
  <2> QED
    BY <2>1 DEF Ahead, r, ch
<1>5. CASE Owed(l, p, [epoch |-> l.epoch, seq |-> n + Len(q)], s)
  <2>1. p[s] > 0
    <3>1. CanResume(l, [epoch |-> l.epoch, seq |-> l.seq])
      <4>1. l.ring # <<>> => l.ring[1].seq <= l.seq
        BY DEF LogOK
      <4> QED
        BY <4>1, <1>1 DEF CanResume, LogOK
    <3>2. ~Names(l, l.seq, s)
      <4>1. \A i \in 1 .. Len(l.ring) : l.ring[i].seq <= l.seq
        BY DEF LogOK
      <4>2. \A i \in 1 .. Len(l.ring) : l.ring[i].seq \in Int
        BY DEF LogOK
      <4> QED
        BY <4>1, <4>2, <1>1 DEF Names
    <3> QED
      BY <3>1, <3>2, <1>5 DEF Owed
  <2>2. CASE s = x
    <3>1. \E j \in 1 .. Len(r) : r[j].store = s
      BY <1>2, <1>3, <2>2
    <3> QED
      BY <3>1 DEF Ahead, r, ch
  <2>3. CASE s # x
    <3>1. Fewer(p, x)[s] > 0
      BY <2>1, <2>3 DEF Fewer
    <3> QED
      BY <3>1 DEF Ahead, Owed
  <2> QED
    BY <2>2, <2>3
<1> QED
  BY <1>4, <1>5 DEF Ahead

\* The queue still holds the log's changes after a publication ...
LEMMA FollowsStays ==
  ASSUME NEW l, LogOK(l), NEW m, NEW x, Extends(l, m, x),
         NEW q \in Seq(Change), NEW n \in Nat, Follows(l, q, n)
  PROVE  Follows(m, q, n)
<1>1. /\ l.seq \in Nat /\ Len(l.ring) \in Nat /\ Len(q) \in Nat /\ n + Len(q) <= l.seq
  BY DEF LogOK, Follows
<1>2. /\ m.seq = l.seq + 1 /\ Len(m.ring) \in Nat /\ m.ring[Len(m.ring)].seq = l.seq + 1
  BY DEF Extends
<1>3. ASSUME NEW j \in 1 .. Len(q), NEW i \in 1 .. Len(m.ring), m.ring[i].seq = n + j
      PROVE  m.ring[i].store = q[j].store
  <2>1. i # Len(m.ring)
    BY <1>1, <1>2, <1>3
  <2>2. \E k \in 1 .. Len(l.ring) : l.ring[k] = m.ring[i]
    <3>1. CASE /\ Len(m.ring) = Len(l.ring) + 1
               /\ \A k \in 1 .. Len(l.ring) : m.ring[k] = l.ring[k]
      BY <3>1, <2>1, <1>1, <1>2
    <3>2. CASE /\ Len(m.ring) = Len(l.ring)
               /\ \A k \in 1 .. Len(l.ring) - 1 : m.ring[k] = l.ring[k + 1]
      <4>1. i \in 1 .. Len(l.ring) - 1 /\ i + 1 \in 1 .. Len(l.ring)
        BY <3>2, <2>1, <1>1, <1>2
      <4> QED
        BY <4>1, <3>2
    <3> QED
      BY <3>1, <3>2 DEF Extends
  <2> QED
    BY <2>2, <1>3 DEF Follows
<1> QED
  BY <1>1, <1>2, <1>3 DEF Follows

\* ... also when it takes the new change ...
LEMMA FollowsTakes ==
  ASSUME NEW l, LogOK(l), NEW m, NEW x, Extends(l, m, x), LogOK(m), x \in Stores,
         NEW q \in Seq(Change), NEW n \in Nat, Follows(l, q, n), n + Len(q) = l.seq
  PROVE  Follows(m, Append(q, [seq |-> l.seq + 1, store |-> x]), n)
<1> DEFINE ch == [seq |-> l.seq + 1, store |-> x]
           r == Append(q, ch)
<1>1. ch \in Change /\ l.seq \in Nat /\ ch.seq = l.seq + 1 /\ ch.store = x
  BY DEF LogOK, Change
<1>2. /\ Len(r) = Len(q) + 1 /\ Len(q) \in Nat /\ r[Len(q) + 1] = ch
      /\ \A j \in 1 .. Len(q) : r[j] = q[j]
  BY <1>1
<1>3. /\ m.seq = l.seq + 1 /\ Len(m.ring) \in Nat
      /\ m.ring[Len(m.ring)].store = x
      /\ \A i \in 1 .. Len(m.ring) : m.ring[i].seq = m.seq - Len(m.ring) + i
  BY DEF Extends, LogOK
<1>4. /\ \A j \in 1 .. Len(q) :
           /\ q[j].seq = n + j
           /\ \A i \in 1 .. Len(m.ring) : m.ring[i].seq = n + j => m.ring[i].store = q[j].store
  <2>1. Follows(m, q, n)
    BY FollowsStays
  <2> QED
    BY <2>1 DEF Follows
<1> HIDE DEF r, ch
<1>5. ASSUME NEW j \in 1 .. Len(r)
      PROVE  /\ r[j].seq = n + j
             /\ \A i \in 1 .. Len(m.ring) : m.ring[i].seq = n + j => m.ring[i].store = r[j].store
  <2>1. CASE j \in 1 .. Len(q)
    BY <2>1, <1>2, <1>4
  <2>2. CASE j = Len(q) + 1
    <3>1. r[j].seq = n + j /\ r[j].store = x /\ n + j = m.seq
      BY <2>2, <1>1, <1>2, <1>3
    <3>2. ASSUME NEW i \in 1 .. Len(m.ring), m.ring[i].seq = n + j PROVE i = Len(m.ring)
      BY <3>1, <3>2, <1>1, <1>3
    <3> QED
      BY <3>1, <3>2, <1>3
  <2> QED
    BY <2>1, <2>2, <1>2
<1>6. n + Len(r) <= m.seq
  BY <1>1, <1>2, <1>3
<1> QED
  BY <1>5, <1>6 DEF Follows, r, ch

\* ... and when the window is done with the first.
LEMMA FollowsTail ==
  ASSUME NEW l, LogOK(l), NEW q \in Seq(Change), q # <<>>, NEW n \in Nat, Follows(l, q, n)
  PROVE  /\ Follows(l, Tail(q), n + 1) /\ Tail(q) \in Seq(Change)
         /\ n + 1 + Len(Tail(q)) = n + Len(q) /\ n + 1 <= l.seq
         /\ Head(q).seq = n + 1
<1>1. /\ l.seq \in Nat /\ Len(q) \in Nat \ {0} /\ n + Len(q) <= l.seq
  <2>1. Len(q) \in Nat \ {0}
    OBVIOUS
  <2> QED
    BY <2>1 DEF LogOK, Follows
<1>2. /\ Tail(q) \in Seq(Change) /\ Len(Tail(q)) = Len(q) - 1
      /\ \A j \in 1 .. Len(q) - 1 : Tail(q)[j] = q[j + 1]
      /\ Head(q) = q[1]
  OBVIOUS
<1>3. ASSUME NEW j \in 1 .. Len(Tail(q))
      PROVE  /\ Tail(q)[j].seq = n + 1 + j
             /\ \A i \in 1 .. Len(l.ring) :
                  l.ring[i].seq = n + 1 + j => l.ring[i].store = Tail(q)[j].store
  <2>1. j + 1 \in 1 .. Len(q) /\ Tail(q)[j] = q[j + 1] /\ n + (j + 1) = n + 1 + j
    BY <1>1, <1>2
  <2> QED
    BY <2>1 DEF Follows
<1>4. q[1].seq = n + 1
  BY <1>1 DEF Follows
<1>5. /\ n + 1 + Len(Tail(q)) = n + Len(q) /\ n + 1 <= l.seq
  BY <1>1, <1>2
<1>6. Follows(l, Tail(q), n + 1)
  BY <1>1, <1>3, <1>5 DEF Follows
<1> QED
  BY <1>2, <1>4, <1>5, <1>6

\* A connection resumed from the cursor is sent all the window is owed.
LEMMA Replay ==
  ASSUME StreamTypes, Resumable(cursor)
  PROVE  /\ After(cursor.seq) \in Seq(Change)
         /\ cursor.seq + Len(After(cursor.seq)) = log.seq
         /\ Follows(log, After(cursor.seq), cursor.seq)
         /\ \A s : Owed(log, pubs, cursor, s) => Ahead(log, pubs, After(cursor.seq), cursor.seq, s)
<1> DEFINE n == cursor.seq
           k == log.seq - n
           o == Len(log.ring) - k
           q == After(n)
<1>1. /\ log.seq \in Nat /\ Len(log.ring) \in Nat /\ n \in Nat /\ n <= log.seq
      /\ \A i \in 1 .. Len(log.ring) :
           log.ring[i].seq = log.seq - Len(log.ring) + i /\ log.ring[i] \in Change
      /\ log.ring = <<>> => log.seq = 0
      /\ log.ring # <<>> => Len(log.ring) >= 1
  BY DEF StreamTypes, LogOK, Resumable
<1>2. k \in Nat /\ o \in Nat /\ o + k = Len(log.ring) /\ log.seq - Len(log.ring) + o = n
  <2>1. CASE log.ring = <<>>
    BY <2>1, <1>1
  <2>2. CASE log.ring # <<>>
    <3>1. Head(log.ring).seq = log.seq - Len(log.ring) + 1
      BY <2>2, <1>1 DEF StreamTypes, LogOK
    <3>2. n + 1 >= log.seq - Len(log.ring) + 1
      BY <3>1, <2>2 DEF Resumable
    <3> QED
      BY <3>2, <1>1
  <2> QED
    BY <2>1, <2>2
<1>3. q = [i \in 1 .. k |-> log.ring[o + i]]
  BY DEF After
<1> HIDE DEF q, k, o, n
<1>4. \A i \in 1 .. k : o + i \in 1 .. Len(log.ring)
  BY <1>1, <1>2
<1>5. q \in Seq(Change) /\ Len(q) = k
  <2>1. \A i \in 1 .. k : log.ring[o + i] \in Change
    BY <1>1, <1>4
  <2>2. q \in [1 .. k -> Change]
    BY <2>1, <1>3
  <2> QED
    BY <2>2, <1>2
<1>6. \A j \in 1 .. k : q[j] = log.ring[o + j] /\ q[j].seq = n + j
  <2>1. ASSUME NEW j \in 1 .. k PROVE q[j] = log.ring[o + j] /\ q[j].seq = n + j
    <3>1. q[j] = log.ring[o + j]
      BY <1>3
    <3>2. log.ring[o + j].seq = log.seq - Len(log.ring) + (o + j)
      BY <1>1, <1>4
    <3>3. log.seq - Len(log.ring) + (o + j) = log.seq - Len(log.ring) + o + j
      BY <1>1, <1>2
    <3> QED
      BY <3>1, <3>2, <3>3, <1>2
  <2> QED
    BY <2>1
<1>7. n + Len(q) = log.seq
  BY <1>1, <1>2, <1>5 DEF k
<1>8. Follows(log, q, n)
  <2>1. ASSUME NEW j \in 1 .. k, NEW i \in 1 .. Len(log.ring), log.ring[i].seq = n + j
        PROVE  i = o + j
    <3>1. log.ring[i].seq = log.seq - Len(log.ring) + i
      BY <1>1
    <3>2. log.seq - Len(log.ring) + i = log.seq - Len(log.ring) + o + j
      BY <3>1, <2>1, <1>2
    <3>3. /\ log.seq \in Int /\ Len(log.ring) \in Int
          /\ i \in Int /\ o \in Int /\ j \in Int
      BY <1>1, <1>2
    <3> QED
      BY <3>2, <3>3
  <2>2. ASSUME NEW j \in 1 .. k
        PROVE  /\ q[j].seq = n + j
               /\ \A i \in 1 .. Len(log.ring) :
                    log.ring[i].seq = n + j => log.ring[i].store = q[j].store
    BY <2>1, <1>6
  <2>3. n + Len(q) <= log.seq
    BY <1>7, <1>1
  <2> QED
    BY <2>2, <2>3, <1>5 DEF Follows
<1>9. ASSUME NEW s, Owed(log, pubs, cursor, s)
      PROVE  Ahead(log, pubs, q, n, s)
  <2>1. CASE pubs[s] > 0
    BY <2>1 DEF Ahead, Owed
  <2>2. CASE ~CanResume(log, cursor)
    <3>1. log.ring # <<>> => Head(log.ring) = log.ring[1]
      BY DEF StreamTypes, LogOK
    <3> QED
      BY <2>2, <3>1 DEF CanResume, Resumable
  <2>3. CASE Names(log, n, s)
    <3>1. PICK i \in 1 .. Len(log.ring) : log.ring[i].seq > n /\ log.ring[i].store = s
      BY <2>3 DEF Names
    <3>2. log.ring[i].seq = log.seq - Len(log.ring) + i
      BY <1>1
    <3>3. i - o \in 1 .. k /\ o + (i - o) = i
      BY <3>1, <3>2, <1>1, <1>2
    <3>4. q[i - o].store = s
      BY <3>1, <3>3, <1>6
    <3> QED
      BY <3>3, <3>4, <1>5 DEF Ahead
  <2> QED
    BY <2>1, <2>2, <2>3, <1>9 DEF Owed, n
<1> QED
  BY <1>5, <1>7, <1>8, <1>9 DEF q, n

-----------------------------------------------------------------------------
(* The steps of the stream.                                                   *)

\* What a publication does to the log.
LEMMA PublishLog ==
  ASSUME StreamTypes, NEW x \in Stores, Publish(x)
  PROVE  Extends(log, log', x) /\ LogOK(log') /\ pubs' = Fewer(pubs, x) /\ pubs[x] > 0
<1>1. log' = Grown(log, x)
  <2>1. log \in [epoch : Nat \ {0}, seq : Nat, ring : Seq(Change)]
    BY DEF StreamTypes, LogOK
  <2> QED
    BY <2>1 DEF Publish, Grown
<1>2. Extends(log, log', x)
  BY <1>1, GrownRing DEF StreamTypes
<1>3. LogOK(log')
  BY <1>2, ExtendsOK DEF StreamTypes
<1> QED
  BY <1>2, <1>3 DEF Publish, Fewer

\* A publication keeps every promise: the change it numbers is the one that
\* was to come.
LEMMA PublishStep ==
  ASSUME StreamInv, NEW x \in Stores, Publish(x)
  PROVE  StreamInv'
<1> DEFINE ch == [seq |-> log.seq + 1, store |-> x]
<1>1. /\ Extends(log, log', x) /\ LogOK(log') /\ LogOK(log)
      /\ pubs' = Fewer(pubs, x) /\ pubs[x] > 0 /\ pubs \in [Stores -> Nat]
      /\ log'.epoch = log.epoch /\ log'.seq = log.seq + 1 /\ log.seq \in Nat
  BY PublishLog DEF StreamInv, StreamTypes, Extends, LogOK
<1>2. UNCHANGED <<cursor, stale>>
  BY DEF Publish
<1>3. /\ sub \in [at : {"off", "owed", "sent", "on", "asked"}, mark : Nat,
                  rx : Seq(Change), over : BOOLEAN, since : SUBSET Parts]
      /\ cursor \in [epoch : Nat, seq : Nat]
      /\ stale \ {Notice} \subseteq Stores /\ sub.since \ {Notice} \subseteq Stores
      /\ Base \in Nat
  BY PartNames DEF StreamInv, StreamTypes, Base
<1>4. ch \in Change
  BY <1>1 DEF Change
<1>5. pubs' \in [Stores -> Nat]
  BY <1>1 DEF Fewer
<1>6. \/ sub' = sub /\ (sub.at = "off" \/ sub.over)
      \/ sub' = [sub EXCEPT !.rx = Append(@, ch)] /\ sub.at # "off" /\ ~sub.over
      \/ sub' = [sub EXCEPT !.over = TRUE] /\ sub.at # "off" /\ ~sub.over
  BY DEF Publish, Sent
<1>7. ASSUME NEW s \in Stores, Owed(log, pubs, cursor, s)
      PROVE  Owed(log', pubs', cursor, s)
  BY <1>1, <1>3, <1>7, OwedStays DEF StreamInv, Connected
<1>8. CASE /\ sub'.at = sub.at /\ sub'.mark = sub.mark /\ sub'.rx = sub.rx
           /\ sub'.since = sub.since /\ sub' \in [at : {"off", "owed", "sent", "on", "asked"},
                mark : Nat, rx : Seq(Change), over : BOOLEAN, since : SUBSET Parts]
           /\ sub.at # "off" => sub'.over
  <2>1. StreamTypes'
    BY <1>1, <1>2, <1>5, <1>8 DEF StreamInv, StreamTypes
  <2>2. Base' = Base
    BY <1>2, <1>8 DEF Base
  <2>3. sub.at # "off" => Follows(log', sub.rx, Base)
    BY <1>1, <1>3, FollowsStays DEF StreamInv, Connected
  <2>4. Connected'
    BY <1>1, <1>2, <1>3, <1>8, <2>2, <2>3 DEF StreamInv, Connected
  <2>5. ASSUME NEW q \in Seq(Change), NEW n \in Nat, Follows(log, q, n),
               NEW s \in Stores, Ahead(log, pubs, q, n, s)
        PROVE  Ahead(log', pubs', q, n, s)
    BY <1>1, <2>5, AheadStays DEF Follows
  <2>6. sub.at \in {"on", "asked"} =>
          \A s \in stale \ {Notice} : Ahead(log', pubs', sub.rx, cursor.seq, s)
    BY <1>3, <2>5 DEF StreamInv, Connected, NoGap, Base
  <2>7. sub.at = "sent" =>
          \A s \in sub.since \ {Notice} : Ahead(log', pubs', sub.rx, sub.mark, s)
    BY <1>3, <2>5 DEF StreamInv, Connected, NoGap, Base
  <2>8. sub.at = "asked" =>
          \A s \in sub.since \ {Notice} : Ahead(log', pubs', Tail(sub.rx), cursor.seq + 1, s)
    <3>1. SUFFICES ASSUME sub.at = "asked" PROVE
            \A s \in sub.since \ {Notice} : Ahead(log', pubs', Tail(sub.rx), cursor.seq + 1, s)
      OBVIOUS
    <3>2. Follows(log, sub.rx, cursor.seq) /\ sub.rx # <<>> /\ cursor.seq + 1 \in Nat
      BY <3>1, <1>3 DEF StreamInv, Connected, Base
    <3>3. Follows(log, Tail(sub.rx), cursor.seq + 1) /\ Tail(sub.rx) \in Seq(Change)
      BY <3>2, <1>1, <1>3, FollowsTail
    <3> QED
      BY <3>1, <3>2, <3>3, <1>3, <2>5 DEF StreamInv, NoGap
  <2>9. sub.at \in {"off", "owed", "sent"} => \A s \in stale \ {Notice} : Owed(log', pubs', cursor, s)
    BY <1>3, <1>7 DEF StreamInv, NoGap
  <2>10. NoGap'
    BY <1>2, <1>8, <2>6, <2>7, <2>8, <2>9 DEF NoGap
  <2> QED
    BY <2>1, <2>4, <2>10 DEF StreamInv
<1>9. CASE sub' = [sub EXCEPT !.rx = Append(@, ch)] /\ sub.at # "off" /\ ~sub.over
  <2>1. /\ sub'.at = sub.at /\ sub'.mark = sub.mark /\ sub'.rx = Append(sub.rx, ch)
        /\ sub'.since = sub.since /\ sub'.over = sub.over
        /\ sub' \in [at : {"off", "owed", "sent", "on", "asked"}, mark : Nat,
                     rx : Seq(Change), over : BOOLEAN, since : SUBSET Parts]
    <3> HIDE DEF ch
    <3>1. sub.rx \in Seq(Change)
      BY <1>3
    <3>2. Append(sub.rx, ch) \in Seq(Change)
      BY <3>1, <1>4
    <3> DEFINE r == Append(sub.rx, ch)
    <3>3. r \in Seq(Change) /\ sub' = [sub EXCEPT !.rx = r]
      BY <3>2, <1>9
    <3> HIDE DEF r
    <3>4. /\ sub'.at = sub.at /\ sub'.mark = sub.mark /\ sub'.rx = r
          /\ sub'.since = sub.since /\ sub'.over = sub.over
          /\ sub' \in [at : {"off", "owed", "sent", "on", "asked"}, mark : Nat,
                       rx : Seq(Change), over : BOOLEAN, since : SUBSET Parts]
      BY <3>3, <1>3
    <3> QED
      BY <3>4 DEF r
  <2>2. StreamTypes'
    BY <1>1, <1>2, <1>5, <2>1 DEF StreamInv, StreamTypes
  <2>3. Base' = Base
    BY <1>2, <2>1 DEF Base
  <2>4. Follows(log, sub.rx, Base) /\ Base + Len(sub.rx) = log.seq
    BY <1>9 DEF StreamInv, Connected
  <2>5. Follows(log', Append(sub.rx, ch), Base)
    BY <1>1, <1>3, <2>4, FollowsTakes
  <2>6. Base + Len(Append(sub.rx, ch)) = log'.seq /\ Append(sub.rx, ch) # <<>>
    <3> HIDE DEF ch
    <3>1. Len(Append(sub.rx, ch)) = Len(sub.rx) + 1 /\ Len(sub.rx) \in Nat
          /\ Append(sub.rx, ch) # <<>>
      BY <1>3, <1>4
    <3> QED
      BY <3>1, <1>1, <1>3, <2>4
  <2>7. Connected'
    BY <1>1, <1>2, <1>3, <2>1, <2>3, <2>5, <2>6 DEF StreamInv, Connected
  <2>8. ASSUME NEW q \in Seq(Change), NEW n \in Nat, n + Len(q) = log.seq,
               NEW s \in Stores, Ahead(log, pubs, q, n, s)
        PROVE  Ahead(log', pubs', Append(q, ch), n, s)
    BY <1>1, <2>8, AheadTakes
  <2>9. sub.at \in {"on", "asked"} =>
          \A s \in stale \ {Notice} : Ahead(log', pubs', Append(sub.rx, ch), cursor.seq, s)
    BY <1>3, <2>4, <2>8 DEF StreamInv, NoGap, Base
  <2>10. sub.at = "sent" =>
          \A s \in sub.since \ {Notice} : Ahead(log', pubs', Append(sub.rx, ch), sub.mark, s)
    BY <1>3, <2>4, <2>8 DEF StreamInv, NoGap, Base
  <2>11. sub.at = "asked" =>
          \A s \in sub.since \ {Notice} : Ahead(log', pubs', Tail(Append(sub.rx, ch)), cursor.seq + 1, s)
    <3>1. SUFFICES ASSUME sub.at = "asked" PROVE
            \A s \in sub.since \ {Notice} : Ahead(log', pubs', Tail(Append(sub.rx, ch)), cursor.seq + 1, s)
      OBVIOUS
    <3>2. sub.rx # <<>> /\ cursor.seq + 1 \in Nat /\ Follows(log, sub.rx, cursor.seq)
          /\ cursor.seq + Len(sub.rx) = log.seq
      BY <3>1, <1>3, <2>4 DEF StreamInv, Connected, Base
    <3>3. cursor.seq + 1 + Len(Tail(sub.rx)) = log.seq /\ Tail(sub.rx) \in Seq(Change)
      BY <3>2, <1>1, <1>3, FollowsTail
    <3>4. Tail(Append(sub.rx, ch)) = Append(Tail(sub.rx), ch)
      BY <3>2, <1>3, <1>4
    <3>5. ASSUME NEW s \in sub.since \ {Notice}
          PROVE  Ahead(log', pubs', Append(Tail(sub.rx), ch), cursor.seq + 1, s)
      <4>1. s \in Stores /\ Ahead(log, pubs, Tail(sub.rx), cursor.seq + 1, s)
        BY <3>1, <1>3 DEF StreamInv, NoGap
      <4> QED
        BY <4>1, <3>2, <3>3, <2>8
    <3> QED
      BY <3>4, <3>5
  <2>12. sub.at \in {"off", "owed", "sent"} => \A s \in stale \ {Notice} : Owed(log', pubs', cursor, s)
    BY <1>3, <1>7 DEF StreamInv, NoGap
  <2>13. NoGap'
    BY <1>2, <2>1, <2>9, <2>10, <2>11, <2>12 DEF NoGap
  <2> QED
    BY <2>2, <2>7, <2>13 DEF StreamInv
<1> QED
  <2>1. CASE sub' = sub /\ (sub.at = "off" \/ sub.over)
    BY <2>1, <1>3, <1>8
  <2>2. CASE sub' = [sub EXCEPT !.over = TRUE]
    BY <2>2, <1>3, <1>8
  <2> QED
    BY <2>1, <2>2, <1>6, <1>9

\* A write but that of a line is promised by the publication that is to come.
LEMMA CommitStep ==
  ASSUME StreamInv, NEW changed \in SUBSET Parts, NEW events \in [Stores -> Nat],
         \A s \in changed \ {Notice} : events[s] > 0,
         Committed(changed, events), UNCHANGED <<log, cursor>>
  PROVE  StreamInv'
<1>1. CASE UNCHANGED <<pubs, stale, sub>>
  BY <1>1 DEF StreamInv, StreamTypes, Connected, NoGap, Base
<1>2. CASE /\ pubs' = [s \in Stores |-> pubs[s] + events[s]]
           /\ stale' = stale \cup changed
           /\ sub' = [sub EXCEPT !.since =
                        IF sub.at \in {"sent", "asked"} THEN @ \cup changed ELSE @]
  <2>1. /\ sub'.at = sub.at /\ sub'.mark = sub.mark /\ sub'.rx = sub.rx /\ sub'.over = sub.over
        /\ sub'.since = IF sub.at \in {"sent", "asked"} THEN sub.since \cup changed ELSE sub.since
        /\ sub' \in [at : {"off", "owed", "sent", "on", "asked"}, mark : Nat,
                     rx : Seq(Change), over : BOOLEAN, since : SUBSET Parts]
    BY <1>2 DEF StreamInv, StreamTypes
  <2>2. /\ pubs \in [Stores -> Nat] /\ pubs' \in [Stores -> Nat]
        /\ \A s \in Stores : pubs'[s] = pubs[s] + events[s]
    BY <1>2 DEF StreamInv, StreamTypes
  <2>3. StreamTypes' /\ Connected'
    BY <1>2, <2>1, <2>2 DEF StreamInv, StreamTypes, Connected, Base
  <2>4. /\ stale \ {Notice} \subseteq Stores /\ sub.since \ {Notice} \subseteq Stores
        /\ changed \ {Notice} \subseteq Stores
    BY PartNames DEF StreamInv, StreamTypes
  <2>5. \A s \in changed \ {Notice} : pubs'[s] > 0
    BY <2>2, <2>4
  <2>6. \A s \in Stores : pubs[s] > 0 => pubs'[s] > 0
    BY <2>2
  <2>7. ASSUME NEW s \in Stores, NEW c
        PROVE  /\ Owed(log, pubs, c, s) => Owed(log', pubs', c, s)
               /\ s \in changed \ {Notice} => Owed(log', pubs', c, s)
    BY <2>5, <2>6 DEF Owed
  <2>8. ASSUME NEW s \in Stores, NEW q, NEW n
        PROVE  /\ Ahead(log, pubs, q, n, s) => Ahead(log', pubs', q, n, s)
               /\ s \in changed \ {Notice} => Ahead(log', pubs', q, n, s)
    BY <2>7 DEF Ahead
  <2>9. NoGap'
    <3>1. sub.at \in {"off", "owed", "sent"} => \A s \in stale' \ {Notice} : Owed(log', pubs', cursor, s)
      BY <1>2, <2>4, <2>7 DEF StreamInv, NoGap
    <3>2. sub.at \in {"on", "asked"} =>
            \A s \in stale' \ {Notice} : Ahead(log', pubs', sub.rx, cursor.seq, s)
      BY <1>2, <2>4, <2>8 DEF StreamInv, NoGap
    <3>3. sub.at = "sent" =>
            \A s \in sub'.since \ {Notice} : Ahead(log', pubs', sub.rx, sub.mark, s)
      BY <2>1, <2>4, <2>8 DEF StreamInv, NoGap
    <3>4. sub.at = "asked" =>
            \A s \in sub'.since \ {Notice} : Ahead(log', pubs', Tail(sub.rx), cursor.seq + 1, s)
      BY <2>1, <2>4, <2>8 DEF StreamInv, NoGap
    <3> QED
      BY <2>1, <3>1, <3>2, <3>3, <3>4 DEF NoGap
  <2> QED
    BY <2>3, <2>9 DEF StreamInv
<1> QED
  BY <1>1, <1>2 DEF Committed

\* A connection may end at any step.
LEMMA EndStep ==
  ASSUME StreamInv, sub' = Off, UNCHANGED <<log, pubs, stale>>,
         cursor' \in {cursor, NoCursor}
  PROVE  StreamInv'
<1>1. /\ LogOK(log) /\ log.epoch \in Nat \ {0} /\ cursor \in [epoch : Nat, seq : Nat]
      /\ sub.rx \in Seq(Change) /\ sub.mark \in Nat
  BY DEF StreamInv, StreamTypes, LogOK
<1>2. /\ sub'.at = "off" /\ sub'.since = {}
      /\ sub' \in [at : {"off", "owed", "sent", "on", "asked"}, mark : Nat,
                   rx : Seq(Change), over : BOOLEAN, since : SUBSET Parts]
  BY DEF Off
<1>3. /\ cursor' \in [epoch : Nat, seq : Nat] /\ cursor'.epoch <= log.epoch
      /\ cursor'.epoch = log.epoch => cursor'.seq <= log.seq
  BY <1>1 DEF NoCursor, StreamInv, Connected
<1>4. \A s \in stale \ {Notice} : Owed(log, pubs, cursor, s)
  <2>1. CASE sub.at \in {"off", "owed", "sent"}
    BY <2>1 DEF StreamInv, NoGap
  <2>2. CASE sub.at \in {"on", "asked"}
    <3>1. /\ \A s \in stale \ {Notice} : Ahead(log, pubs, sub.rx, cursor.seq, s)
          /\ Follows(log, sub.rx, cursor.seq) /\ cursor.epoch = log.epoch /\ cursor.seq \in Nat
      BY <2>2, <1>1 DEF StreamInv, Connected, NoGap, Base
    <3> QED
      BY <3>1, <1>1, AheadOwed
  <2> QED
    BY <2>1, <2>2 DEF StreamInv, StreamTypes
<1>5. \A s \in stale \ {Notice} : Owed(log, pubs, cursor', s)
  BY <1>1, <1>4 DEF Owed, CanResume, NoCursor
<1>6. StreamTypes' /\ Connected'
  BY <1>2, <1>3 DEF StreamInv, StreamTypes, Connected
<1>7. NoGap'
  BY <1>2, <1>5 DEF NoGap
<1> QED
  BY <1>6, <1>7 DEF StreamInv

\* The daemon is started again: no cursor of before is of the new epoch.
LEMMA RestartStep ==
  ASSUME StreamInv, StreamRestart
  PROVE  StreamInv'
<1>1. /\ log.epoch \in Nat \ {0} /\ cursor.epoch \in Nat /\ cursor.epoch <= log.epoch
  BY DEF StreamInv, StreamTypes, Connected, LogOK
<1>2. /\ log' = [epoch |-> log.epoch + 1, seq |-> 0, ring |-> <<>>]
      /\ sub'.at = "off" /\ sub'.since = {}
      /\ sub' \in [at : {"off", "owed", "sent", "on", "asked"}, mark : Nat,
                   rx : Seq(Change), over : BOOLEAN, since : SUBSET Parts]
      /\ UNCHANGED <<cursor, stale>>
  BY DEF StreamRestart, Off
<1>3. LogOK(log') /\ cursor'.epoch < log'.epoch
  BY <1>1, <1>2 DEF LogOK
<1>4. \A s \in stale' \ {Notice} : Owed(log', pubs', cursor', s)
  BY <1>1, <1>2, <1>3 DEF Owed, CanResume
<1>5. StreamTypes'
  BY <1>2, <1>3 DEF StreamInv, StreamTypes, StreamRestart
<1>6. Connected'
  BY <1>1, <1>2, <1>3 DEF Connected
<1>7. NoGap'
  BY <1>2, <1>4 DEF NoGap
<1> QED
  BY <1>5, <1>6, <1>7 DEF StreamInv

\* Every step of the window.
LEMMA WindowKeeps ==
  ASSUME StreamInv, WindowStep
  PROVE  StreamInv'
<1>1. /\ LogOK(log) /\ log.epoch \in Nat \ {0} /\ log.seq \in Nat
      /\ cursor \in [epoch : Nat, seq : Nat]
      /\ sub \in [at : {"off", "owed", "sent", "on", "asked"}, mark : Nat,
                  rx : Seq(Change), over : BOOLEAN, since : SUBSET Parts]
      /\ stale \subseteq Parts
  BY DEF StreamInv, StreamTypes, LogOK
<1>2. ASSUME Subscribe PROVE StreamInv'
  <2>1. /\ UNCHANGED <<log, pubs, cursor, stale>> /\ sub.at = "off"
        /\ \A s \in stale \ {Notice} : Owed(log, pubs, cursor, s)
    BY <1>2 DEF Subscribe, StreamInv, NoGap
  <2>2. CASE Resumable(cursor)
    <3>1. /\ After(cursor.seq) \in Seq(Change)
          /\ cursor.seq + Len(After(cursor.seq)) = log.seq
          /\ Follows(log, After(cursor.seq), cursor.seq)
          /\ \A s \in stale \ {Notice} : Ahead(log, pubs, After(cursor.seq), cursor.seq, s)
          /\ cursor.epoch = log.epoch
      BY <2>1, <2>2, Replay DEF StreamInv, Resumable
    <3>2. /\ sub'.at = "on" /\ sub'.rx = After(cursor.seq) /\ ~sub'.over /\ sub'.since = {}
          /\ sub' \in [at : {"off", "owed", "sent", "on", "asked"}, mark : Nat,
                       rx : Seq(Change), over : BOOLEAN, since : SUBSET Parts]
      BY <1>2, <2>2, <3>1 DEF Subscribe, Off
    <3> QED
      BY <2>1, <3>1, <3>2 DEF StreamInv, StreamTypes, Connected, NoGap, Base
  <2>3. CASE ~Resumable(cursor)
    <3>1. /\ sub'.at = "owed" /\ sub'.rx = <<>> /\ ~sub'.over /\ sub'.since = {}
          /\ sub'.mark = log.seq
          /\ sub' \in [at : {"off", "owed", "sent", "on", "asked"}, mark : Nat,
                       rx : Seq(Change), over : BOOLEAN, since : SUBSET Parts]
      <4>1. sub' = [at |-> "owed", mark |-> log.seq, rx |-> <<>>, over |-> FALSE, since |-> {}]
        BY <1>2, <2>3 DEF Subscribe, Off
      <4> QED
        BY <4>1, <1>1
    <3>2. Base' = log.seq /\ Len(sub'.rx) = 0
      BY <3>1 DEF Base
    <3>3. Follows(log, sub'.rx, log.seq)
      BY <1>1, <3>1, <3>2 DEF Follows
    <3>4. Connected'
      BY <1>1, <2>1, <3>1, <3>2, <3>3 DEF StreamInv, Connected
    <3> QED
      BY <2>1, <3>1, <3>4 DEF StreamInv, StreamTypes, NoGap
  <2> QED
    BY <2>2, <2>3
<1>3. ASSUME BuildSnapshot PROVE StreamInv'
  <2>1. /\ UNCHANGED <<log, pubs, cursor, stale>> /\ sub.at = "owed" /\ sub.since = {}
        /\ sub' = [sub EXCEPT !.at = "sent"]
    BY <1>3 DEF BuildSnapshot, StreamInv, Connected
  <2>2. /\ sub'.at = "sent" /\ sub'.rx = sub.rx /\ sub'.over = sub.over /\ sub'.since = {}
        /\ sub'.mark = sub.mark
        /\ sub' \in [at : {"off", "owed", "sent", "on", "asked"}, mark : Nat,
                     rx : Seq(Change), over : BOOLEAN, since : SUBSET Parts]
    BY <1>1, <2>1
  <2> QED
    BY <2>1, <2>2 DEF StreamInv, StreamTypes, Connected, NoGap, Base
<1>4. ASSUME TakeSnapshot PROVE StreamInv'
  <2>1. /\ UNCHANGED <<log, pubs>> /\ sub.at = "sent" /\ stale' = sub.since
        /\ cursor' = [epoch |-> log.epoch, seq |-> sub.mark]
        /\ sub' = [sub EXCEPT !.at = "on", !.since = {}, !.mark = 0]
    BY <1>4 DEF TakeSnapshot
  <2>2. /\ sub'.at = "on" /\ sub'.rx = sub.rx /\ sub'.over = sub.over /\ sub'.since = {}
        /\ sub' \in [at : {"off", "owed", "sent", "on", "asked"}, mark : Nat,
                     rx : Seq(Change), over : BOOLEAN, since : SUBSET Parts]
        /\ cursor' \in [epoch : Nat, seq : Nat]
        /\ cursor'.epoch = log.epoch /\ cursor'.seq = sub.mark
    BY <1>1, <2>1
  <2>3. Base = sub.mark /\ Base' = sub.mark
    BY <2>1, <2>2 DEF Base
  <2>4. Follows(log, sub.rx, sub.mark) /\ (~sub.over => sub.mark + Len(sub.rx) = log.seq)
        /\ \A s \in sub.since \ {Notice} : Ahead(log, pubs, sub.rx, sub.mark, s)
    BY <2>1, <2>3 DEF StreamInv, Connected, NoGap
  <2>5. sub.mark <= log.seq
    BY <1>1, <2>4 DEF Follows
  <2>6. StreamTypes'
    BY <1>1, <2>1, <2>2 DEF StreamInv, StreamTypes
  <2>7. Connected'
    BY <1>1, <2>1, <2>2, <2>3, <2>4, <2>5 DEF Connected
  <2>8. NoGap'
    BY <2>1, <2>2, <2>4 DEF NoGap
  <2> QED
    BY <2>6, <2>7, <2>8 DEF StreamInv
<1>5. ASSUME Ask PROVE StreamInv'
  <2>1. /\ UNCHANGED <<log, pubs, cursor, stale>> /\ sub.at = "on" /\ sub.since = {}
        /\ sub.rx # <<>> /\ sub' = [sub EXCEPT !.at = "asked"]
    BY <1>5 DEF Ask, StreamInv, Connected
  <2>2. /\ sub'.at = "asked" /\ sub'.rx = sub.rx /\ sub'.over = sub.over /\ sub'.since = {}
        /\ sub'.mark = sub.mark
        /\ sub' \in [at : {"off", "owed", "sent", "on", "asked"}, mark : Nat,
                     rx : Seq(Change), over : BOOLEAN, since : SUBSET Parts]
    BY <1>1, <2>1
  <2> QED
    BY <2>1, <2>2 DEF StreamInv, StreamTypes, Connected, NoGap, Base
<1>6. ASSUME Apply PROVE StreamInv'
  <2> DEFINE c == Head(sub.rx)
  <2>1. /\ UNCHANGED <<log, pubs>> /\ sub.at = "asked"
        /\ stale' = (stale \ PartsOf(c.store)) \cup (sub.since \cap PartsOf(c.store))
        /\ cursor' = [epoch |-> log.epoch, seq |-> c.seq]
        /\ sub' = [sub EXCEPT !.at = "on", !.rx = Tail(@), !.since = {}]
    BY <1>6 DEF Apply
  <2>2. /\ Follows(log, sub.rx, cursor.seq) /\ sub.rx # <<>> /\ cursor.seq \in Nat
        /\ ~sub.over => cursor.seq + Len(sub.rx) = log.seq
        /\ \A s \in stale \ {Notice} : Ahead(log, pubs, sub.rx, cursor.seq, s)
        /\ \A s \in sub.since \ {Notice} : Ahead(log, pubs, Tail(sub.rx), cursor.seq + 1, s)
    BY <1>1, <2>1 DEF StreamInv, Connected, NoGap, Base
  <2>3. /\ Follows(log, Tail(sub.rx), cursor.seq + 1) /\ Tail(sub.rx) \in Seq(Change)
        /\ cursor.seq + 1 + Len(Tail(sub.rx)) = cursor.seq + Len(sub.rx)
        /\ cursor.seq + 1 <= log.seq /\ c.seq = cursor.seq + 1
    <3>1. sub.rx \in Seq(Change) /\ LogOK(log)
      BY <1>1
    <3>2. Head(sub.rx).seq = cursor.seq + 1
      BY <2>2, <3>1, FollowsTail
    <3>3. /\ Follows(log, Tail(sub.rx), cursor.seq + 1) /\ Tail(sub.rx) \in Seq(Change)
          /\ cursor.seq + 1 + Len(Tail(sub.rx)) = cursor.seq + Len(sub.rx)
          /\ cursor.seq + 1 <= log.seq
      BY <2>2, <3>1, FollowsTail
    <3> QED
      BY <3>2, <3>3
  <2>4. /\ sub'.at = "on" /\ sub'.rx = Tail(sub.rx) /\ sub'.over = sub.over /\ sub'.since = {}
        /\ sub' \in [at : {"off", "owed", "sent", "on", "asked"}, mark : Nat,
                     rx : Seq(Change), over : BOOLEAN, since : SUBSET Parts]
        /\ cursor' \in [epoch : Nat, seq : Nat]
        /\ cursor'.epoch = log.epoch /\ cursor'.seq = cursor.seq + 1
    <3> DEFINE r == Tail(sub.rx)
    <3>1. r \in Seq(Change) /\ sub' = [sub EXCEPT !.at = "on", !.rx = r, !.since = {}]
      BY <2>1, <2>3
    <3>2. cursor.seq + 1 \in Nat /\ cursor' = [epoch |-> log.epoch, seq |-> cursor.seq + 1]
      BY <2>1, <2>2, <2>3
    <3> HIDE DEF r, c
    <3>3. /\ sub'.at = "on" /\ sub'.rx = r /\ sub'.over = sub.over /\ sub'.since = {}
          /\ sub' \in [at : {"off", "owed", "sent", "on", "asked"}, mark : Nat,
                       rx : Seq(Change), over : BOOLEAN, since : SUBSET Parts]
      BY <3>1, <1>1
    <3> QED
      BY <3>2, <3>3, <1>1 DEF r
  <2>5. ASSUME NEW s \in stale \ {Notice}, s # c.store
        PROVE  Ahead(log, pubs, Tail(sub.rx), cursor.seq + 1, s)
    <3>1. Ahead(log, pubs, sub.rx, cursor.seq, s)
      BY <2>2
    <3>2. CASE \E j \in 1 .. Len(sub.rx) : sub.rx[j].store = s
      <4>1. PICK j \in 1 .. Len(sub.rx) : sub.rx[j].store = s
        BY <3>2
      <4>2. j # 1 /\ Len(sub.rx) \in Nat
        BY <4>1, <2>5, <2>2, <1>1
      <4>3. /\ j - 1 \in 1 .. Len(Tail(sub.rx))
            /\ Tail(sub.rx)[j - 1] = sub.rx[j]
        <5>1. /\ Len(Tail(sub.rx)) = Len(sub.rx) - 1
              /\ \A i \in 1 .. Len(sub.rx) - 1 : Tail(sub.rx)[i] = sub.rx[i + 1]
          BY <2>2, <1>1
        <5>2. j - 1 \in 1 .. Len(sub.rx) - 1 /\ (j - 1) + 1 = j
          BY <4>1, <4>2
        <5> QED
          BY <5>1, <5>2
      <4> QED
        BY <4>1, <4>3 DEF Ahead
    <3>3. CASE Owed(log, pubs, [epoch |-> log.epoch, seq |-> cursor.seq + Len(sub.rx)], s)
      BY <3>3, <2>3 DEF Ahead
    <3> QED
      BY <3>1, <3>2, <3>3 DEF Ahead
  <2>6. \A s \in stale' \ {Notice} : Ahead(log, pubs, Tail(sub.rx), cursor.seq + 1, s)
    <3>1. \A s \in stale \ {Notice} : s \notin PartsOf(c.store) => s # c.store
      BY <1>1, PartNames
    <3> QED
      BY <2>1, <2>2, <2>5, <3>1
  <2> HIDE DEF c
  <2>7. StreamTypes'
    <3>1. stale' \subseteq Parts
      BY <1>1, <2>1, PartNames
    <3> QED
      BY <1>1, <2>1, <2>4, <3>1 DEF StreamInv, StreamTypes
  <2>8. Base' = cursor.seq + 1
    BY <2>4 DEF Base
  <2>9. Connected'
    BY <1>1, <2>1, <2>2, <2>3, <2>4, <2>8 DEF Connected
  <2>10. NoGap'
    BY <2>1, <2>4, <2>6 DEF NoGap
  <2> QED
    BY <2>7, <2>9, <2>10 DEF StreamInv
<1>7. ASSUME Refuse PROVE StreamInv'
  BY <1>7, EndStep DEF Refuse
<1>8. ASSUME Resnapshot PROVE StreamInv'
  BY <1>8, EndStep DEF Resnapshot
<1> QED
  BY <1>2, <1>3, <1>4, <1>5, <1>6, <1>7, <1>8 DEF WindowStep

\* What the invariant says of a copy that is older than its store.
LEMMA InvNoHiddenGap == StreamInv => NoHiddenGap
<1> SUFFICES ASSUME StreamInv, NEW s \in stale \ {Notice}, ~(pubs[s] > 0)
             PROVE  Learns(s)
  BY PartNames DEF NoHiddenGap, Coming, StreamInv, StreamTypes
<1>0. StoreOf(s) = s
  BY PartNames DEF StreamInv, StreamTypes
<1>1. /\ sub.rx \in Seq(Change) /\ sub.at \in {"off", "owed", "sent", "on", "asked"}
      /\ log.seq \in Nat /\ cursor \in [epoch : Nat, seq : Nat] /\ sub.mark \in Nat
      /\ LogOK(log) /\ StreamTypes
  BY DEF StreamInv, StreamTypes, LogOK
<1>2. ASSUME NEW q \in Seq(Change), NEW n \in Nat, n + Len(q) = log.seq,
             Ahead(log, pubs, q, n, s)
      PROVE  Named(q, s)
  <2>1. ~Owed(log, pubs, [epoch |-> log.epoch, seq |-> log.seq], s)
    <3>1. \A i \in 1 .. Len(log.ring) : log.ring[i].seq \in Nat /\ log.ring[i].seq <= log.seq
      BY DEF StreamInv, StreamTypes, LogOK
    <3>2. log.ring # <<>> => log.ring[1].seq \in Nat /\ log.ring[1].seq <= log.seq
      BY <3>1 DEF StreamInv, StreamTypes, LogOK
    <3>3. CanResume(log, [epoch |-> log.epoch, seq |-> log.seq])
      BY <3>2, <1>1 DEF CanResume
    <3>4. ~Names(log, log.seq, s)
      BY <3>1, <1>1 DEF Names
    <3> QED
      BY <3>3, <3>4 DEF Owed
  <2>2. \E j \in 1 .. Len(q) : q[j].store = s
    BY <1>2, <2>1 DEF Ahead
  <2> QED
    BY <2>2 DEF Named
<1>3. CASE sub.at = "off"
  <2>1. SUFFICES ASSUME Resumable(cursor) PROVE Named(After(cursor.seq), s)
    BY <1>0, <1>3 DEF Learns
  <2>2. Owed(log, pubs, cursor, s)
    BY <1>3 DEF StreamInv, NoGap
  <2>3. /\ After(cursor.seq) \in Seq(Change)
        /\ cursor.seq + Len(After(cursor.seq)) = log.seq
        /\ Ahead(log, pubs, After(cursor.seq), cursor.seq, s)
    BY <1>1, <2>1, <2>2, Replay
  <2>4. cursor.seq \in Nat
    BY <1>1
  <2> QED
    BY <1>2, <2>3, <2>4
<1>4. CASE sub.at = "owed"
  BY <1>4 DEF Learns
<1>5. CASE sub.at = "sent"
  <2>1. SUFFICES ASSUME ~sub.over, s \in sub.since PROVE Named(sub.rx, s)
    BY <1>0, <1>5 DEF Learns
  <2>2. sub.mark + Len(sub.rx) = log.seq /\ Ahead(log, pubs, sub.rx, sub.mark, s)
    <3>1. Base = sub.mark /\ (~sub.over => Base + Len(sub.rx) = log.seq)
      BY <1>5 DEF StreamInv, Connected, Base
    <3>2. Ahead(log, pubs, sub.rx, sub.mark, s)
      BY <1>5, <2>1 DEF StreamInv, NoGap
    <3> QED
      BY <2>1, <3>1, <3>2
  <2> QED
    BY <1>1, <1>2, <2>2
<1>6. CASE sub.at \in {"on", "asked"}
  <2>1. SUFFICES ASSUME ~sub.over
                 PROVE  /\ Named(sub.rx, s)
                        /\ sub.at = "asked" /\ s \in sub.since => Named(Tail(sub.rx), s)
    BY <1>0 DEF Learns
  <2>2. cursor.seq + Len(sub.rx) = log.seq /\ Ahead(log, pubs, sub.rx, cursor.seq, s)
    BY <1>6, <2>1 DEF StreamInv, Connected, NoGap, Base
  <2>3. Named(sub.rx, s)
    BY <1>1, <1>2, <2>2
  <2>4. ASSUME sub.at = "asked", s \in sub.since PROVE Named(Tail(sub.rx), s)
    <3>1. /\ sub.rx # <<>> /\ Follows(log, sub.rx, cursor.seq)
          /\ Ahead(log, pubs, Tail(sub.rx), cursor.seq + 1, s)
      BY <2>4 DEF StreamInv, Connected, NoGap, Base
    <3>2. /\ Tail(sub.rx) \in Seq(Change)
          /\ cursor.seq + 1 + Len(Tail(sub.rx)) = log.seq /\ cursor.seq + 1 \in Nat
      BY <1>1, <2>2, <3>1, FollowsTail
    <3> QED
      BY <1>2, <3>1, <3>2
  <2> QED
    BY <2>3, <2>4
<1> QED
  BY <1>1, <1>3, <1>4, <1>5, <1>6

-----------------------------------------------------------------------------
(* The stream under the daemon's operations.                                  *)

(* The run starts with no store ahead of the windows. *)
LEMMA StreamInitOK == StreamInit => StreamInv
<1> SUFFICES ASSUME StreamInit PROVE StreamInv
  OBVIOUS
<1>1. /\ log = [epoch |-> 1, seq |-> 0, ring |-> <<>>] /\ sub = Off
      /\ cursor = [epoch |-> 0, seq |-> 0] /\ stale \subseteq Parts
      /\ pubs \in [Stores -> Nat]
  BY DEF StreamInit, NoCursor
<1>2. LogOK(log)
  BY <1>1 DEF LogOK
<1>3. StreamTypes
  BY <1>1, <1>2 DEF StreamTypes, Off
<1>4. Connected
  BY <1>1 DEF Connected, Off
<1>5. NoGap
  BY <1>1 DEF NoGap, Off, Owed, CanResume
<1> QED
  BY <1>3, <1>4, <1>5 DEF StreamInv

(* A step that leaves the stream's variables alone keeps its invariant. *)
LEMMA StreamStill == StreamInv /\ UNCHANGED streamVars => StreamInv'
  BY DEF streamVars, StreamInv, StreamTypes, Connected, NoGap, Base

(* One(s) counts one write, of store s. *)
LEMMA OneTyped ==
  ASSUME NEW s \in Stores
  PROVE  One(s) \in [Stores -> Nat] /\ One(s)[s] > 0
  BY DEF One

(* A commit that is announced at once keeps the stream's invariant. *)
LEMMA AnnouncedStep ==
  ASSUME StreamInv, NEW s \in Stores, Announced(s)
  PROVE  StreamInv'
  BY OneTyped, CommitStep DEF Announced

(* A write of a store, announced by a publication, keeps it too. *)
LEMMA ChangedStep ==
  ASSUME StreamInv, NEW s \in HARNESS_STORES, Changed(s)
  PROVE  StreamInv'
<1>1. s \in Stores
  BY DEF Stores
<1>2. {s} \in SUBSET Parts
  BY DEF Parts
<1>3. \A x \in {s} : One(s)[x] > 0
  BY <1>1, OneTyped
<1> QED
  BY <1>1, <1>2, <1>3, OneTyped, CommitStep DEF Changed

\* The end of a terminal's claims publishes one change or two.
LEMMA ReleaseStep ==
  ASSUME StreamInv, NEW t \in Terms, Release(t)
  PROVE  StreamInv'
<1>1. "mesh" \in Stores /\ "terminals" \in Stores
  BY DEF Stores, HARNESS_STORES
<1>2. /\ One("terminals") \in [Stores -> Nat]
      /\ Both("mesh", "terminals") \in [Stores -> Nat]
  BY <1>1 DEF One, Both
<1>3. UNCHANGED <<log, cursor>>
  BY DEF Release
<1>4. CASE Holds(Key(t))
  <2>1. Committed({}, Both("mesh", "terminals"))
    BY <1>4 DEF Release
  <2> QED
    BY <2>1, <1>2, <1>3, CommitStep
<1>5. CASE ~Holds(Key(t))
  <2>1. Committed({}, One("terminals"))
    BY <1>5 DEF Release
  <2> QED
    BY <2>1, <1>2, <1>3, CommitStep
<1> QED
  BY <1>4, <1>5

\* Terminals and claims: all but the announcements leave the stream alone.
LEMMA ClaimsStep ==
  ASSUME StreamInv, ClaimsNext
  PROVE  StreamInv'
<1>1. "mesh" \in Stores
  BY DEF Stores, HARNESS_STORES
<1>2. ASSUME NEW t \in Terms, Mint(t) \/ Bind(t) PROVE StreamInv'
  BY <1>1, <1>2, AnnouncedStep DEF Mint, Bind
<1>3. ASSUME NEW t \in Terms, Release(t) PROVE StreamInv'
  BY <1>3, ReleaseStep
<1>4. ASSUME NEW t \in Terms, \/ Age(t) \/ Spawn(t) \/ Exit(t) \/ Spawned(t) \/ Answered(t)
                                \/ BindFails(t) \/ Revoke(t) \/ ObserveOne(t)
      PROVE  StreamInv'
  BY <1>4, StreamStill
     DEF Age, Spawn, Exit, Spawned, Answered, BindFails, Revoke, ObserveOne, Forgets
<1>5. ASSUME NEW t \in Terms, NEW P \in Wants, NEW op, Call(t, op, P) \/ Hotspot(t, P)
      PROVE  StreamInv'
  BY <1>5, StreamStill DEF Call, Hotspot
<1>6. ASSUME \/ Sweep \/ Observe \/ Observed
             \/ Reconcile \/ ListSessions \/ Judge \/ Reconciled
      PROVE  StreamInv'
  BY <1>6, StreamStill
     DEF Sweep, Observe, Observed, Reconcile, ListSessions, Judge, Reconciled
<1>7. ASSUME NEW d \in recon.doomed, Doom(d) PROVE StreamInv'
  BY <1>7, StreamStill DEF Doom
<1>8. ASSUME NEW k \in Keys, Free(k) PROVE StreamInv'
  BY <1>8, StreamStill DEF Free
<1>9. ASSUME NEW c \in calls, Transact(c) PROVE StreamInv'
  <2>1. Announced("mesh") \/ UNCHANGED streamVars
    BY <1>9 DEF Transact
  <2> QED
    BY <2>1, <1>1, AnnouncedStep, StreamStill
<1> QED
  BY <1>2, <1>3, <1>4, <1>5, <1>6, <1>7, <1>8, <1>9 DEF ClaimsNext

\* Questions: each change of the items is announced.
LEMMA AttentionStep ==
  ASSUME StreamInv, AttentionNext
  PROVE  StreamInv'
<1>1. "attention" \in HARNESS_STORES
  BY DEF HARNESS_STORES
<1>2. ASSUME Fyi PROVE StreamInv'
  BY <1>1, <1>2, ChangedStep DEF Fyi
<1>3. ASSUME NEW q \in Requests, AskUser(q) PROVE StreamInv'
  <2>1. Changed("attention") \/ UNCHANGED streamVars
    BY <1>3 DEF AskUser
  <2> QED
    BY <2>1, <1>1, ChangedStep, StreamStill
<1>4. ASSUME NEW q \in Requests, Deadline(q) \/ Tell(q) PROVE StreamInv'
  BY <1>4, StreamStill DEF Deadline, Tell
<1>5. ASSUME NEW q \in Requests, NEW v, Resolve(q, v) PROVE StreamInv'
  BY <1>1, <1>5, ChangedStep DEF Resolve
<1> QED
  BY <1>2, <1>3, <1>4, <1>5 DEF AttentionNext, Expire, Answer

\* A message: what is written of it is announced, but for its line.
LEMMA MessageStep ==
  ASSUME StreamInv, SendStep
  PROVE  StreamInv'
<1>1. /\ "mesh" \in HARNESS_STORES /\ "attention" \in HARNESS_STORES
      /\ "deliveries" \in Stores /\ HARNESS_STORES \subseteq Stores /\ HARNESS_STORES \subseteq Parts
  BY DEF HARNESS_STORES, Stores, Parts
<1>2. ASSUME NEW s \in HARNESS_STORES, Committed({s}, Both(s, "deliveries")),
             UNCHANGED <<log, cursor>>
      PROVE  StreamInv'
  <2> DEFINE e == Both(s, "deliveries")
  <2>1. e \in [Stores -> Nat] /\ e[s] > 0
    BY <1>1 DEF Both, One
  <2>2. {s} \in SUBSET Parts
    BY <1>1
  <2> HIDE DEF e
  <2>3. Committed({s}, e)
    BY <1>2 DEF e
  <2> QED
    BY <1>2, <2>1, <2>2, <2>3, CommitStep
<1>3. CASE Send
  BY <1>1, <1>3, ChangedStep DEF Send
<1>4. CASE NoteDelivery
  <2>1. {Notice} \in SUBSET Parts /\ No \in [Stores -> Nat]
    BY DEF Parts, No
  <2> QED
    BY <1>4, <2>1, CommitStep DEF NoteDelivery
<1>5. CASE Submit
  BY <1>1, <1>2, <1>5 DEF Submit
<1>6. CASE Fail
  BY <1>1, <1>6, AnnouncedStep DEF Fail
<1>7. CASE Recover
  BY <1>1, <1>2, <1>7, StreamStill DEF Recover
<1> QED
  BY <1>3, <1>4, <1>5, <1>6, <1>7 DEF SendStep

(* The stream's invariant is kept by every step of the workspace. *)
LEMMA StreamInductive == StreamInv /\ [Next]_vars => StreamInv'
<1> SUFFICES ASSUME StreamInv, [Next]_vars PROVE StreamInv'
  OBVIOUS
<1>1. CASE ClaimsNext
  BY <1>1, ClaimsStep
<1>2. CASE AttentionNext
  BY <1>2, AttentionStep
<1>3. ASSUME NEW s \in Stores, Write(s) PROVE StreamInv'
  <2>1. s \in HARNESS_STORES /\ Changed(s)
    BY <1>3, StreamAssumption DEF Write, HARNESS_STORES
  <2> QED
    BY <2>1, ChangedStep
<1>4. ASSUME NEW s \in Stores, Note(s) PROVE StreamInv'
  BY <1>4, AnnouncedStep DEF Note
<1>5. CASE WindowRuns
  BY <1>5, WindowKeeps DEF WindowRuns
<1>6. CASE Cut
  BY <1>6, EndStep DEF Cut, Drop
<1>7. CASE Published
  BY <1>7, PublishStep DEF Published
<1>8. CASE Restart
  BY <1>8, RestartStep DEF Restart
<1>9. CASE UNCHANGED vars
  BY <1>9, StreamStill DEF vars
<1>10. CASE SendStep
  BY <1>10, MessageStep
<1> QED
  BY <1>1, <1>2, <1>3, <1>4, <1>5, <1>6, <1>7, <1>8, <1>9, <1>10 DEF Next

\* The window has no gap it does not know of (stream.rs:115-119), but for the
\* lines note_delivery writes without a word (mesh.rs:319-328): any other copy
\* older than its store has a change coming, on its way or in the ring ahead of
\* the cursor, or the cursor is one the service answers with a snapshot - for
\* any ring, queue, writers and number of restarts, drops and lost connections.
THEOREM NoGapHidden == Spec => []NoHiddenGap
<1>1. Init => StreamInv
  BY StreamInitOK DEF Init
<1>2. StreamInv /\ [Next]_vars => StreamInv'
  BY StreamInductive
<1>3. StreamInv => NoHiddenGap
  BY InvNoHiddenGap
<1> QED
  BY <1>1, <1>2, <1>3, PTL DEF Spec

-----------------------------------------------------------------------------
(* Reconciliation.                                                            *)

TermTypes ==
  /\ terms \in [Terms -> [state : {"none", "minted", "bound", "revoked", "ended"}, old : BOOLEAN]]
  /\ children \in [Terms -> {"none", "alive", "exited"}]
  /\ gateway \in [Terms -> {"none", "minted", "binding", "known"}]
  /\ recon \in [at : {"idle", "asked", "listed", "judged"}, late : SUBSET Terms,
                old : SUBSET Terms, list : SUBSET Terms,
                doomed : SUBSET [term : Terms, bound : BOOLEAN]]

\* A terminal is bound only once its child was started; one that was bound
\* before the list was made and is not in it, and one judged by it, has ended.
ReconInv ==
  /\ TermTypes
  /\ \A t \in Terms : terms[t].state = "bound" \/ gateway[t] \in {"binding", "known"} =>
                       children[t] # "none"
  /\ recon.at = "listed" => \A t \in Terms :
       terms[t].state = "bound" /\ t \notin recon.late \cup recon.list => children[t] = "exited"
  /\ \A d \in recon.doomed : d.bound => children[d.term] = "exited"

(* The run starts with nothing to reconcile. *)
LEMMA ReconInitOK == Init => ReconInv
<1> SUFFICES ASSUME ClaimsInit PROVE ReconInv
  BY DEF Init
<1>1. CASE budget.running > 0
  BY <1>1 DEF ClaimsInit, ReconInv, TermTypes, Idle
<1>2. CASE ~(budget.running > 0)
  BY <1>2 DEF ClaimsInit, ReconInv, TermTypes, Idle
<1> QED
  BY <1>1, <1>2

(* A step that leaves the terminals and the reconciliation alone keeps its invariant. *)
LEMMA ReconStill ==
  ReconInv /\ UNCHANGED <<terms, children, gateway, recon>> => ReconInv'
  BY DEF ReconInv, TermTypes

\* Revoking binds nothing.
LEMMA RevokedUnbinds ==
  ASSUME TermTypes, NEW t \in Terms, Revoked(t) \/ UNCHANGED terms
  PROVE  /\ terms' \in [Terms -> [state : {"none", "minted", "bound", "revoked", "ended"},
                                  old : BOOLEAN]]
         /\ \A x \in Terms : terms'[x].state = "bound" => terms[x].state = "bound"
<1>1. CASE Revoked(t)
  <2> DEFINE r == [state |-> IF terms[t].state = "bound" THEN "ended" ELSE "revoked", old |-> FALSE]
  <2>1. /\ r \in [state : {"none", "minted", "bound", "revoked", "ended"}, old : BOOLEAN]
        /\ r.state # "bound"
    OBVIOUS
  <2>2. terms' = [terms EXCEPT ![t] = r]
    BY <1>1 DEF Revoked
  <2> HIDE DEF r
  <2> QED
    BY <2>1, <2>2 DEF TermTypes
<1>2. CASE UNCHANGED terms
  BY <1>2 DEF TermTypes
<1> QED
  BY <1>1, <1>2

\* The life of a child goes one way.
ReconGrows ==
  /\ children' \in [Terms -> {"none", "alive", "exited"}]
  /\ \A x \in Terms : /\ children[x] # "none" => children'[x] # "none"
                      /\ children[x] = "exited" => children'[x] = "exited"

\* A child that starts or ends keeps what reconciliation knows true.
LEMMA ReconGrown ==
  ASSUME ReconInv, UNCHANGED <<terms, gateway, recon>>, ReconGrows
  PROVE  ReconInv'
<1>1. TermTypes'
  BY DEF ReconInv, TermTypes, ReconGrows
<1>2. ASSUME NEW t \in Terms, terms[t].state = "bound" \/ gateway[t] \in {"binding", "known"}
      PROVE  children'[t] # "none"
  BY <1>2 DEF ReconInv, ReconGrows
<1>3. ASSUME recon.at = "listed", NEW t \in Terms,
             terms[t].state = "bound" /\ t \notin recon.late \cup recon.list
      PROVE  children'[t] = "exited"
  BY <1>3 DEF ReconInv, ReconGrows
<1>4. ASSUME NEW d \in recon.doomed, d.bound PROVE children'[d.term] = "exited"
  <2>1. d.term \in Terms /\ children[d.term] = "exited"
    BY <1>4 DEF ReconInv, TermTypes
  <2> QED
    BY <2>1 DEF ReconGrows
<1> QED
  BY <1>1, <1>2, <1>3, <1>4 DEF ReconInv

\* The gateway's forgetting a terminal starts nothing and judges nothing.
LEMMA ForgetsKeeps ==
  ASSUME ReconInv, NEW t \in Terms, Forgets(t)
  PROVE  ReconInv'
<1>1. /\ UNCHANGED <<children, recon>> /\ gateway' = [gateway EXCEPT ![t] = "none"]
      /\ Revoked(t) \/ UNCHANGED terms
  BY DEF Forgets
<1>2. /\ terms' \in [Terms -> [state : {"none", "minted", "bound", "revoked", "ended"},
                               old : BOOLEAN]]
      /\ \A x \in Terms : terms'[x].state = "bound" => terms[x].state = "bound"
  BY <1>1, RevokedUnbinds DEF ReconInv
<1> QED
  BY <1>1, <1>2 DEF ReconInv, TermTypes

(* Every step of the registry, the claims and the runner keeps the invariant. *)
LEMMA TermsKeep ==
  ASSUME ReconInv, ClaimsNext
  PROVE  ReconInv'
<1>1. ASSUME NEW t \in Terms, Mint(t) PROVE ReconInv'
  BY <1>1 DEF Mint, ReconInv, TermTypes
<1>2. ASSUME NEW t \in Terms, Age(t) PROVE ReconInv'
  BY <1>2 DEF Age, ReconInv, TermTypes
<1>3. ASSUME NEW t \in Terms, Spawn(t) PROVE ReconInv'
  <2>1. /\ UNCHANGED <<terms, gateway, recon>> /\ children[t] = "none"
        /\ children' = [children EXCEPT ![t] = "alive"]
    BY <1>3 DEF Spawn
  <2>2. ReconGrows
    BY <2>1 DEF ReconInv, TermTypes, ReconGrows
  <2> QED
    BY <2>1, <2>2, ReconGrown
<1>4. ASSUME NEW t \in Terms, Exit(t) PROVE ReconInv'
  <2>1. /\ UNCHANGED <<terms, gateway, recon>> /\ children[t] = "alive"
        /\ children' = [children EXCEPT ![t] = "exited"]
    BY <1>4 DEF Exit
  <2>2. ReconGrows
    BY <2>1 DEF ReconInv, TermTypes, ReconGrows
  <2> QED
    BY <2>1, <2>2, ReconGrown
<1>5. ASSUME NEW t \in Terms, Spawned(t) PROVE ReconInv'
  BY <1>5 DEF Spawned, ReconInv, TermTypes
<1>6. ASSUME NEW t \in Terms, Bind(t) PROVE ReconInv'
  <2>1. /\ UNCHANGED <<children, gateway>> /\ gateway[t] = "binding"
        /\ terms' = [terms EXCEPT ![t].state = "bound"]
        /\ \E L \in SUBSET Terms :
             /\ recon' = [recon EXCEPT !.late = L]
             /\ recon.late \subseteq L
             /\ recon.at = "listed" => t \in L
    <3> DEFINE M == IF recon.at \in {"asked", "listed"} THEN recon.late \cup {t} ELSE recon.late
    <3>1. M \in SUBSET Terms /\ recon.late \subseteq M /\ (recon.at = "listed" => t \in M)
      BY DEF ReconInv, TermTypes
    <3>2. recon' = [recon EXCEPT !.late = M]
      BY <1>6 DEF Bind
    <3>3. /\ UNCHANGED <<children, gateway>> /\ gateway[t] = "binding"
          /\ terms' = [terms EXCEPT ![t].state = "bound"]
      BY <1>6 DEF Bind
    <3> HIDE DEF M
    <3> QED
      BY <3>1, <3>2, <3>3
  <2>2. PICK L \in SUBSET Terms : /\ recon' = [recon EXCEPT !.late = L]
                                  /\ recon.late \subseteq L
                                  /\ recon.at = "listed" => t \in L
    BY <2>1
  <2>3. /\ recon'.at = recon.at /\ recon'.late = L /\ recon'.list = recon.list
        /\ recon'.doomed = recon.doomed
        /\ recon' \in [at : {"idle", "asked", "listed", "judged"}, late : SUBSET Terms,
                       old : SUBSET Terms, list : SUBSET Terms,
                       doomed : SUBSET [term : Terms, bound : BOOLEAN]]
    <3>1. recon \in [at : {"idle", "asked", "listed", "judged"}, late : SUBSET Terms,
                    old : SUBSET Terms, list : SUBSET Terms,
                    doomed : SUBSET [term : Terms, bound : BOOLEAN]]
      BY DEF ReconInv, TermTypes
    <3> QED
      BY <2>2, <3>1
  <2>4. /\ terms' \in [Terms -> [state : {"none", "minted", "bound", "revoked", "ended"},
                                 old : BOOLEAN]]
        /\ \A x \in Terms : terms'[x].state = "bound" => x = t \/ terms[x].state = "bound"
    BY <2>1 DEF ReconInv, TermTypes
  <2>5. TermTypes'
    BY <2>1, <2>3, <2>4 DEF ReconInv, TermTypes
  <2>6. ASSUME NEW x \in Terms, terms'[x].state = "bound" \/ gateway[x] \in {"binding", "known"}
        PROVE  children[x] # "none"
    BY <2>1, <2>4, <2>6 DEF ReconInv
  <2>7. ASSUME recon.at = "listed", NEW x \in Terms,
               terms'[x].state = "bound", x \notin L \cup recon.list
        PROVE  children[x] = "exited"
    <3>1. x # t /\ x \notin recon.late \cup recon.list
      BY <2>2, <2>7
    <3>2. terms[x].state = "bound"
      BY <2>4, <2>7, <3>1
    <3> QED
      BY <2>7, <3>1, <3>2 DEF ReconInv
  <2>8. \A d \in recon.doomed : d.bound => children[d.term] = "exited"
    BY DEF ReconInv
  <2> QED
    BY <2>1, <2>3, <2>5, <2>6, <2>7, <2>8 DEF ReconInv
<1>7. ASSUME NEW t \in Terms, Revoke(t) \/ BindFails(t) PROVE ReconInv'
  BY <1>7, ForgetsKeeps DEF Revoke, BindFails
<1>8. ASSUME NEW t \in Terms, ObserveOne(t) PROVE ReconInv'
  <2>1. Forgets(t) \/ UNCHANGED <<terms, children, gateway, recon>>
    BY <1>8 DEF ObserveOne
  <2> QED
    BY <2>1, ForgetsKeeps, ReconStill
<1>9. ASSUME Reconcile PROVE ReconInv'
  BY <1>9 DEF Reconcile, Idle, ReconInv, TermTypes
<1>10. ASSUME ListSessions PROVE ReconInv'
  BY <1>10 DEF ListSessions, ReconInv, TermTypes
<1>11. ASSUME Judge PROVE ReconInv'
  <2> DEFINE D == {[term |-> t, bound |-> terms[t].state = "bound"] :
                     t \in {x \in Terms : Live(x) /\ ~Kept(x)}}
  <2>1. /\ UNCHANGED <<terms, children, gateway>> /\ recon.at = "listed"
        /\ recon' = [at |-> "judged", late |-> {}, old |-> {}, list |-> {}, doomed |-> D]
    BY <1>11 DEF Judge, Idle
  <2>2. D \subseteq [term : Terms, bound : BOOLEAN]
    <3>1. SUFFICES ASSUME NEW t \in Terms, NEW b, b = (terms[t].state = "bound")
                   PROVE  [term |-> t, bound |-> b] \in [term : Terms, bound : BOOLEAN]
      OBVIOUS
    <3>2. b \in BOOLEAN
      BY <3>1, Zenon
    <3> QED
      BY <3>2
  <2>3. ASSUME NEW d \in D, d.bound PROVE children[d.term] = "exited"
    <3>1. PICK t \in Terms : /\ ~Kept(t)
                             /\ d = [term |-> t, bound |-> terms[t].state = "bound"]
      OBVIOUS
    <3>2. d.term = t /\ terms[t].state = "bound" /\ t \notin recon.late \cup recon.list
      BY <2>3, <3>1 DEF Kept
    <3> QED
      BY <2>1, <3>2 DEF ReconInv
  <2> HIDE DEF D
  <2> QED
    BY <2>1, <2>2, <2>3 DEF ReconInv, TermTypes
<1>12. ASSUME NEW d \in recon.doomed, Doom(d) PROVE ReconInv'
  <2>1. /\ UNCHANGED <<children, gateway>> /\ recon.at = "judged"
        /\ recon' = [recon EXCEPT !.doomed = @ \ {d}]
        /\ d.term \in Terms /\ (Revoked(d.term) \/ UNCHANGED terms)
    BY <1>12 DEF Doom, ReconInv, TermTypes
  <2>2. /\ terms' \in [Terms -> [state : {"none", "minted", "bound", "revoked", "ended"},
                                 old : BOOLEAN]]
        /\ \A x \in Terms : terms'[x].state = "bound" => terms[x].state = "bound"
    BY <2>1, RevokedUnbinds DEF ReconInv
  <2> QED
    BY <2>1, <2>2 DEF ReconInv, TermTypes
<1>13. ASSUME Reconciled PROVE ReconInv'
  BY <1>13 DEF Reconciled, Idle, ReconInv, TermTypes
<1>14. ASSUME NEW t \in Terms, Release(t) PROVE ReconInv'
  BY <1>14, ReconStill DEF Release
<1>15. ASSUME NEW t \in Terms, NEW P \in Wants, NEW op, Call(t, op, P) \/ Hotspot(t, P)
       PROVE  ReconInv'
  BY <1>15, ReconStill DEF Call, Hotspot, termVars
<1>16. ASSUME Sweep \/ Observe \/ Observed PROVE ReconInv'
  BY <1>16, ReconStill DEF Sweep, Observe, Observed
<1>17. ASSUME NEW k \in Keys, Free(k) PROVE ReconInv'
  BY <1>17, ReconStill DEF Free, termVars
<1>18. ASSUME NEW c \in calls, Transact(c) PROVE ReconInv'
  BY <1>18, ReconStill DEF Transact, termVars
<1>19. ASSUME NEW t \in Terms, Answered(t) PROVE ReconInv'
  BY <1>19 DEF Answered, ReconInv, TermTypes
<1> QED
  BY <1>1, <1>2, <1>3, <1>4, <1>5, <1>6, <1>7, <1>8, <1>9, <1>10, <1>11, <1>12, <1>13,
     <1>14, <1>15, <1>16, <1>17, <1>18, <1>19 DEF ClaimsNext

(* Reconciliation's invariant is kept by every step of the workspace. *)
LEMMA ReconInductive == ReconInv /\ [Next]_vars => ReconInv'
<1> SUFFICES ASSUME ReconInv, [Next]_vars PROVE ReconInv'
  OBVIOUS
<1>1. CASE ClaimsNext
  BY <1>1, TermsKeep
<1>2. CASE UNCHANGED termVars
  BY <1>2, ReconStill DEF termVars
<1>3. CASE Restart
  BY <1>3 DEF Restart, ClaimsRestart, Idle, ReconInv, TermTypes
<1> QED
  BY <1>1, <1>2, <1>3 DEF Next, Write, Note, WindowRuns, Cut, Published, vars, parts,
                          SendStep, Send, NoteDelivery, Submit, Fail, Recover

\* reconcile takes no living terminal for a dead one (service.rs:250-254): what
\* it is about to revoke as bound has ended, whatever was bound, revoked or
\* ended since it asked the runner.
THEOREM LiveOnesSpared == Spec => []LiveSpared
<1>1. Init => ReconInv
  BY ReconInitOK
<1>2. ReconInv /\ [Next]_vars => ReconInv'
  BY ReconInductive
<1>3. ReconInv => LiveSpared
  BY DEF ReconInv, LiveSpared
<1> QED
  BY <1>1, <1>2, <1>3, PTL DEF Spec
=============================================================================
