-------------------------- MODULE DynamicCycleProofs --------------------------
(***************************************************************************)
(* Proofs about DynamicCycle for every dataset, screen size, schedule      *)
(* shape and top-up limit, and every number of cycles and crashes.         *)
(***************************************************************************)
EXTENDS DynamicCycle, FiniteSetTheorems, WellFoundedInduction, TLAPS

\* A cycle as freeze_cycle writes it.
Idents == [id : 0 .. MaxCycle, old : Nat, pool : SUBSET Problems]
\* A receipt file names the policy that its cycle froze.
OwnPolicy(f) == \A p \in DOMAIN f.rows : f.rows[p].by = f.ident.old

\* The history after cycle k: every problem's visits are of different cycles,
\* and nothing was screened twice while something was never screened.
HistoryOK(h, k) ==
    /\ \E S, R : h \in [Problems -> [visits : Seq(S), route : R]]
    /\ \A p \in Problems : \A i \in DOMAIN h[p].visits : h[p].visits[i].id \in 1 .. k
    /\ \A p \in Problems : \A i, j \in DOMAIN h[p].visits :
          h[p].visits[i].id = h[p].visits[j].id => i = j
    /\ \A p, q \in Problems : h[p].visits = <<>> => Len(h[q].visits) <= 1

\* A schedule directory: whose it is and which receipts it rests on.
Directory(d) ==
    d = [ident |-> d.ident, receipts |-> d.receipts, report |-> d.report,
         schedule |-> d.schedule, history |-> d.history, trained |-> d.trained]
DirOK(d, k, files) ==
    d # NoDir =>
      /\ Directory(d) /\ d.report # "no directory"
      /\ d.ident \in Idents /\ d.ident.id = k
      /\ d.receipts \subseteq files
      /\ \A f \in d.receipts : f.ident = d.ident
      /\ DOMAIN d.schedule \subseteq d.ident.pool

\* A pool ranks best in the history before its cycle, which Prior reads.
Before(D, k) == IF k = 1 THEN NoHistory ELSE D[k - 1].history
BestRanked(D, k, pool) ==
    \A p \in pool, q \in Problems \ pool : Rank(Before(D, k), p) <= Rank(Before(D, k), q)

\* c: the frozen cycle, D: the directories, files: what is bound
Consistent(c, D, files) ==
    /\ c \in Idents
    /\ DOMAIN D = 1 .. MaxCycle /\ D = [k \in 1 .. MaxCycle |-> D[k]]
    /\ \A f \in files : OwnPolicy(f)
    /\ \A k \in 1 .. MaxCycle : DirOK(D[k], k, files) /\ HistoryOK(D[k].history, k)
    /\ \A k \in 1 .. MaxCycle : k > c.id => D[k] = NoDir
    /\ c.id > 0 => /\ BestRanked(D, c.id, c.pool)
                   /\ D[c.id] # NoDir => D[c.id].ident = c

CycleInv ==
    /\ policy \in Nat /\ Consistent(cycle, dirs, bound)
    /\ finalizing => cycle.id > 0 /\ dirs[cycle.id] # NoDir

------------------------------------------------------------------------------
(* Histories                                                               *)

LEMMA NoVisit == Len(<<>>) = 0 /\ DOMAIN <<>> = {}
  OBVIOUS

LEMMA EmptyHistory ==
    ASSUME NEW k \in Nat
    PROVE  HistoryOK(NoHistory, k)
  <1>1. NoHistory \in [Problems -> [visits : Seq(Nat), route : {"none"}]]
    BY DEF NoHistory
  <1>2. \A p \in Problems : NoHistory[p].visits = <<>>
    BY DEF NoHistory
  <1>3. \A p \in Problems : DOMAIN NoHistory[p].visits = {} /\ Len(NoHistory[p].visits) <= 1
    BY <1>2, NoVisit
  <1> HIDE DEF NoHistory
  <1>4. \E S, R : NoHistory \in [Problems -> [visits : Seq(S), route : R]]
    BY <1>1
  <1>5. QED
    BY <1>3, <1>4 DEF HistoryOK

\* history_rank puts the problems that were never screened first.
LEMMA UnseenRankFirst ==
    ASSUME NEW h, NEW k, HistoryOK(h, k), NEW p \in Problems
    PROVE  /\ Len(h[p].visits) \in Nat
           /\ h[p].visits = <<>> => Rank(h, p) = 0
           /\ h[p].visits # <<>> => Rank(h, p) \in Nat \ {0}
  <1>1. PICK S, R : h \in [Problems -> [visits : Seq(S), route : R]]
    BY DEF HistoryOK
  <1>2. h[p].visits \in Seq(S)
    BY <1>1
  <1>3. Len(h[p].visits) \in Nat
    BY <1>2
  <1>4. QED
    BY <1>3 DEF Rank

LEMMA MoreElements ==
    ASSUME NEW S, NEW T, S \subseteq T, NEW s \in Seq(S)
    PROVE  s \in Seq(T)
  OBVIOUS

LEMMA OneMoreVisit ==
    ASSUME NEW S, NEW s \in Seq(S), NEW x \in S
    PROVE  /\ Append(s, x) \in Seq(S) /\ Append(s, x) # <<>>
           /\ Len(Append(s, x)) = Len(s) + 1 /\ Len(s) \in Nat
           /\ DOMAIN Append(s, x) = DOMAIN s \cup {Len(s) + 1}
           /\ Len(s) + 1 \notin DOMAIN s
           /\ Append(s, x)[Len(s) + 1] = x
           /\ \A i \in DOMAIN s : Append(s, x)[i] = s[i]
  OBVIOUS

\* What finalize appends keeps a history that screens unseen problems first.
LEMMA AppendedOK ==
    ASSUME NEW k \in 1 .. MaxCycle, NEW d, d.ident \in Idents, d.ident.id = k,
           HistoryOK(Prior(k), k - 1),
           \A p \in d.ident.pool, q \in Problems \ d.ident.pool :
               Rank(Prior(k), p) <= Rank(Prior(k), q)
    PROVE  HistoryOK(Appended(d), k)
  <1> DEFINE h == Prior(k)  pool == d.ident.pool  new == Appended(d)
             visit(p) == [id |-> k, successes |-> Total(d.receipts, p)]
  <1>1. PICK S, R : h \in [Problems -> [visits : Seq(S), route : R]]
    BY DEF HistoryOK
  <1>2. pool \subseteq Problems
    BY DEF Idents
  <1> DEFINE T == S \cup {visit(p) : p \in Problems}
             Q == R \cup {LastRoute(d, p) : p \in Problems}
  <1>3. \A p \in pool : /\ new[p].visits = Append(h[p].visits, visit(p))
                        /\ new[p].route = LastRoute(d, p)
                        /\ new[p] = [visits |-> Append(h[p].visits, visit(p)), route |-> LastRoute(d, p)]
    BY <1>2 DEF Appended
  <1>4. \A p \in Problems \ pool : new[p] = h[p]
    BY DEF Appended
  <1>5. new = [p \in Problems |-> new[p]]
    BY DEF Appended
  <1>6. \A p \in Problems : visit(p).id = k /\ visit(p) \in T /\ LastRoute(d, p) \in Q
    OBVIOUS
  <1>7. S \subseteq T /\ R \subseteq Q
    OBVIOUS
  <1> HIDE DEF h, new, visit, T, Q
  <1>8. \A p \in Problems : h[p].visits \in Seq(S) /\ h[p].visits \in Seq(T) /\ h[p].route \in Q
    BY <1>1, <1>7, MoreElements
  <1>9. \A p \in pool :
           /\ new[p].visits \in Seq(T) /\ new[p].visits # <<>>
           /\ Len(new[p].visits) = Len(h[p].visits) + 1 /\ Len(h[p].visits) \in Nat
           /\ DOMAIN new[p].visits = DOMAIN h[p].visits \cup {Len(h[p].visits) + 1}
           /\ Len(h[p].visits) + 1 \notin DOMAIN h[p].visits
           /\ new[p].visits[Len(h[p].visits) + 1].id = k
           /\ \A i \in DOMAIN h[p].visits : new[p].visits[i] = h[p].visits[i]
    <2>1. SUFFICES ASSUME NEW p \in pool
          PROVE  /\ new[p].visits \in Seq(T) /\ new[p].visits # <<>>
                 /\ Len(new[p].visits) = Len(h[p].visits) + 1 /\ Len(h[p].visits) \in Nat
                 /\ DOMAIN new[p].visits = DOMAIN h[p].visits \cup {Len(h[p].visits) + 1}
                 /\ Len(h[p].visits) + 1 \notin DOMAIN h[p].visits
                 /\ new[p].visits[Len(h[p].visits) + 1].id = k
                 /\ \A i \in DOMAIN h[p].visits : new[p].visits[i] = h[p].visits[i]
      OBVIOUS
    <2> DEFINE s == h[p].visits  t == new[p].visits
    <2>2. s \in Seq(T) /\ visit(p) \in T /\ visit(p).id = k /\ t = Append(s, visit(p))
      BY <1>2, <1>3, <1>6, <1>8
    <2> HIDE DEF s, t
    <2>3. /\ t \in Seq(T) /\ t # <<>> /\ Len(t) = Len(s) + 1 /\ Len(s) \in Nat
          /\ DOMAIN t = DOMAIN s \cup {Len(s) + 1} /\ Len(s) + 1 \notin DOMAIN s
          /\ t[Len(s) + 1].id = k /\ \A i \in DOMAIN s : t[i] = s[i]
      BY <2>2, OneMoreVisit
    <2>4. QED
      BY <2>3 DEF s, t
  <1>10. new \in [Problems -> [visits : Seq(T), route : Q]]
    <2>1. ASSUME NEW p \in Problems PROVE new[p] \in [visits : Seq(T), route : Q]
      <3>1. CASE p \in pool
        <4>1. new[p] = [visits |-> new[p].visits, route |-> LastRoute(d, p)]
          BY <1>3, <3>1
        <4>2. new[p].visits \in Seq(T) /\ LastRoute(d, p) \in Q
          BY <1>6, <1>9, <3>1
        <4>3. QED
          BY <4>1, <4>2
      <3>2. CASE p \notin pool
        <4>1. new[p] = h[p] /\ h[p] \in [visits : Seq(S), route : R]
          BY <1>1, <1>4, <3>2
        <4>2. QED
          BY <1>8, <4>1
      <3>3. QED
        BY <3>1, <3>2
    <2>2. QED
      BY <1>5, <2>1
  <1>11. \A p \in Problems : \A i \in DOMAIN h[p].visits : h[p].visits[i].id \in 1 .. k - 1
    BY DEF HistoryOK, h
  <1>12. \A p \in Problems : \A i \in DOMAIN new[p].visits : new[p].visits[i].id \in 1 .. k
    <2>1. ASSUME NEW p \in Problems, NEW i \in DOMAIN new[p].visits
          PROVE  new[p].visits[i].id \in 1 .. k
      <3>1. CASE p \in pool
        <4>1. CASE i \in DOMAIN h[p].visits
          <5>1. new[p].visits[i].id \in 1 .. k - 1
            BY <1>9, <1>11, <3>1, <4>1
          <5>2. QED
            BY <5>1
        <4>2. CASE i = Len(h[p].visits) + 1
          BY <1>9, <3>1, <4>2
        <4>3. QED
          BY <1>9, <3>1, <4>1, <4>2
      <3>2. CASE p \notin pool
        BY <1>4, <1>11, <3>2
      <3>3. QED
        BY <3>1, <3>2
    <2>2. QED
      BY <2>1
  <1>13. \A p \in Problems : \A i, j \in DOMAIN new[p].visits :
            new[p].visits[i].id = new[p].visits[j].id => i = j
    <2>1. \A p \in Problems : \A i, j \in DOMAIN h[p].visits :
            h[p].visits[i].id = h[p].visits[j].id => i = j
      BY DEF HistoryOK, h
    <2>2. ASSUME NEW p \in Problems, NEW i \in DOMAIN new[p].visits, NEW j \in DOMAIN new[p].visits,
                 new[p].visits[i].id = new[p].visits[j].id
          PROVE  i = j
      <3>1. CASE p \in pool
        <4> DEFINE last == Len(h[p].visits) + 1
        <4>1. \A n \in DOMAIN new[p].visits : n # last =>
                 /\ n \in DOMAIN h[p].visits /\ new[p].visits[n] = h[p].visits[n]
                 /\ new[p].visits[n].id # k
          <5>1. ASSUME NEW n \in DOMAIN new[p].visits, n # last
                PROVE  /\ n \in DOMAIN h[p].visits /\ new[p].visits[n] = h[p].visits[n]
                       /\ new[p].visits[n].id # k
            <6>1. n \in DOMAIN h[p].visits /\ new[p].visits[n] = h[p].visits[n]
              BY <1>9, <3>1, <5>1
            <6>2. h[p].visits[n].id \in 1 .. k - 1
              BY <1>2, <1>11, <3>1, <6>1
            <6>3. QED
              BY <6>1, <6>2
          <5>2. QED
            BY <5>1
        <4>2. new[p].visits[last].id = k
          BY <1>9, <3>1
        <4> HIDE DEF last
        <4>3. QED
          BY <2>1, <2>2, <4>1, <4>2
      <3>2. CASE p \notin pool
        BY <1>4, <2>1, <2>2, <3>2
      <3>3. QED
        BY <3>1, <3>2
    <2>3. QED
      BY <2>2
  <1>14. \A p, q \in Problems : new[p].visits = <<>> => Len(new[q].visits) <= 1
    <2>1. SUFFICES ASSUME NEW p \in Problems, NEW q \in Problems, new[p].visits = <<>>
                   PROVE  Len(new[q].visits) <= 1
      OBVIOUS
    <2>2. p \notin pool /\ h[p].visits = <<>>
      BY <1>4, <1>9, <2>1
    <2>3. CASE q \notin pool
      <3>1. \A a, b \in Problems : h[a].visits = <<>> => Len(h[b].visits) <= 1
        BY DEF HistoryOK, h
      <3>2. QED
        BY <1>4, <2>2, <2>3, <3>1
    <2>4. CASE q \in pool
      <3>1. Rank(h, q) <= Rank(h, p)
        BY <2>2, <2>4 DEF h
      <3>2. HistoryOK(h, k - 1)
        BY DEF h
      <3>3. Rank(h, p) = 0
        BY <2>2, <3>2, UnseenRankFirst
      <3>4. h[q].visits = <<>>
        BY <3>1, <3>2, <3>3, UnseenRankFirst
      <3>5. Len(h[q].visits) = 0
        BY <3>4, NoVisit
      <3>6. QED
        BY <1>9, <2>4, <3>5
    <2>5. QED
      BY <2>3, <2>4
  <1>15. QED
    BY <1>10, <1>12, <1>13, <1>14 DEF HistoryOK, new

------------------------------------------------------------------------------
(* The invariant                                                           *)

LEMMA Bounds == /\ MaxCycle \in Nat /\ TrainingSlots \in Nat
  <1>1. MaxCycle \in Nat /\ StepsPerCycle \in Nat /\ ProblemsPerStep \in Nat
    BY CycleAssumption
  <1>2. QED
    BY <1>1 DEF TrainingSlots

LEMMA InitInv == Init => CycleInv
  <1>1. SUFFICES ASSUME Init PROVE CycleInv
    OBVIOUS
  <1>2. /\ policy = 0 /\ cycle = [id |-> 0, old |-> 0, pool |-> {}] /\ bound = {}
        /\ dirs = [k \in 1 .. MaxCycle |-> NoDir] /\ finalizing = FALSE
    BY <1>1 DEF Init
  <1>3. NoDir.history = NoHistory
    BY DEF NoDir
  <1>4. \A k \in 1 .. MaxCycle : DirOK(dirs[k], k, bound) /\ HistoryOK(dirs[k].history, k)
    BY <1>2, <1>3, Bounds, EmptyHistory DEF DirOK
  <1>5. cycle \in Idents /\ cycle.id = 0
    BY <1>2, Bounds DEF Idents
  <1>6. QED
    BY <1>2, <1>4, <1>5 DEF CycleInv, Consistent

\* The history before a cycle is the last one of an earlier cycle.
LEMMA BeforeOK ==
    ASSUME NEW c, NEW D, NEW files, Consistent(c, D, files), NEW k \in 1 .. MaxCycle
    PROVE  HistoryOK(Before(D, k), k - 1)
  <1>1. CASE k = 1
    BY <1>1, EmptyHistory DEF Before
  <1>2. CASE k # 1
    <2>1. k - 1 \in 1 .. MaxCycle
      BY <1>2, Bounds
    <2>2. QED
      BY <1>2, <2>1 DEF Before, Consistent
  <1>3. QED
    BY <1>1, <1>2

LEMMA CurrentCycle ==
    ASSUME NEW c, NEW D, NEW files, Consistent(c, D, files), c.id > 0
    PROVE  c.id \in 1 .. MaxCycle /\ c \in Idents
  <1>1. c \in Idents
    BY DEF Consistent
  <1>2. c.id \in 0 .. MaxCycle
    BY <1>1 DEF Idents
  <1>3. QED
    BY <1>1, <1>2, Bounds

LEMMA Neighbours ==
    ASSUME NEW c, c \in 1 .. MaxCycle
    PROVE  /\ c # 1 => c - 1 \in 1 .. MaxCycle /\ c - 1 # c
           /\ \A k \in 1 .. MaxCycle : k > c => k # c
  BY Bounds

\* Only the directory of the current cycle is written.
LEMMA OneDirectory ==
    ASSUME NEW c, NEW D, NEW files, Consistent(c, D, files), c.id > 0,
           NEW d, HistoryOK(d.history, c.id),
           d # NoDir => /\ Directory(d) /\ d.report # "no directory"
                        /\ d.ident = c /\ d.receipts \subseteq files
                        /\ \A f \in d.receipts : f.ident = c
                        /\ DOMAIN d.schedule \subseteq c.pool
    PROVE  Consistent(c, [D EXCEPT ![c.id] = d], files)
  <1> DEFINE E == [D EXCEPT ![c.id] = d]
  <1>1. c \in Idents /\ c.id \in 1 .. MaxCycle
    BY CurrentCycle
  <1>2. /\ DOMAIN E = 1 .. MaxCycle /\ E = [k \in 1 .. MaxCycle |-> E[k]]
        /\ E[c.id] = d /\ \A k \in 1 .. MaxCycle : k # c.id => E[k] = D[k]
    BY <1>1 DEF Consistent
  <1> HIDE DEF E
  <1>3. \A k \in 1 .. MaxCycle : DirOK(E[k], k, files) /\ HistoryOK(E[k].history, k)
    <2>1. SUFFICES ASSUME NEW k \in 1 .. MaxCycle
                   PROVE  DirOK(E[k], k, files) /\ HistoryOK(E[k].history, k)
      OBVIOUS
    <2>2. CASE k = c.id
      BY <1>1, <1>2, <2>2 DEF DirOK
    <2>3. CASE k # c.id
      BY <1>2, <2>3 DEF Consistent
    <2>4. QED
      BY <2>2, <2>3
  <1>4. BestRanked(E, c.id, c.pool)
    <2>1. Before(E, c.id) = Before(D, c.id)
      <3>1. CASE c.id = 1
        BY <3>1 DEF Before
      <3>2. CASE c.id # 1
        <4>1. c.id - 1 \in 1 .. MaxCycle /\ c.id - 1 # c.id
          BY <1>1, <3>2, Neighbours
        <4>2. E[c.id - 1] = D[c.id - 1]
          BY <1>2, <4>1
        <4>3. QED
          BY <3>2, <4>2 DEF Before
      <3>3. QED
        BY <3>1, <3>2
    <2>2. BestRanked(D, c.id, c.pool)
      BY DEF Consistent
    <2>3. QED
      BY <2>1, <2>2 DEF BestRanked
  <1>5. \A k \in 1 .. MaxCycle : k > c.id => E[k] = NoDir
    <2>1. \A k \in 1 .. MaxCycle : k > c.id => D[k] = NoDir
      BY DEF Consistent
    <2>2. \A k \in 1 .. MaxCycle : k > c.id => k # c.id
      BY <1>1, Neighbours
    <2>3. QED
      BY <1>2, <2>1, <2>2
  <1>6. \A f \in files : OwnPolicy(f)
    BY DEF Consistent
  <1>7. E[c.id] # NoDir => E[c.id].ident = c
    BY <1>2
  <1>8. Consistent(c, E, files)
    BY <1>1, <1>2, <1>3, <1>4, <1>5, <1>6, <1>7 DEF Consistent
  <1>9. QED
    BY <1>8 DEF E

\* A directory after another file of the same cycle was written.
Grown(o, d) ==
    Directory(d) /\ d.ident = o.ident /\ d.receipts = o.receipts /\ d.schedule = o.schedule

\* What Write does to a directory.
LEMMA Written ==
    ASSUME NEW o, Directory(o), NEW v
    PROVE  /\ Grown(o, [o EXCEPT !["report"] = v])
           /\ [o EXCEPT !["report"] = v].report = v
           /\ [o EXCEPT !["report"] = v].history = o.history
           /\ Grown(o, [o EXCEPT !["history"] = v])
           /\ [o EXCEPT !["history"] = v].history = v
           /\ [o EXCEPT !["history"] = v].report = o.report
           /\ Grown(o, [o EXCEPT !["trained"] = v])
           /\ [o EXCEPT !["trained"] = v].history = o.history
           /\ [o EXCEPT !["trained"] = v].report = o.report
  <1>1. PICK i, f, r, s, h, t : /\ i = o.ident /\ f = o.receipts /\ r = o.report
                                /\ s = o.schedule /\ h = o.history /\ t = o.trained
    OBVIOUS
  <1>2. o = [ident |-> i, receipts |-> f, report |-> r, schedule |-> s,
             history |-> h, trained |-> t]
    BY <1>1 DEF Directory
  <1>3. [o EXCEPT !["report"] = v] = [ident |-> i, receipts |-> f, report |-> v,
             schedule |-> s, history |-> h, trained |-> t]
    BY <1>2
  <1>4. [o EXCEPT !["history"] = v] = [ident |-> i, receipts |-> f, report |-> r,
             schedule |-> s, history |-> v, trained |-> t]
    BY <1>2
  <1>5. [o EXCEPT !["trained"] = v] = [ident |-> i, receipts |-> f, report |-> r,
             schedule |-> s, history |-> h, trained |-> v]
    BY <1>2
  <1>6. QED
    BY <1>1, <1>3, <1>4, <1>5 DEF Grown, Directory

LEMMA OneField ==
    ASSUME NEW c, NEW D, NEW files, Consistent(c, D, files), c.id > 0, D[c.id] # NoDir,
           NEW d, Grown(D[c.id], d), d.report # "no directory", HistoryOK(d.history, c.id)
    PROVE  Consistent(c, [D EXCEPT ![c.id] = d], files)
  <1>1. c.id \in 1 .. MaxCycle
    BY CurrentCycle
  <1>2. /\ D[c.id].ident = c /\ D[c.id].receipts \subseteq files
        /\ \A f \in D[c.id].receipts : f.ident = c
        /\ DOMAIN D[c.id].schedule \subseteq c.pool
    BY <1>1 DEF Consistent, DirOK
  <1>3. /\ Directory(d) /\ d.ident = c /\ d.receipts \subseteq files
        /\ \A f \in d.receipts : f.ident = c
        /\ DOMAIN d.schedule \subseteq c.pool
    BY <1>2 DEF Grown
  <1>4. QED
    BY <1>3, OneDirectory

\* A bound file leaves everything else alone.
LEMMA MoreFiles ==
    ASSUME NEW c, NEW D, NEW files, Consistent(c, D, files),
           NEW more, files \subseteq more, \A f \in more : OwnPolicy(f)
    PROVE  Consistent(c, D, more)
  <1>1. \A k \in 1 .. MaxCycle : DirOK(D[k], k, more)
    BY DEF Consistent, DirOK
  <1>2. QED
    BY <1>1 DEF Consistent

LEMMA NextCycle ==
    ASSUME NEW c, NEW D, NEW files, Consistent(c, D, files), c.id + 1 <= MaxCycle,
           NEW old \in Nat, NEW pool \in SUBSET Problems,
           BestRanked(D, c.id + 1, pool)
    PROVE  Consistent([id |-> c.id + 1, old |-> old, pool |-> pool], D, files)
  <1>1. c.id \in 0 .. MaxCycle /\ MaxCycle \in Nat
    BY Bounds DEF Consistent, Idents
  <1>2. PICK n : n = c.id + 1
    OBVIOUS
  <1>3. n \in 1 .. MaxCycle /\ n > c.id /\ \A k \in 1 .. MaxCycle : k > n => k > c.id
    BY <1>1, <1>2
  <1>4. \A k \in 1 .. MaxCycle : k > n => D[k] = NoDir
    BY <1>3 DEF Consistent
  <1>5. D[n] = NoDir
    BY <1>3 DEF Consistent
  <1> DEFINE next == [id |-> n, old |-> old, pool |-> pool]
  <1>6. next \in Idents /\ next.id = n /\ next.pool = pool
    BY <1>1, <1>3 DEF Idents
  <1> HIDE DEF next
  <1>7. BestRanked(D, n, pool)
    BY <1>2
  <1>8. Consistent(next, D, files)
    BY <1>4, <1>5, <1>6, <1>7 DEF Consistent
  <1>9. QED
    BY <1>2, <1>8 DEF next

------------------------------------------------------------------------------
(* The steps                                                               *)

\* A directory has a report, even if it says that there is none yet.
LEMMA NoDirReport ==
    /\ NoDir.report = "no directory" /\ NoDir.history = NoHistory
    /\ DOMAIN NoDir.schedule = {}
  BY NoVisit DEF NoDir

LEMMA FreezeKeeps ==
    ASSUME CycleInv, NEW pool \in SUBSET Problems, freeze_cycle(pool)
    PROVE  CycleInv'
  <1>1. /\ cycle.id + 1 <= MaxCycle /\ ~ finalizing
        /\ cycle' = [id |-> cycle.id + 1, old |-> policy, pool |-> pool]
        /\ UNCHANGED <<policy, bound, dirs, finalizing>>
        /\ \A p \in pool, q \in Problems \ pool :
              Rank(Prior(cycle.id + 1), p) <= Rank(Prior(cycle.id + 1), q)
    BY DEF freeze_cycle
  <1>2. BestRanked(dirs, cycle.id + 1, pool)
    BY <1>1 DEF BestRanked, Before, Prior
  <1>3. policy \in Nat /\ Consistent(cycle, dirs, bound)
    BY DEF CycleInv
  <1>4. Consistent([id |-> cycle.id + 1, old |-> policy, pool |-> pool], dirs, bound)
    BY <1>1, <1>2, <1>3, NextCycle
  <1>5. Consistent(cycle', dirs', bound')
    BY <1>1, <1>4
  <1>6. QED
    BY <1>1, <1>3, <1>5 DEF CycleInv

LEMMA BindKeeps ==
    ASSUME CycleInv, NEW stage, NEW pool, NEW by, NEW successes,
           bind_receipts(stage, pool, by, successes)
    PROVE  CycleInv'
  <1> DEFINE f == [ident |-> cycle, stage |-> stage,
                   rows |-> [p \in pool |-> [successes |-> successes[p], by |-> by]]]
  <1>1. /\ by = cycle.old /\ bound' = bound \cup {f}
        /\ UNCHANGED <<policy, cycle, dirs, finalizing>>
    BY DEF bind_receipts
  <1>2. OwnPolicy(f)
    BY <1>1 DEF OwnPolicy
  <1> HIDE DEF f
  <1>3. \A g \in bound' : OwnPolicy(g)
    BY <1>1, <1>2 DEF CycleInv, Consistent
  <1>4. Consistent(cycle, dirs, bound) /\ bound \subseteq bound'
    BY <1>1 DEF CycleInv
  <1>5. Consistent(cycle, dirs, bound')
    BY <1>3, <1>4, MoreFiles
  <1>6. Consistent(cycle', dirs', bound')
    BY <1>1, <1>5
  <1>7. QED
    BY <1>1, <1>6 DEF CycleInv

LEMMA FinalizeKeeps ==
    ASSUME CycleInv, cycle.id > 0, NEW F \in SUBSET bound, finalize(F)
    PROVE  CycleInv'
  <1>1. PICK seq \in [1 .. TrainingSlots -> cycle.pool] :
          dirs' = [dirs EXCEPT ![cycle.id] =
              [ident |-> cycle, receipts |-> F, report |-> "none",
               schedule |-> ScheduleRows(F, seq), history |-> NoHistory,
               trained |-> FALSE]]
    BY DEF finalize
  <1>2. /\ \A f \in F : f.ident = cycle
        /\ UNCHANGED <<policy, cycle, bound>>
    BY DEF finalize, ValidReceipts
  <1>3. PICK d : d = [ident |-> cycle, receipts |-> F, report |-> "none",
               schedule |-> ScheduleRows(F, seq), history |-> NoHistory,
               trained |-> FALSE]
    OBVIOUS
  <1>4. DOMAIN ScheduleRows(F, seq) \subseteq cycle.pool
    BY DEF ScheduleRows
  <1>5. cycle.id \in 1 .. MaxCycle /\ Consistent(cycle, dirs, bound)
    BY CurrentCycle DEF CycleInv
  <1>6. HistoryOK(NoHistory, cycle.id)
    BY <1>5, EmptyHistory
  <1>7. /\ Directory(d) /\ d.report = "none" /\ d.ident = cycle /\ d.receipts = F
        /\ d.schedule = ScheduleRows(F, seq) /\ d.history = NoHistory
    BY <1>3 DEF Directory
  <1>8. Consistent(cycle, [dirs EXCEPT ![cycle.id] = d], bound)
    BY <1>2, <1>4, <1>5, <1>6, <1>7, OneDirectory
  <1>9. Consistent(cycle', dirs', bound')
    BY <1>1, <1>2, <1>3, <1>8
  <1>10. d # NoDir /\ dirs'[cycle'.id] = d
    BY <1>1, <1>2, <1>3, <1>5, <1>7, NoDirReport DEF Consistent
  <1>11. QED
    BY <1>2, <1>9, <1>10 DEF CycleInv

\* The steps that Write one field of the current directory.
LEMMA WriteKeeps ==
    ASSUME CycleInv, cycle.id > 0, dirs[cycle.id] # NoDir,
           NEW d, Grown(dirs[cycle.id], d), d.report # "no directory",
           HistoryOK(d.history, cycle.id), dirs' = [dirs EXCEPT ![cycle.id] = d],
           policy' \in Nat, UNCHANGED <<cycle, bound>>
    PROVE  CycleInv'
  <1>1. cycle.id \in 1 .. MaxCycle /\ Consistent(cycle, dirs, bound)
    BY CurrentCycle DEF CycleInv
  <1>2. Consistent(cycle, [dirs EXCEPT ![cycle.id] = d], bound)
    BY <1>1, OneField
  <1>3. Consistent(cycle', dirs', bound')
    BY <1>2
  <1>4. dirs'[cycle.id] = d
    BY <1>1 DEF Consistent
  <1>5. dirs'[cycle'.id] # NoDir /\ cycle'.id > 0
    BY <1>4, NoDirReport
  <1>6. QED
    BY <1>3, <1>5 DEF CycleInv

\* What is known of a directory that is there.
LEMMA Present ==
    ASSUME CycleInv, cycle.id > 0, NEW o, o = dirs[cycle.id], o # NoDir
    PROVE  /\ cycle.id \in 1 .. MaxCycle /\ Directory(o) /\ o.ident = cycle
           /\ o.report # "no directory" /\ HistoryOK(o.history, cycle.id)
  <1>1. cycle.id \in 1 .. MaxCycle /\ Consistent(cycle, dirs, bound)
    BY CurrentCycle DEF CycleInv
  <1>2. DirOK(o, cycle.id, bound) /\ HistoryOK(o.history, cycle.id) /\ o.ident = cycle
    BY <1>1 DEF Consistent
  <1>3. QED
    BY <1>1, <1>2 DEF DirOK

LEMMA ReportKeeps ==
    ASSUME CycleInv, cycle.id > 0, dirs[cycle.id] # NoDir,
           NEW r, r # "no directory", Write("report", r)
    PROVE  CycleInv'
  <1>1. PICK o : o = dirs[cycle.id]
    OBVIOUS
  <1>2. PICK d : d = [o EXCEPT !["report"] = r]
    OBVIOUS
  <1>3. Directory(o) /\ HistoryOK(o.history, cycle.id)
    BY <1>1, Present
  <1>4. Grown(dirs[cycle.id], d) /\ d.report = r /\ HistoryOK(d.history, cycle.id)
    <2>1. Grown(o, d) /\ d.report = r /\ d.history = o.history
      BY <1>2, <1>3, Written, Zenon
    <2>2. QED
      BY <1>1, <1>3, <2>1
  <1>5. /\ dirs' = [dirs EXCEPT ![cycle.id] = d] /\ policy' \in Nat
        /\ UNCHANGED <<cycle, bound>>
    BY <1>1, <1>2 DEF Write, CycleInv
  <1>6. QED
    BY <1>4, <1>5, WriteKeeps

LEMMA HistoryKeeps ==
    ASSUME CycleInv, WriteHistory
    PROVE  CycleInv'
  <1>1. cycle.id > 0 /\ dirs[cycle.id] # NoDir
    BY DEF CycleInv, WriteHistory
  <1>2. PICK o : o = dirs[cycle.id]
    OBVIOUS
  <1>3. PICK d : d = [o EXCEPT !["history"] = Appended(o)]
    OBVIOUS
  <1>4. /\ Directory(o) /\ o.ident = cycle /\ cycle.id \in 1 .. MaxCycle
        /\ Consistent(cycle, dirs, bound) /\ o.report # "no directory"
    BY <1>1, <1>2, Present DEF CycleInv
  <1>5. HistoryOK(Appended(o), cycle.id)
    <2>1. \A k : Prior(k) = Before(dirs, k)
      BY DEF Prior, Before
    <2>2. HistoryOK(Before(dirs, cycle.id), cycle.id - 1)
      BY <1>4, BeforeOK
    <2>3. \A p \in cycle.pool, q \in Problems \ cycle.pool :
             Rank(Before(dirs, cycle.id), p) <= Rank(Before(dirs, cycle.id), q)
      BY <1>1, <1>4 DEF Consistent, BestRanked
    <2>4. cycle \in Idents
      BY <1>4 DEF Consistent
    <2>5. PICK k \in 1 .. MaxCycle : k = cycle.id
      BY <1>4
    <2>6. /\ HistoryOK(Prior(k), k - 1)
          /\ \A p \in cycle.pool, q \in Problems \ cycle.pool :
                Rank(Prior(k), p) <= Rank(Prior(k), q)
      BY <2>1, <2>2, <2>3, <2>5
    <2>7. o.ident \in Idents /\ o.ident.id = k /\ o.ident.pool = cycle.pool
      BY <1>4, <2>4, <2>5
    <2>8. HistoryOK(Appended(o), k)
      BY <2>6, <2>7, AppendedOK
    <2>9. QED
      BY <2>5, <2>8
  <1>6. /\ Grown(dirs[cycle.id], d) /\ d.report # "no directory"
        /\ HistoryOK(d.history, cycle.id)
    <2>1. Grown(o, d) /\ d.report = o.report /\ d.history = Appended(o)
      BY <1>3, <1>4, Written, Zenon
    <2>2. QED
      BY <1>2, <1>4, <1>5, <2>1
  <1>7. /\ dirs' = [dirs EXCEPT ![cycle.id] = d] /\ policy' \in Nat
        /\ UNCHANGED <<cycle, bound>>
    BY <1>2, <1>3 DEF WriteHistory, Write, CycleInv
  <1>8. QED
    BY <1>1, <1>6, <1>7, WriteKeeps

LEMMA TrainKeeps ==
    ASSUME CycleInv, Train
    PROVE  CycleInv'
  <1>1. PICK o : o = dirs[cycle.id]
    OBVIOUS
  <1>2. PICK d : d = [o EXCEPT !["trained"] = TRUE]
    OBVIOUS
  <1>3. /\ dirs' = [dirs EXCEPT ![cycle.id] = d]
        /\ o.report \in {"schedule", "history"} /\ cycle.id > 0
        /\ policy' = policy + 1 /\ UNCHANGED <<cycle, bound>>
    BY <1>1, <1>2 DEF Train
  <1>4. policy' \in Nat
    BY <1>3 DEF CycleInv
  <1>5. dirs[cycle.id] # NoDir
    BY <1>1, <1>3, NoDirReport
  <1>6. Directory(o) /\ HistoryOK(o.history, cycle.id) /\ o.report # "no directory"
    BY <1>1, <1>3, <1>5, Present
  <1>7. /\ Grown(dirs[cycle.id], d) /\ d.report # "no directory"
        /\ HistoryOK(d.history, cycle.id)
    <2>1. Grown(o, d) /\ d.report = o.report /\ d.history = o.history
      BY <1>2, <1>6, Written, Zenon
    <2>2. QED
      BY <1>1, <1>6, <2>1
  <1>8. QED
    BY <1>3, <1>4, <1>5, <1>7, WriteKeeps

LEMMA RemoveKeeps ==
    ASSUME CycleInv, RemoveDir
    PROVE  CycleInv'
  <1>1. /\ cycle.id > 0 /\ ~ finalizing
        /\ dirs' = [dirs EXCEPT ![cycle.id] = NoDir]
        /\ UNCHANGED <<policy, cycle, bound, finalizing>>
    BY DEF RemoveDir
  <1>2. Consistent(cycle, dirs, bound) /\ cycle.id \in 1 .. MaxCycle
    BY <1>1, CurrentCycle DEF CycleInv
  <1>3. HistoryOK(NoDir.history, cycle.id)
    <2>1. PICK k \in Nat : k = cycle.id
      BY <1>2
    <2>2. QED
      BY <2>1, EmptyHistory, NoDirReport
  <1>4. Consistent(cycle, [dirs EXCEPT ![cycle.id] = NoDir], bound)
    BY <1>1, <1>2, <1>3, OneDirectory
  <1>5. Consistent(cycle', dirs', bound')
    BY <1>1, <1>4
  <1>6. QED
    BY <1>1, <1>5 DEF CycleInv

\* What neither binds a file nor touches a directory.
LEMMA NothingChanges ==
    ASSUME CycleInv, UNCHANGED <<policy, cycle, bound, dirs>>, finalizing' => finalizing
    PROVE  CycleInv'
  BY DEF CycleInv

LEMMA InvariantKept == CycleInv /\ [Next]_vars => CycleInv'
  <1>1. SUFFICES ASSUME CycleInv, [Next]_vars PROVE CycleInv'
    OBVIOUS
  <1>2. CASE Freeze
    BY <1>1, <1>2, FreezeKeeps DEF Freeze
  <1>3. CASE Bind
    BY <1>1, <1>3, BindKeeps DEF Bind
  <1>4. CASE Plan
    <2>1. UNCHANGED <<policy, cycle, bound, dirs, finalizing>>
      BY <1>4 DEF Plan, plan_topup
    <2>2. QED
      BY <1>1, <2>1, NothingChanges
  <1>5. CASE Finalize
    BY <1>1, <1>5, FinalizeKeeps DEF Finalize
  <1>6. CASE WriteReport
    BY <1>1, <1>6, ReportKeeps DEF WriteReport, CycleInv
  <1>7. CASE WriteHistory
    BY <1>1, <1>7, HistoryKeeps
  <1>8. CASE RewriteReport
    BY <1>1, <1>8, ReportKeeps DEF RewriteReport, CycleInv
  <1>9. CASE Crash
    <2>1. UNCHANGED <<policy, cycle, bound, dirs>> /\ finalizing' = FALSE
      BY <1>9 DEF Crash
    <2>2. QED
      BY <1>1, <2>1, NothingChanges
  <1>10. CASE RemoveDir
    BY <1>1, <1>10, RemoveKeeps
  <1>11. CASE Train
    BY <1>1, <1>11, TrainKeeps
  <1>12. CASE UNCHANGED vars
    <2>1. UNCHANGED <<policy, cycle, bound, dirs, finalizing>>
      BY <1>12 DEF vars
    <2>2. QED
      BY <1>1, <2>1, NothingChanges
  <1>13. QED
    BY <1>1, <1>2, <1>3, <1>4, <1>5, <1>6, <1>7, <1>8, <1>9, <1>10, <1>11, <1>12 DEF Next

LEMMA AlwaysInv == Spec => []CycleInv
  <1>1. Init => CycleInv
    BY InitInv
  <1>2. CycleInv /\ [Next]_vars => CycleInv'
    BY InvariantKept
  <1>3. QED
    BY <1>1, <1>2, PTL DEF Spec

------------------------------------------------------------------------------
(* Sums of successes                                                       *)

LEMMA LeastNumber ==
    ASSUME NEW T \in SUBSET Nat, T # {}
    PROVE  \E x \in T : \A y \in T : x <= y
  <1>1. PICK x \in T : \A y \in T : ~ (<<y, x>> \in OpToRel(<, Nat))
    BY NatLessThanWellFounded, WFMin
  <1>2. \A y \in T : ~ (y < x)
    BY <1>1 DEF OpToRel
  <1>3. QED
    BY <1>2

Pick(s) == CHOOSE x \in s : TRUE
\* sum adds up the successes on p in the sets of files of U.
Sums(U, p, sum) ==
    sum = [s \in U |-> IF s = {} THEN 0
                       ELSE Pick(s).rows[p].successes + sum[s \ {Pick(s)}]]

LEMMA Smaller ==
    ASSUME NEW s, IsFiniteSet(s), s # {}
    PROVE  /\ IsFiniteSet(s \ {Pick(s)}) /\ Pick(s) \in s
           /\ Cardinality(s) \in Nat \ {0}
           /\ Cardinality(s \ {Pick(s)}) = Cardinality(s) - 1
  <1>1. Pick(s) \in s
    BY DEF Pick
  <1>2. Cardinality(s) \in Nat /\ Cardinality(s) # 0
    BY FS_CardinalityType, FS_EmptySet
  <1>3. QED
    BY <1>1, <1>2, FS_RemoveElement

LEMMA SumsExist ==
    ASSUME NEW S, IsFiniteSet(S), NEW p
    PROVE  \E sum : Sums(SUBSET S, p, sum)
  <1> DEFINE U(n) == {t \in SUBSET S : Cardinality(t) <= n}
             Bad == {n \in Nat : ~ \E sum : Sums(U(n), p, sum)}
  <1>1. \A t \in SUBSET S : IsFiniteSet(t) /\ Cardinality(t) \in Nat /\ Cardinality(t) <= Cardinality(S)
    BY FS_Subset, FS_CardinalityType
  <1>2. Cardinality(S) \in Nat
    BY FS_CardinalityType
  <1>3. Bad = {}
    <2>1. SUFFICES ASSUME Bad # {} PROVE FALSE
      OBVIOUS
    <2>2. PICK n \in Bad : \A m \in Bad : n <= m
      BY <2>1, LeastNumber
    <2>3. n \in Nat /\ ~ \E sum : Sums(U(n), p, sum)
      BY <2>2
    <2>4. CASE n = 0
      <3>1. \A t \in U(0) : t = {}
        BY <1>1, FS_EmptySet
      <3> DEFINE sum == [s \in U(0) |-> 0]
      <3>2. sum = [s \in U(0) |-> IF s = {} THEN 0
                       ELSE Pick(s).rows[p].successes + sum[s \ {Pick(s)}]]
        BY <3>1
      <3>3. QED
        BY <2>3, <2>4, <3>2 DEF Sums
    <2>5. CASE n # 0
      <3>1. n - 1 \in Nat /\ n - 1 \notin Bad
        <4> HIDE DEF Bad
        <4>1. n - 1 \in Nat /\ ~ (n <= n - 1)
          BY <2>3, <2>5
        <4>2. QED
          BY <2>2, <4>1
      <3>2. PICK old : Sums(U(n - 1), p, old)
        BY <3>1
      <3> DEFINE value(f, s) == IF s = {} THEN 0
                                ELSE Pick(s).rows[p].successes + f[s \ {Pick(s)}]
                 sum == [s \in U(n) |-> value(old, s)]
      <3>3. \A t \in U(n - 1) : t \in U(n)
        BY <1>1, <2>3
      <3>4. old = [s \in U(n - 1) |-> value(old, s)]
        BY <3>2 DEF Sums
      <3> HIDE DEF value
      <3>5. \A t \in U(n - 1) : sum[t] = old[t]
        BY <3>3, <3>4
      <3>6. ASSUME NEW s \in U(n) PROVE value(old, s) = value(sum, s)
        <4>1. CASE s = {}
          BY <4>1 DEF value
        <4>2. CASE s # {}
          <5>1. /\ s \in SUBSET S /\ IsFiniteSet(s) /\ Cardinality(s) <= n
            BY <1>1
          <5>2. /\ Cardinality(s \ {Pick(s)}) = Cardinality(s) - 1
                /\ Cardinality(s) \in Nat
            BY <4>2, <5>1, Smaller
          <5>3. s \ {Pick(s)} \in U(n - 1)
            BY <5>1, <5>2, <2>3
          <5>4. QED
            BY <5>3, <3>5 DEF value
        <4>3. QED
          BY <4>1, <4>2
      <3>7. sum = [s \in U(n) |-> value(sum, s)]
        BY <3>6
      <3>8. Sums(U(n), p, sum)
        BY <3>7 DEF Sums, value
      <3>9. QED
        BY <2>3, <3>8
    <2>6. QED
      BY <2>4, <2>5
  <1>4. U(Cardinality(S)) = SUBSET S
    BY <1>1
  <1>5. QED
    BY <1>2, <1>3, <1>4

\* Every attempt of p that F counts is counted by a number.
Counted(F, p) == /\ IsFiniteSet(F)
                 /\ \A f \in F : p \in DOMAIN f.rows => f.rows[p].successes \in Nat

LEMMA SuccessesAre ==
    ASSUME NEW F, NEW p, Counted(F, p), NEW stages
    PROVE  /\ Successes(F, p, stages) \in Nat
           /\ Successes(F, p, stages) = 0
                <=> \A f \in Rows(F, p, stages) : f.rows[p].successes = 0
  <1> DEFINE S == Rows(F, p, stages)
             iter == CHOOSE iter : iter = [s \in SUBSET S |-> IF s = {} THEN 0
                       ELSE Pick(s).rows[p].successes + iter[s \ {Pick(s)}]]
  <1>1. S \in SUBSET F /\ \A f \in S : f.rows[p].successes \in Nat
    BY DEF Counted, Rows
  <1>2. IsFiniteSet(S)
    BY <1>1, FS_Subset DEF Counted
  <1>3. Successes(F, p, stages) = iter[S]
    BY DEF Successes, MapThenSumSet, MapThenFoldSet, Pick
  <1> HIDE DEF S
  <1>4. \E sum : Sums(SUBSET S, p, sum)
    BY <1>2, SumsExist
  <1>5. iter = [s \in SUBSET S |-> IF s = {} THEN 0
                       ELSE Pick(s).rows[p].successes + iter[s \ {Pick(s)}]]
    BY <1>4 DEF Sums
  <1> HIDE DEF iter
  <1> DEFINE zero(s) == \A f \in s : f.rows[p].successes = 0
             good(s) == iter[s] \in Nat /\ (iter[s] = 0 <=> zero(s))
             Bad == {n \in Nat : \E s \in SUBSET S : Cardinality(s) = n /\ ~ good(s)}
  <1>6. \A s \in SUBSET S : IsFiniteSet(s) /\ Cardinality(s) \in Nat
    BY <1>2, FS_Subset, FS_CardinalityType
  <1>7. Bad = {}
    <2>1. SUFFICES ASSUME Bad # {} PROVE FALSE
      OBVIOUS
    <2>2. PICK n \in Bad : \A m \in Bad : n <= m
      BY <2>1, LeastNumber
    <2>3. PICK s \in SUBSET S : Cardinality(s) = n /\ ~ good(s)
      BY <2>2
    <2>4. CASE s = {}
      BY <1>5, <2>3, <2>4
    <2>5. CASE s # {}
      <3> DEFINE x == Pick(s)  r == s \ {x}
      <3>1. x \in s /\ Cardinality(s) \in Nat \ {0} /\ Cardinality(r) = n - 1
        BY <1>6, <2>3, <2>5, Smaller
      <3>2. iter[s] = x.rows[p].successes + iter[r]
        BY <1>5, <2>5
      <3>3. r \in SUBSET S
        OBVIOUS
      <3>4. good(r)
        <4>1. n - 1 \in Nat /\ n - 1 < n
          BY <2>3, <3>1
        <4>2. n - 1 \notin Bad
          BY <2>2, <4>1
        <4>3. QED
          BY <3>1, <3>3, <4>1, <4>2
      <3>5. x.rows[p].successes \in Nat
        BY <1>1, <3>1
      <3>6. zero(s) <=> x.rows[p].successes = 0 /\ zero(r)
        BY <3>1
      <3> HIDE DEF x, r, zero
      <3>7. QED
        BY <2>3, <3>2, <3>4, <3>5, <3>6
    <2>6. QED
      BY <2>4, <2>5
  <1>8. good(S)
    BY <1>6, <1>7
  <1>9. QED
    BY <1>3, <1>8 DEF S

LEMMA Totals ==
    ASSUME NEW F, NEW p, Counted(F, p)
    PROVE  /\ Total(F, p) \in Nat /\ Initial(F, p) \in Nat
           /\ Initial(F, p) > 0 => Total(F, p) > 0
  <1>1. Total(F, p) \in Nat /\ Initial(F, p) \in Nat
    BY SuccessesAre DEF Total, Initial
  <1>2. Total(F, p) = 0 => \A f \in Rows(F, p, Stages) : f.rows[p].successes = 0
    BY SuccessesAre DEF Total
  <1>3. (\A f \in Rows(F, p, {"pass8"}) : f.rows[p].successes = 0) => Initial(F, p) = 0
    BY SuccessesAre DEF Initial
  <1>4. \A f \in Rows(F, p, {"pass8"}) : f \in Rows(F, p, Stages)
    BY DEF Rows, Stages
  <1>5. Total(F, p) = 0 => Initial(F, p) = 0
    BY <1>2, <1>3, <1>4
  <1>6. QED
    BY <1>1, <1>5

------------------------------------------------------------------------------
(* A schedule rests on its evidence                                        *)

LEMMA MinOfTwo ==
    ASSUME NEW a \in Int, NEW b \in Int
    PROVE  Min({a, b}) = IF a <= b THEN a ELSE b
  BY DEF Min

LEMMA Rounded ==
    ASSUME NEW T \in Nat \ {0}
    PROVE  /\ Round(T, 2) \in Nat /\ Round(3 * T, 10) \in Nat
           /\ Round(T, 2) + Round(3 * T, 10) <= T
  <1>1. CASE T \in 1 .. 4
    <2>1. T = 1 \/ T = 2 \/ T = 3 \/ T = 4
      BY <1>1
    <2>2. QED
      BY <2>1 DEF Round
  <1>2. CASE T > 4
    BY <1>2 DEF Round
  <1>3. QED
    BY <1>1, <1>2

\* _select_active leaves a slot free only when no active problem is left.
LEMMA FillsFirst ==
    ASSUME NEW have, have.sparse \in Nat, have.middle \in Nat, have.boundary \in Nat
    PROVE  LET taken == ActiveTaken(have) IN
           /\ DOMAIN taken = {"sparse", "middle", "boundary"}
           /\ taken.sparse \in Nat /\ taken.middle \in Nat /\ taken.boundary \in Nat
           /\ taken.sparse + taken.middle + taken.boundary < TrainingSlots
                => /\ taken.sparse = have.sparse /\ taken.middle = have.middle
                   /\ taken.boundary = have.boundary
  <1> DEFINE sparse == Round(TrainingSlots, 2)
             middle == Round(3 * TrainingSlots, 10)
             h1 == have.sparse  h2 == have.middle  h3 == have.boundary
             f1 == Min({sparse, h1})
             f2 == Min({middle, h2})
             f3 == Min({TrainingSlots - sparse - middle, h3})
             free == TrainingSlots - f1 - f2 - f3
             s == Min({free, h1 - f1})
             m == Min({free - s, h2 - f2})
             b == Min({free - s - m, h3 - f3})
  <1>1. TrainingSlots \in Nat \ {0}
    BY CycleAssumption DEF TrainingSlots
  <1>2. /\ sparse \in Nat /\ middle \in Nat /\ sparse + middle <= TrainingSlots
        /\ h1 \in Nat /\ h2 \in Nat /\ h3 \in Nat
    BY <1>1, Rounded
  <1>3. ActiveTaken(have) = [sparse |-> f1 + s, middle |-> f2 + m, boundary |-> f3 + b]
    BY DEF ActiveTaken
  <1> HIDE DEF sparse, middle, h1, h2, h3
  <1>4. /\ f1 \in Nat /\ f1 <= sparse /\ f1 <= h1
        /\ f2 \in Nat /\ f2 <= middle /\ f2 <= h2
        /\ f3 \in Nat /\ f3 <= TrainingSlots - sparse - middle /\ f3 <= h3
    BY <1>1, <1>2, MinOfTwo
  <1> HIDE DEF f1, f2, f3
  <1>5. free \in Nat /\ free = TrainingSlots - f1 - f2 - f3
    BY <1>1, <1>2, <1>4
  <1> HIDE DEF free
  <1>6. s \in Nat /\ s <= free /\ (s = free \/ f1 + s = h1) /\ f1 + s \in Nat
    BY <1>2, <1>4, <1>5, MinOfTwo
  <1> HIDE DEF s
  <1>7. m \in Nat /\ m <= free - s /\ (m = free - s \/ f2 + m = h2)
    BY <1>2, <1>4, <1>5, <1>6, MinOfTwo
  <1> HIDE DEF m
  <1>8. b \in Nat /\ b <= free - s - m /\ (b = free - s - m \/ f3 + b = h3)
    <2>1. free - s - m \in Nat /\ h3 - f3 \in Nat
      BY <1>2, <1>4, <1>5, <1>6, <1>7
    <2>2. b = IF free - s - m <= h3 - f3 THEN free - s - m ELSE h3 - f3
      BY <2>1, MinOfTwo
    <2>3. QED
      BY <1>2, <1>4, <2>1, <2>2
  <1> HIDE DEF b
  <1>9. f1 + s + (f2 + m) + (f3 + b) < TrainingSlots
           => f1 + s = h1 /\ f2 + m = h2 /\ f3 + b = h3
    BY <1>1, <1>4, <1>5, <1>6, <1>7, <1>8
  <1>10. f1 + s \in Nat /\ f2 + m \in Nat /\ f3 + b \in Nat
    BY <1>4, <1>6, <1>7, <1>8
  <1>11. QED
    BY <1>3, <1>9, <1>10 DEF h1, h2, h3

LEMMA ThreeStages ==
    ASSUME NEW S, Canonical(S)
    PROVE  Cardinality(S) = 3 <=> S = Stages
  <1>1. IsFiniteSet({"pass8"}) /\ Cardinality({"pass8"}) = 1
    BY FS_Singleton
  <1>2. /\ IsFiniteSet({"pass8"} \cup {"pass16"})
        /\ Cardinality({"pass8"} \cup {"pass16"}) = 2
    BY <1>1, FS_AddElement
  <1>3. Cardinality({"pass8"} \cup {"pass16"} \cup {"pass32"}) = 3
    BY <1>2, FS_AddElement
  <1>4. /\ {"pass8"} \cup {"pass16"} = {"pass8", "pass16"}
        /\ {"pass8"} \cup {"pass16"} \cup {"pass32"} = Stages
    BY DEF Stages
  <1>5. QED
    BY <1>1, <1>2, <1>3, <1>4 DEF Canonical

Zero == {"unresolved_zero", "hard_bank"}

LEMMA Routes ==
    ASSUME NEW F, NEW p, Counted(F, p)
    PROVE  /\ Route(F, p) \in Active <=> Initial(F, p) < 5 /\ Total(F, p) > 0
           /\ Route(F, p) \in Zero <=> Total(F, p) = 0
           /\ Route(F, p) = "hard_bank" <=> Total(F, p) = 0 /\ StagesOf(F, p) = Stages
  BY Totals DEF Route, Active, Zero

\* A zero-success problem is chosen only after the last active one.
LEMMA ActiveFirst ==
    ASSUME cycle.pool \in SUBSET Problems, NEW F,
           NEW seq \in [1 .. TrainingSlots -> cycle.pool], ValidSchedule(F, seq),
           NEW i \in 1 .. TrainingSlots, Route(F, seq[i]) \notin Active
    PROVE  Routed(F, cycle.pool, Active) \subseteq {seq[j] : j \in DOMAIN seq}
  <1> DEFINE active == Routed(F, cycle.pool, Active)
             chosen == {seq[j] : j \in DOMAIN seq}
             bucket(p) == IF p \in active THEN Bucket(F, p) ELSE "zero"
             names == {"sparse", "middle", "boundary"}
             have == [b \in names |-> Cardinality({p \in active : Bucket(F, p) = b})]
             taken == ActiveTaken(have)
             all(b) == {p \in active : Bucket(F, p) = b}
             some(b) == {p \in chosen : bucket(p) = b}
  <1>1. /\ Cardinality(chosen) = Len(seq)
        /\ \A b \in DOMAIN taken : Cardinality(some(b)) = taken[b]
    BY DEF ValidSchedule
  <1>2. TrainingSlots \in Nat /\ Len(seq) = TrainingSlots /\ DOMAIN seq = 1 .. TrainingSlots
    BY Bounds
  <1>3. IsFiniteSet(cycle.pool) /\ chosen \subseteq cycle.pool /\ active \subseteq cycle.pool
    BY CycleAssumption, FS_Subset DEF Routed
  <1>4. IsFiniteSet(chosen) /\ IsFiniteSet(active)
    BY <1>3, FS_Subset
  <1>5. \A b \in names : /\ all(b) \subseteq active /\ IsFiniteSet(all(b))
                         /\ Cardinality(all(b)) \in Nat /\ have[b] = Cardinality(all(b))
    BY <1>4, FS_Subset, FS_CardinalityType
  <1>6. /\ have.sparse = Cardinality(all("sparse")) /\ have.middle = Cardinality(all("middle"))
        /\ have.boundary = Cardinality(all("boundary"))
        /\ have.sparse \in Nat /\ have.middle \in Nat /\ have.boundary \in Nat
    BY <1>5
  <1>7. \A b \in names : some(b) = all(b) \cap chosen
    BY <1>3
  <1>8. \A p \in active : Bucket(F, p) \in names
    BY DEF Bucket
  <1>9. seq[i] \in chosen /\ seq[i] \notin active
    BY <1>2 DEF Routed
  <1> HIDE DEF active, chosen, bucket, have, taken
  <1>10. /\ DOMAIN taken = names
         /\ taken.sparse \in Nat /\ taken.middle \in Nat /\ taken.boundary \in Nat
         /\ taken.sparse + taken.middle + taken.boundary < TrainingSlots
               => /\ taken.sparse = have.sparse /\ taken.middle = have.middle
                  /\ taken.boundary = have.boundary
    BY <1>6, FillsFirst DEF taken
  <1>11. /\ Cardinality(some("sparse")) = taken.sparse
         /\ Cardinality(some("middle")) = taken.middle
         /\ Cardinality(some("boundary")) = taken.boundary
    BY <1>1, <1>10
  <1> DEFINE s1 == all("sparse") \cap chosen
             s2 == all("middle") \cap chosen
             s3 == all("boundary") \cap chosen
  <1>12. /\ some("sparse") = s1 /\ some("middle") = s2 /\ some("boundary") = s3
    BY <1>7
  <1>13. /\ s1 \cap s2 = {} /\ (s1 \cup s2) \cap s3 = {}
         /\ active \cap chosen = s1 \cup s2 \cup s3
    BY <1>8
  <1>14. /\ IsFiniteSet(s1) /\ IsFiniteSet(s2) /\ IsFiniteSet(s3)
    BY <1>5, FS_Subset
  <1> HIDE DEF s1, s2, s3, some, all
  <1>15. Cardinality(active \cap chosen) = taken.sparse + taken.middle + taken.boundary
    <2>1. /\ IsFiniteSet(s1 \cup s2)
          /\ Cardinality(s1 \cup s2) = Cardinality(s1) + Cardinality(s2) - Cardinality({})
      BY <1>13, <1>14, FS_Union
    <2>2. Cardinality(s1 \cup s2 \cup s3)
            = Cardinality(s1 \cup s2) + Cardinality(s3) - Cardinality({})
      BY <1>13, <1>14, <2>1, FS_Union
    <2>3. Cardinality({}) = 0
      BY FS_EmptySet
    <2>4. /\ Cardinality(s1) = taken.sparse /\ Cardinality(s2) = taken.middle
          /\ Cardinality(s3) = taken.boundary
      BY <1>11, <1>12
    <2>5. Cardinality(active \cap chosen) = Cardinality(s1 \cup s2 \cup s3)
      BY <1>13
    <2>6. QED
      BY <1>10, <2>1, <2>2, <2>3, <2>4, <2>5
  <1>16. Cardinality(active \cap chosen) < TrainingSlots
    <2>1. /\ active \cap chosen \in SUBSET chosen /\ active \cap chosen # chosen
      BY <1>9
    <2>2. /\ Cardinality(active \cap chosen) <= Cardinality(chosen)
          /\ Cardinality(active \cap chosen) # Cardinality(chosen)
      BY <1>4, <2>1, FS_Subset
    <2>3. QED
      BY <1>1, <1>2, <1>10, <1>15, <2>2
  <1>17. /\ taken.sparse = have.sparse /\ taken.middle = have.middle
         /\ taken.boundary = have.boundary
    BY <1>10, <1>15, <1>16
  <1>18. ASSUME NEW b \in names, Cardinality(all(b) \cap chosen) = Cardinality(all(b))
         PROVE  all(b) \subseteq chosen
    <2>1. all(b) \cap chosen = all(b)
      BY <1>5, <1>18, FS_Subset
    <2>2. QED
      BY <2>1
  <1>19. /\ all("sparse") \subseteq chosen /\ all("middle") \subseteq chosen
         /\ all("boundary") \subseteq chosen
    BY <1>6, <1>11, <1>12, <1>17, <1>18 DEF s1, s2, s3
  <1>20. active \subseteq chosen
    BY <1>8, <1>19 DEF all
  <1>21. QED
    BY <1>20 DEF active, chosen

\* What RoutedOnEvidence says of one directory.
Evidence(d) ==
    LET rest == d.ident.pool \ DOMAIN d.schedule
        hits(p) == Total(d.receipts, p)
        attempts(p) == Cardinality(StagesOf(d.receipts, p))
    IN  \A p \in DOMAIN d.schedule :
          /\ Initial(d.receipts, p) < 5
          /\ (d.schedule[p].role = "active") = (hits(p) > 0)
          /\ hits(p) = 0 => \A q \in rest :
                Initial(d.receipts, q) >= 5 \/ hits(q) = 0
          /\ hits(p) = 0 /\ attempts(p) = 3 => \A q \in rest :
                hits(q) > 0 \/ attempts(q) = 3

LEMMA ScheduleHasEvidence ==
    ASSUME cycle.pool \in SUBSET Problems, NEW F, \A p \in cycle.pool : Counted(F, p),
           \A p \in cycle.pool : Canonical(StagesOf(F, p)),
           NEW seq \in [1 .. TrainingSlots -> cycle.pool], ValidSchedule(F, seq),
           NEW d, d.ident = cycle, d.receipts = F, d.schedule = ScheduleRows(F, seq)
    PROVE  Evidence(d)
  <1> DEFINE chosen == {seq[j] : j \in DOMAIN seq}
             active == Routed(F, cycle.pool, Active)
             zero == Routed(F, cycle.pool, Zero)
  <1>1. DOMAIN d.schedule = chosen /\ chosen \subseteq cycle.pool /\ DOMAIN seq = 1 .. TrainingSlots
    BY DEF ScheduleRows
  <1>2. \A p \in chosen : d.schedule[p].role
                            = IF Route(F, p) \in Active THEN "active" ELSE "exploration_filler"
    BY DEF ScheduleRows
  <1>3. /\ chosen \subseteq active \cup zero
        /\ \A p \in chosen \cap zero, q \in zero \ chosen :
              Route(F, p) = "hard_bank" => Route(F, q) = "hard_bank"
    BY DEF ValidSchedule, Zero
  <1>4. \A p \in cycle.pool :
           /\ p \in active <=> Initial(F, p) < 5 /\ Total(F, p) > 0
           /\ p \in zero <=> Total(F, p) = 0
           /\ Route(F, p) = "hard_bank" <=> Total(F, p) = 0 /\ StagesOf(F, p) = Stages
           /\ Total(F, p) \in Nat /\ Initial(F, p) \in Nat
           /\ Initial(F, p) > 0 => Total(F, p) > 0
           /\ Cardinality(StagesOf(F, p)) = 3 <=> StagesOf(F, p) = Stages
    BY Routes, Totals, ThreeStages DEF Routed
  <1>5. \A p \in cycle.pool : p \in active <=> Route(F, p) \in Active
    BY DEF Routed
  <1>6. ASSUME NEW p \in chosen, Total(F, p) = 0 PROVE active \subseteq chosen
    <2>1. PICK i \in 1 .. TrainingSlots : seq[i] = p
      BY <1>1
    <2>2. Route(F, seq[i]) \notin Active
      BY <1>1, <1>4, <1>5, <1>6, <2>1
    <2>3. QED
      BY <2>2, ActiveFirst
  <1> HIDE DEF chosen, active, zero
  <1>7. ASSUME NEW p \in chosen
        PROVE  /\ Initial(F, p) < 5
               /\ (d.schedule[p].role = "active") = (Total(F, p) > 0)
    <2>1. p \in cycle.pool /\ (p \in active \/ p \in zero)
      BY <1>1, <1>3
    <2>2. Initial(F, p) < 5
      BY <1>4, <2>1
    <2>3. CASE Total(F, p) > 0
      BY <1>2, <1>4, <1>5, <2>1, <2>2, <2>3
    <2>4. CASE ~ (Total(F, p) > 0)
      <3>1. d.schedule[p].role = "exploration_filler"
        BY <1>2, <1>4, <1>5, <2>1, <2>4
      <3>2. QED
        BY <2>2, <2>4, <3>1
    <2>5. QED
      BY <2>3, <2>4
  <1>8. ASSUME NEW p \in chosen, Total(F, p) = 0, NEW q \in cycle.pool \ chosen
        PROVE  Initial(F, q) >= 5 \/ Total(F, q) = 0
    BY <1>4, <1>6, <1>8
  <1>9. ASSUME NEW p \in chosen, Total(F, p) = 0, Cardinality(StagesOf(F, p)) = 3,
               NEW q \in cycle.pool \ chosen
        PROVE  Total(F, q) > 0 \/ Cardinality(StagesOf(F, q)) = 3
    BY <1>1, <1>3, <1>4, <1>9
  <1>10. QED
    BY <1>1, <1>7, <1>8, <1>9 DEF Evidence

EvidenceInv ==
    /\ IsFiniteSet(bound)
    /\ \A f \in bound, p \in Problems : p \in DOMAIN f.rows => f.rows[p].successes \in Nat
    /\ \A k \in 1 .. MaxCycle : dirs[k] # NoDir => Evidence(dirs[k])

LEMMA InitEvidence == Init => EvidenceInv
  <1>1. SUFFICES ASSUME Init PROVE EvidenceInv
    OBVIOUS
  <1>2. bound = {} /\ dirs = [c \in 1 .. MaxCycle |-> NoDir]
    BY <1>1 DEF Init
  <1>3. QED
    BY <1>2, FS_EmptySet DEF EvidenceInv

\* Another file of the directory, another report: the schedule is the same.
LEMMA GrownEvidence ==
    ASSUME CycleInv, EvidenceInv, cycle.id > 0, dirs[cycle.id] # NoDir,
           NEW d, Grown(dirs[cycle.id], d), dirs' = [dirs EXCEPT ![cycle.id] = d],
           UNCHANGED bound
    PROVE  EvidenceInv'
  <1>1. cycle.id \in 1 .. MaxCycle /\ DOMAIN dirs = 1 .. MaxCycle
    BY CurrentCycle DEF CycleInv, Consistent
  <1>2. Evidence(dirs[cycle.id])
    BY <1>1 DEF EvidenceInv
  <1>3. Evidence(d)
    BY <1>2 DEF Evidence, Grown
  <1>4. \A k \in 1 .. MaxCycle : dirs'[k] # NoDir => Evidence(dirs'[k])
    BY <1>1, <1>3 DEF EvidenceInv
  <1>5. QED
    BY <1>4 DEF EvidenceInv

LEMMA WriteEvidence ==
    ASSUME CycleInv, EvidenceInv, cycle.id > 0, dirs[cycle.id] # NoDir, NEW v,
           \/ Write("report", v) \/ Write("history", v)
           \/ UNCHANGED bound /\ dirs' = [dirs EXCEPT ![cycle.id]["trained"] = v]
    PROVE  EvidenceInv'
  <1>1. PICK o : o = dirs[cycle.id]
    OBVIOUS
  <1>2. PICK d : /\ \/ d = [o EXCEPT !["report"] = v] \/ d = [o EXCEPT !["history"] = v]
                    \/ d = [o EXCEPT !["trained"] = v]
                 /\ dirs' = [dirs EXCEPT ![cycle.id] = d] /\ UNCHANGED bound
    BY <1>1 DEF Write
  <1>3. Directory(o)
    BY <1>1, Present
  <1>4. Grown(o, d)
    <2>1. /\ Grown(o, [o EXCEPT !["report"] = v]) /\ Grown(o, [o EXCEPT !["history"] = v])
          /\ Grown(o, [o EXCEPT !["trained"] = v])
      BY <1>3, Written, Zenon
    <2>2. QED
      BY <1>2, <2>1, Zenon
  <1>5. QED
    BY <1>1, <1>2, <1>4, GrownEvidence

LEMMA FinalizeEvidence ==
    ASSUME CycleInv, EvidenceInv, cycle.id > 0, NEW F \in SUBSET bound, finalize(F)
    PROVE  EvidenceInv'
  <1>1. PICK seq \in [1 .. TrainingSlots -> cycle.pool] :
          /\ ValidSchedule(F, seq)
          /\ dirs' = [dirs EXCEPT ![cycle.id] =
              [ident |-> cycle, receipts |-> F, report |-> "none",
               schedule |-> ScheduleRows(F, seq), history |-> NoHistory,
               trained |-> FALSE]]
    BY DEF finalize
  <1>2. /\ \A p \in cycle.pool : Canonical(StagesOf(F, p))
        /\ bound' = bound
    BY DEF finalize
  <1>3. PICK d : d = [ident |-> cycle, receipts |-> F, report |-> "none",
               schedule |-> ScheduleRows(F, seq), history |-> NoHistory,
               trained |-> FALSE]
    OBVIOUS
  <1>4. d.ident = cycle /\ d.receipts = F /\ d.schedule = ScheduleRows(F, seq)
    BY <1>3
  <1>5. /\ cycle.id \in 1 .. MaxCycle /\ DOMAIN dirs = 1 .. MaxCycle
        /\ cycle.pool \in SUBSET Problems
    BY CurrentCycle DEF CycleInv, Consistent, Idents
  <1>6. \A p \in cycle.pool : Counted(F, p)
    BY <1>5, FS_Subset DEF EvidenceInv, Counted
  <1>7. Evidence(d)
    BY <1>1, <1>2, <1>4, <1>5, <1>6, ScheduleHasEvidence
  <1>8. dirs' = [dirs EXCEPT ![cycle.id] = d]
    BY <1>1, <1>3
  <1>9. \A k \in 1 .. MaxCycle : dirs'[k] # NoDir => Evidence(dirs'[k])
    BY <1>5, <1>7, <1>8 DEF EvidenceInv
  <1>10. QED
    BY <1>2, <1>9 DEF EvidenceInv

LEMMA BindEvidence ==
    ASSUME EvidenceInv, Bind
    PROVE  EvidenceInv'
  <1>1. PICK stage \in Stages, by \in 0 .. policy : \E pool \in StagePools(stage) :
          \E successes \in [pool -> IF stage = "pass8" THEN Counts8 ELSE CountsTopup] :
            bind_receipts(stage, pool, by, successes)
    BY DEF Bind
  <1>1a. PICK pool \in StagePools(stage) :
          \E successes \in [pool -> IF stage = "pass8" THEN Counts8 ELSE CountsTopup] :
            bind_receipts(stage, pool, by, successes)
    BY <1>1
  <1>2. PICK successes \in [pool -> IF stage = "pass8" THEN Counts8 ELSE CountsTopup] :
            bind_receipts(stage, pool, by, successes)
    BY <1>1a
  <1> DEFINE f == [ident |-> cycle, stage |-> stage,
                   rows |-> [p \in pool |-> [successes |-> successes[p], by |-> by]]]
  <1>3. bound' = bound \cup {f} /\ dirs' = dirs
    BY <1>2 DEF bind_receipts
  <1>4. \A p \in pool : successes[p] \in Nat
    <2>1. Counts8 \subseteq Nat /\ CountsTopup \subseteq Nat
      BY CycleAssumption
    <2>2. QED
      BY <1>2, <2>1
  <1>5. \A p \in DOMAIN f.rows : f.rows[p].successes \in Nat
    BY <1>4
  <1> HIDE DEF f
  <1>6. IsFiniteSet(bound')
    BY <1>3, FS_AddElement DEF EvidenceInv
  <1>7. QED
    BY <1>3, <1>5, <1>6 DEF EvidenceInv

LEMMA EvidenceKept == CycleInv /\ EvidenceInv /\ [Next]_vars => EvidenceInv'
  <1>1. SUFFICES ASSUME CycleInv, EvidenceInv, [Next]_vars PROVE EvidenceInv'
    OBVIOUS
  <1>2. ASSUME UNCHANGED <<bound, dirs>> PROVE EvidenceInv'
    BY <1>1, <1>2 DEF EvidenceInv
  <1>3. finalizing => cycle.id > 0 /\ dirs[cycle.id] # NoDir
    BY <1>1 DEF CycleInv
  <1>4. CASE Freeze
    BY <1>2, <1>4 DEF Freeze, freeze_cycle
  <1>5. CASE Bind
    BY <1>1, <1>5, BindEvidence
  <1>6. CASE Plan
    BY <1>2, <1>6 DEF Plan, plan_topup
  <1>7. CASE Finalize
    BY <1>1, <1>7, FinalizeEvidence DEF Finalize
  <1>8. CASE WriteReport
    BY <1>1, <1>3, <1>8, WriteEvidence DEF WriteReport
  <1>9. CASE WriteHistory
    BY <1>1, <1>3, <1>9, WriteEvidence DEF WriteHistory
  <1>10. CASE RewriteReport
    BY <1>1, <1>3, <1>10, WriteEvidence DEF RewriteReport
  <1>11. CASE Crash
    BY <1>2, <1>11 DEF Crash
  <1>12. CASE RemoveDir
    <2>1. /\ cycle.id > 0 /\ dirs' = [dirs EXCEPT ![cycle.id] = NoDir] /\ bound' = bound
      BY <1>12 DEF RemoveDir
    <2>2. DOMAIN dirs = 1 .. MaxCycle
      BY <1>1 DEF CycleInv, Consistent
    <2>3. QED
      BY <1>1, <2>1, <2>2 DEF EvidenceInv
  <1>13. CASE Train
    <2>1. /\ cycle.id > 0 /\ dirs[cycle.id].report \in {"schedule", "history"}
          /\ dirs' = [dirs EXCEPT ![cycle.id]["trained"] = TRUE] /\ bound' = bound
      BY <1>13 DEF Train
    <2>2. dirs[cycle.id] # NoDir
      BY <2>1, NoDirReport
    <2>3. QED
      BY <1>1, <2>1, <2>2, WriteEvidence
  <1>14. CASE UNCHANGED vars
    BY <1>2, <1>14 DEF vars
  <1>15. QED
    BY <1>1, <1>4, <1>5, <1>6, <1>7, <1>8, <1>9, <1>10, <1>11, <1>12, <1>13, <1>14 DEF Next

LEMMA AlwaysEvidence == Spec => []EvidenceInv
  <1>1. Init => EvidenceInv
    BY InitEvidence
  <1>2. CycleInv /\ EvidenceInv /\ [Next]_vars => EvidenceInv'
    BY EvidenceKept
  <1>3. QED
    BY <1>1, <1>2, AlwaysInv, PTL DEF Spec

------------------------------------------------------------------------------
(* The theorems                                                            *)

\* Whatever receipt files were bound, a schedule rests only on those of its own
\* cycle, generated by the policy that the cycle froze
\* (assert_receipt_identity, bind_receipts, validate_receipt_set).
THEOREM SchedulesRestOnOwnReceipts == Spec => []ScheduleLineage
  <1>1. CycleInv => ScheduleLineage
    <2>1. SUFFICES ASSUME CycleInv, NEW k \in DOMAIN dirs,
                          NEW p \in DOMAIN dirs[k].schedule
                   PROVE  /\ p \in dirs[k].ident.pool
                          /\ \A f \in Rows(dirs[k].receipts, p, Stages) :
                                /\ f.ident = dirs[k].ident
                                /\ f.rows[p].by = dirs[k].ident.old
      BY DEF ScheduleLineage
    <2>2. k \in 1 .. MaxCycle /\ DirOK(dirs[k], k, bound) /\ \A f \in bound : OwnPolicy(f)
      BY <2>1 DEF CycleInv, Consistent
    <2>3. dirs[k] # NoDir
      BY <2>1, NoDirReport
    <2>4. /\ p \in dirs[k].ident.pool /\ dirs[k].receipts \subseteq bound
          /\ \A f \in dirs[k].receipts : f.ident = dirs[k].ident
      BY <2>1, <2>2, <2>3 DEF DirOK
    <2>5. ASSUME NEW f \in Rows(dirs[k].receipts, p, Stages)
          PROVE  f.ident = dirs[k].ident /\ f.rows[p].by = dirs[k].ident.old
      <3>1. f \in dirs[k].receipts /\ p \in DOMAIN f.rows
        BY <2>5 DEF Rows
      <3>2. QED
        BY <2>2, <2>4, <3>1 DEF OwnPolicy
    <2>6. QED
      BY <2>4, <2>5
  <1>2. QED
    BY <1>1, AlwaysInv, PTL

\* No problem is screened twice while another one was never screened, and a
\* cycle that is finalized again after a crash is counted once (history_rank,
\* freeze_cycle, append_rollout_history).
THEOREM UnseenAreScreenedFirst == Spec => []UnseenFirst
  <1>1. CycleInv => UnseenFirst
    BY DEF CycleInv, Consistent, HistoryOK, UnseenFirst
  <1>2. QED
    BY <1>1, AlwaysInv, PTL

\* A schedule never trains a mastered problem, takes a zero-success problem only
\* when every active one is in it, and one of the hard bank only when no other
\* zero-success problem is left out, whatever was counted and however many slots
\* and problems there are (classify_screen_group, _select_active,
\* build_cycle_schedule).
THEOREM SchedulesFollowEvidence == Spec => []RoutedOnEvidence
  <1>1. CycleInv /\ EvidenceInv => RoutedOnEvidence
    <2>1. SUFFICES ASSUME CycleInv, EvidenceInv,
                          NEW k \in DOMAIN dirs, dirs[k] # NoDir
                   PROVE  Evidence(dirs[k])
      BY DEF RoutedOnEvidence, Evidence
    <2>2. DOMAIN dirs = 1 .. MaxCycle
      BY <2>1 DEF CycleInv, Consistent
    <2>3. QED
      BY <2>1, <2>2 DEF EvidenceInv
  <1>2. QED
    BY <1>1, AlwaysInv, AlwaysEvidence, PTL
==============================================================================
