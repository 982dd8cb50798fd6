-------------------------- MODULE CodeGraphProofs -------------------------
(***************************************************************************)
(* Proofs about CodeGraph, for any files, texts, processes and kills.      *)
(*                                                                         *)
(* A file is steady when the rows the database has for it come from one    *)
(* scan: neither torn, nor about to be cleared, nor rewritten in the       *)
(* watcher's open transaction.  For such a file the stored symbols are     *)
(* some of those of the hashed text - all, once nobody is storing them -   *)
(* and whatever call a scan still carries, or the database links, is one   *)
(* that text makes.  What makes this inductive is that the id of a symbol  *)
(* a scan carries is given to no other symbol, and that the watcher's view *)
(* differs from the database in the files it has stored only.              *)
(***************************************************************************)
EXTENDS CodeGraph, FiniteSetTheorems, FunctionTheorems, TLAPS

Places == {"idle", "unlist", "next", "check", "node", "clear", "symbols", "resolve"}
Contents == UNION {Texts[f] : f \in Files}
Names == UNION {DOMAIN t : t \in Contents}
Called == UNION {UNION {t[n] : n \in DOMAIN t} : t \in Contents}
Symbols == [id : Nat, file : Files, name : Names]
Graphs == [hash : [Files -> SUBSET Contents], syms : SUBSET Symbols, edges : SUBSET (Nat \X Nat)]
Jobs == [todo : SUBSET Files, file : SUBSET Files, hash : SUBSET Contents,
         text : SUBSET Contents, names : SUBSET Names, calls : SUBSET (Nat \X Called)]

Types ==
  /\ disk \in [Files -> Contents] /\ \A f \in Files : disk[f] \in Texts[f]
  /\ db \in Graphs /\ view \in Graphs
  /\ list \subseteq Files /\ edited \subseteq Files /\ events \subseteq Files
  /\ lost \subseteq Files /\ torn \subseteq Files /\ unbound \subseteq Files
  /\ pc \in [Procs -> Places] /\ job \in [Procs -> Jobs]
  /\ open \in BOOLEAN /\ wrote \in BOOLEAN /\ fresh \in [Procs -> BOOLEAN]

-----------------------------------------------------------------------------
(* The graph by itself: a row per path, no id twice, edges between rows.   *)
Hashed(g) == \A f \in Files : g.hash[f] = {} \/ \E t \in Texts[f] : g.hash[f] = {t}
Keyed(g) ==
  /\ IsFiniteSet(g.syms)
  /\ \A s \in g.syms : \E t \in Texts[s.file] : s.name \in DOMAIN t
  /\ \A s, u \in g.syms : s.id = u.id \/ (s.file = u.file /\ s.name = u.name) => s = u
Linked(g) == \A e \in g.edges : e[1] \in Ids(g) /\ e[2] \in Ids(g) /\ e[1] # e[2]
Sound(g) == Hashed(g) /\ Keyed(g) /\ Linked(g)

Named(g, f) == {s.name : s \in SymsOf(g, f)}

(* The scans by themselves.                                                *)
Carries(p) ==
  /\ pc[p] \in {"idle", "unlist", "next"} => job[p].file = {}
  /\ pc[p] \in {"check", "node", "clear", "symbols", "resolve"} =>
       \E f \in Files : /\ job[p].file = {f} /\ f \notin job[p].todo
                        /\ \E t \in Texts[f] : job[p].hash = {t}
                        /\ pc[p] # "check" => \E t \in Texts[f] : job[p].text = {t}
  /\ \A t \in job[p].text : pc[p] = "symbols" => job[p].names \subseteq DOMAIN t
  /\ IsFiniteSet(job[p].calls)

ScannerOk(p) ==
  /\ pc[p] \notin {"symbols", "resolve"} => job[p].calls = {}
  /\ pc[p] = "resolve" => job[p].calls # {}
  /\ \A c \in job[p].calls : \A s \in db.syms : s.id = c[1] => job[p].file = {s.file}

WatcherOk ==
  /\ pc[Watcher] \in {"idle", "next", "check", "node"}
  /\ ~wrote => job[Watcher].calls = {}
  /\ pc[Watcher] = "idle" => ~wrote
  /\ pc[Watcher] = "node" =>
       open /\ \A f \in job[Watcher].file : view.hash[f] # job[Watcher].hash

-----------------------------------------------------------------------------
(* The watcher's transaction.                                              *)
SameRows(g, h, f) == g.hash[f] = h.hash[f] /\ SymsOf(g, f) = SymsOf(h, f)
Touched(f) == wrote /\ view.hash[f] # db.hash[f]

\* What the transaction holds of a file it has stored: new symbols, and, unless
\* the file is torn, those of the text, with all their calls still pending.
Stored(f) ==
  /\ view.hash[f] # db.hash[f] /\ f \notin job[Watcher].todo /\ f \notin job[Watcher].file
  /\ \A s \in SymsOf(view, f) :
       s.id \notin Ids(db) /\ \A q \in Scanners : \A c \in job[q].calls : c[1] # s.id
  /\ f \notin torn =>
       /\ \A p \in Procs : ~Rewriting(p, f)
       /\ \A t \in view.hash[f] :
            /\ Named(view, f) = DOMAIN t
            /\ \A s \in SymsOf(view, f), m \in Called :
                 m \in t[s.name] <=> <<s.id, m>> \in job[Watcher].calls

TxnOk ==
  /\ fresh[Watcher] => open
  /\ wrote => fresh[Watcher]
  /\ fresh[Watcher] /\ ~wrote => view = db
  /\ wrote =>
       /\ \A f \in Files : SameRows(view, db, f) \/ Stored(f)
       /\ view.edges \subseteq db.edges
       /\ \A e \in db.edges : e[1] \in Ids(view) /\ e[2] \in Ids(view) => e \in view.edges
       /\ \A c \in job[Watcher].calls : \E s \in view.syms : s.id = c[1] /\ Touched(s.file)

-----------------------------------------------------------------------------
(* The database.                                                           *)
Clearing(f) == \E p \in Procs : pc[p] = "clear" /\ job[p].file = {f}
Steady(f) == f \notin torn /\ ~Clearing(f) /\ ~Touched(f)

\* Of a steady file: what is stored is of its text, and so is what is linked or
\* will be.
Truthful(f) ==
  Steady(f) => \A t \in db.hash[f] :
    /\ (\A p \in Procs : ~Rewriting(p, f)) => Named(db, f) = DOMAIN t
    /\ \A q \in Scanners : \A c \in job[q].calls : \A s \in SymsOf(db, f) :
         s.id = c[1] => c[2] \in t[s.name]
    /\ \A s \in SymsOf(db, f), d \in db.syms : <<s.id, d.id>> \in db.edges => d.name \in t[s.name]

\* Whoever rewrites a file that is not torn does so alone, and has stored the
\* symbols it has not still to store, their calls in hand.
Rewrites(p, f) ==
  f \notin torn /\ Rewriting(p, f) =>
    /\ job[p].text = job[p].hash /\ db.hash[f] = job[p].hash
    /\ \A q \in Procs \ {p} : ~Rewriting(q, f)
    /\ pc[p] = "symbols" => \A t \in job[p].text :
         /\ Named(db, f) = DOMAIN t \ job[p].names
         /\ \A s \in SymsOf(db, f) : \A m \in t[s.name] : <<s.id, m>> \in job[p].calls

\* A scan about to link its calls has all those of the stored symbols, or its
\* symbols are gone, or will be before the file is steady.
Resolves(q, f) ==
  pc[q] = "resolve" /\ job[q].file = {f} =>
    \/ \A c \in job[q].calls : c[1] \notin Ids(db)
    \/ ~Steady(f)
    \/ /\ \A p \in Procs : ~Rewriting(p, f)
       /\ \A t \in db.hash[f] : \A s \in SymsOf(db, f) : \A m \in t[s.name] :
            <<s.id, m>> \in job[q].calls

\* Calls inside a file are linked, where they are neither pending nor given up.
Few(n) == Cardinality({h \in Files : \E u \in Texts[h] : n \in DOMAIN u}) <= MaxFanout
Bound(f) ==
  /\ Settled(f) /\ f \notin unbound
  /\ \A p \in Procs : ~(pc[p] = "resolve" /\ job[p].file = {f})
  => \A t \in db.hash[f] : \A s, d \in SymsOf(db, f) :
       d # s /\ d.name \in t[s.name] /\ Few(d.name) => <<s.id, d.id>> \in db.edges

IInv ==
  /\ Types /\ Sound(db) /\ Sound(view)
  /\ \A p \in Procs : Carries(p)
  /\ \A p \in Scanners : ScannerOk(p)
  /\ WatcherOk /\ TxnOk
  /\ \A f \in Files : Truthful(f) /\ Bound(f)
  /\ \A p \in Procs, f \in Files : Rewrites(p, f) /\ Resolves(p, f)

-----------------------------------------------------------------------------
(* The operators on graphs.                                                *)

LEMMA GraphFields ==
  ASSUME NEW g \in Graphs
  PROVE  /\ g.hash \in [Files -> SUBSET Contents] /\ g.syms \subseteq Symbols
         /\ g.edges \subseteq Nat \X Nat
         /\ \A s \in g.syms : s.id \in Nat /\ s.file \in Files /\ s.name \in Names
         /\ Ids(g) \subseteq Nat
BY DEF Graphs, Symbols, Ids

LEMMA EmptyIsSound ==
  EmptyGraph \in Graphs /\ Sound(EmptyGraph)
<1>1. EmptyGraph \in Graphs
  BY DEF EmptyGraph, Graphs
<1>2. EmptyGraph.syms = {} /\ EmptyGraph.edges = {} /\ \A f \in Files : EmptyGraph.hash[f] = {}
  BY DEF EmptyGraph
<1>3. Hashed(EmptyGraph) /\ Linked(EmptyGraph)
  BY <1>2 DEF Hashed, Linked
<1>4. Keyed(EmptyGraph)
  BY <1>2, FS_EmptySet DEF Keyed
<1> QED
  BY <1>1, <1>3, <1>4 DEF Sound

LEMMA NodeIs ==
  ASSUME NEW g \in Graphs, Sound(g), NEW f \in Files, NEW t \in Texts[f],
         NEW h, h = WithNode(g, f, t)
  PROVE  /\ h \in Graphs /\ Sound(h) /\ h.syms = g.syms /\ h.edges = g.edges
         /\ h.hash[f] = {t} /\ \A x \in Files \ {f} : h.hash[x] = g.hash[x]
         /\ Ids(h) = Ids(g) /\ \A x \in Files : SymsOf(h, x) = SymsOf(g, x)
<1>1. t \in Contents
  BY DEF Contents
<1> DEFINE r == [g.hash EXCEPT ![f] = {t}]
<1>2. h = [g EXCEPT !.hash = r]
  BY DEF WithNode
<1>3. r \in [Files -> SUBSET Contents] /\ r[f] = {t} /\ \A x \in Files \ {f} : r[x] = g.hash[x]
  BY <1>1, GraphFields
<1> HIDE DEF r
<1>4. h \in Graphs /\ h.hash = r /\ h.syms = g.syms /\ h.edges = g.edges
  BY <1>2, <1>3 DEF Graphs
<1>5. Ids(h) = Ids(g) /\ \A x \in Files : SymsOf(h, x) = SymsOf(g, x)
  BY <1>4 DEF Ids, SymsOf
<1>6. Hashed(h)
  BY <1>3, <1>4 DEF Hashed, Sound
<1>7. Keyed(h)
  BY <1>4 DEF Keyed, Sound
<1>8. Linked(h)
  BY <1>4, <1>5 DEF Linked, Sound
<1> QED
  BY <1>3, <1>4, <1>5, <1>6, <1>7, <1>8 DEF Sound

LEMMA WithoutIs ==
  ASSUME NEW g \in Graphs, Sound(g), NEW f \in Files, NEW h, h = WithoutSymbols(g, f)
  PROVE  /\ h \in Graphs /\ Sound(h) /\ h.hash = g.hash /\ h.syms \subseteq g.syms
         /\ SymsOf(h, f) = {} /\ \A x \in Files \ {f} : SymsOf(h, x) = SymsOf(g, x)
         /\ \A i \in Ids(g) : i \in Ids(h) \/ \E s \in SymsOf(g, f) : s.id = i
         /\ Ids(h) \subseteq Ids(g) /\ \A s \in SymsOf(g, f) : s.id \notin Ids(h)
         /\ h.edges \subseteq g.edges
         /\ \A e \in g.edges : e[1] \in Ids(h) /\ e[2] \in Ids(h) => e \in h.edges
<1> DEFINE gone == {s.id : s \in SymsOf(g, f)}
<1>1. /\ h \in Graphs /\ h.hash = g.hash /\ h.syms = g.syms \ SymsOf(g, f)
      /\ h.edges = {e \in g.edges : e[1] \notin gone /\ e[2] \notin gone}
  <2> DEFINE y == g.syms \ SymsOf(g, f)
             l == {e \in g.edges : e[1] \notin gone /\ e[2] \notin gone}
  <2>1. y \in SUBSET Symbols /\ l \in SUBSET (Nat \X Nat)
    BY GraphFields
  <2>2. h = [g EXCEPT !.syms = y, !.edges = l]
    BY DEF WithoutSymbols
  <2> HIDE DEF y, l
  <2>3. h \in Graphs /\ h.hash = g.hash /\ h.syms = y /\ h.edges = l
    BY <2>1, <2>2 DEF Graphs
  <2> QED
    BY <2>3 DEF y, l
<1>2. SymsOf(h, f) = {} /\ \A x \in Files \ {f} : SymsOf(h, x) = SymsOf(g, x)
  BY <1>1 DEF SymsOf
<1>3. \A s \in SymsOf(g, f) : s \in g.syms /\ s.id \in gone
  BY DEF SymsOf
<1>4. \A i \in Ids(g) : i \in Ids(h) \/ i \in gone
  BY <1>1 DEF Ids
<1>5. Ids(h) \subseteq Ids(g)
  BY <1>1 DEF Ids
<1>6. Ids(h) \cap gone = {}
  <2> SUFFICES ASSUME NEW s \in h.syms, NEW u \in SymsOf(g, f), s.id = u.id PROVE FALSE
    BY DEF Ids
  <2>1. s \in g.syms /\ u \in g.syms /\ s \notin SymsOf(g, f)
    BY <1>1 DEF SymsOf
  <2> QED
    BY <2>1 DEF Sound, Keyed
<1>7. Keyed(h)
  <2>1. IsFiniteSet(h.syms)
    BY <1>1, FS_Subset DEF Sound, Keyed
  <2> QED
    BY <1>1, <2>1 DEF Sound, Keyed
<1>8. Hashed(h)
  BY <1>1 DEF Sound, Hashed
<1>9. Linked(h)
  BY <1>1, <1>4 DEF Sound, Linked
<1> QED
  BY <1>1, <1>2, <1>3, <1>4, <1>5, <1>6, <1>7, <1>8, <1>9 DEF Sound

(* There are ids enough, and FreshIds picks ids nobody uses.               *)
LEMMA Room ==
  ASSUME NEW S, IsFiniteSet(S), NEW used \in SUBSET Nat, IsFiniteSet(used)
  PROVE  \E h \in [S -> (1 .. Cardinality(used) + Cardinality(S)) \ used] :
           \A m, n \in S : h[m] = h[n] => m = n
<1> DEFINE k == Cardinality(S)
           u == Cardinality(used)
           T == (1 .. u + k) \ used
<1>1. k \in Nat /\ u \in Nat /\ ExistsBijection(1 .. k, S)
  BY FS_CardinalityType
<1>2. IsFiniteSet(1 .. u + k) /\ Cardinality(1 .. u + k) = u + k
  <2>1. 1 \in Int /\ u + k \in Int /\ (IF 1 > u + k THEN 0 ELSE u + k - 1 + 1) = u + k
    BY <1>1
  <2> HIDE DEF u, k
  <2> QED
    BY <2>1, FS_Interval
<1>3. IsFiniteSet(T) /\ Cardinality(T) = Cardinality(1 .. u + k) - Cardinality((1 .. u + k) \cap used)
  BY <1>2, FS_Difference
<1>4. /\ Cardinality((1 .. u + k) \cap used) \in Nat
      /\ Cardinality((1 .. u + k) \cap used) <= u
  BY FS_Intersection, FS_CardinalityType
<1>5. Cardinality(T) \in Nat /\ ExistsBijection(1 .. Cardinality(T), T)
  BY <1>3, FS_CardinalityType
<1>6. k <= Cardinality(T)
  <2> HIDE DEF T, u, k
  <2> QED
    BY <1>1, <1>2, <1>3, <1>4, <1>5
<1> HIDE DEF T, u, k
<1>7. ExistsInjection(S, 1 .. k)
  BY <1>1, Fun_ExistsBijEquiv
<1>8. ExistsInjection(1 .. k, 1 .. Cardinality(T))
  BY <1>1, <1>5, <1>6, Fun_NatInjLeq
<1>9. ExistsInjection(1 .. Cardinality(T), T)
  BY <1>5, Fun_ExistsBijEquiv
<1>10. ExistsInjection(S, T)
  BY <1>7, <1>8, <1>9, Fun_ExistsInjTransitive
<1>11. PICK h \in Injection(S, T) : TRUE
  BY <1>10 DEF ExistsInjection
<1>12. h \in [S -> T] /\ \A m, n \in S : h[m] = h[n] => m = n
  BY <1>11, Fun_InjectionProperties
<1> QED
  BY <1>12 DEF T, u, k

LEMMA IdsFinite ==
  ASSUME NEW g \in Graphs, Keyed(g)
  PROVE  IsFiniteSet(Ids(g)) /\ Cardinality(Ids(g)) = Cardinality(g.syms)
<1> DEFINE h == [s \in g.syms |-> s.id]
<1>1. h \in [g.syms -> Ids(g)] /\ \A i \in Ids(g) : \E s \in g.syms : h[s] = i
  BY DEF Ids
<1>2. \A s, u \in g.syms : h[s] = h[u] => s = u
  BY DEF Keyed
<1> HIDE DEF h
<1>3. h \in Bijection(g.syms, Ids(g))
  BY <1>1, <1>2, Fun_IsBij
<1>4. ExistsBijection(g.syms, Ids(g))
  BY <1>3 DEF ExistsBijection
<1> QED
  BY <1>4, FS_Bijection DEF Keyed

(* The ids in use: of the database, of a graph and of the calls carried.   *)
Used(g) == Ids(db) \cup Ids(g) \cup {c[1] : c \in UNION {job[q].calls : q \in Procs}}

LEMMA UsedFinite ==
  ASSUME Types, Keyed(db), NEW g \in Graphs, Keyed(g), \A p \in Procs : Carries(p)
  PROVE  Used(g) \subseteq Nat /\ IsFiniteSet(Used(g))
<1> DEFINE each == {job[q].calls : q \in Procs}
           all == UNION each
           ids == {c[1] : c \in all}
           h == [q \in Procs |-> job[q].calls]
           k == [c \in all |-> c[1]]
<1>1. IsFiniteSet(Procs)
  BY CodeGraphAssumption, FS_AddElement DEF Procs
<1>2. h \in [Procs -> each] /\ \A x \in each : \E q \in Procs : h[q] = x
  OBVIOUS
<1>3. IsFiniteSet(each)
  <2> HIDE DEF h, each
  <2>1. h \in Surjection(Procs, each)
    BY <1>2, Fun_IsSurj
  <2> QED
    BY <1>1, <2>1, FS_Surjection
<1>4. \A x \in each : IsFiniteSet(x)
  BY DEF Carries
<1>5. IsFiniteSet(all)
  <2> HIDE DEF each
  <2> QED
    BY <1>3, <1>4, FS_UNION
<1>6. k \in [all -> ids] /\ \A i \in ids : \E c \in all : k[c] = i
  <2> HIDE DEF all
  <2> QED
    OBVIOUS
<1>7. IsFiniteSet(ids)
  <2> HIDE DEF k, ids, all
  <2>1. k \in Surjection(all, ids)
    BY <1>6, Fun_IsSurj
  <2> QED
    BY <1>5, <2>1, FS_Surjection
<1>8. ids \subseteq Nat
  <2> SUFFICES ASSUME NEW q \in Procs, NEW c \in job[q].calls PROVE c[1] \in Nat
    OBVIOUS
  <2>1. job[q] \in Jobs
    BY DEF Types
  <2>2. c \in Nat \X Called
    BY <2>1 DEF Jobs
  <2> QED
    BY <2>2
<1>9. Ids(db) \subseteq Nat /\ Ids(g) \subseteq Nat
  BY GraphFields DEF Types
<1>10. IsFiniteSet(Ids(db)) /\ IsFiniteSet(Ids(g))
  BY IdsFinite DEF Types
<1>11. Used(g) = Ids(db) \cup Ids(g) \cup ids
  BY DEF Used
<1> HIDE DEF ids
<1> QED
  BY <1>7, <1>8, <1>9, <1>10, <1>11, FS_Union

LEMMA Fresh ==
  ASSUME Types, Keyed(db), NEW g \in Graphs, Keyed(g), \A p \in Procs : Carries(p),
         NEW names, IsFiniteSet(names), NEW h, h = FreshIds(g, names)
  PROVE  /\ h \in [names -> Nat] /\ \A m, n \in names : h[m] = h[n] => m = n
         /\ \A n \in names : /\ h[n] \notin Ids(db) /\ h[n] \notin Ids(g)
                             /\ \A q \in Procs : \A c \in job[q].calls : c[1] # h[n]
<1> DEFINE u == Used(g)
           T == (1 .. Cardinality(u) + Cardinality(names)) \ u
<1>1. u \subseteq Nat /\ IsFiniteSet(u)
  BY UsedFinite
<1>2. \E x \in [names -> T] : \A m, n \in names : x[m] = x[n] => m = n
  BY <1>1, Room
<1>3. h = CHOOSE x \in [names -> T] : \A m, n \in names : x[m] = x[n] => m = n
  BY DEF FreshIds, Used
<1>4. h \in [names -> T] /\ \A m, n \in names : h[m] = h[n] => m = n
  <2> HIDE DEF T
  <2> QED
    BY <1>2, <1>3
<1>5. T \subseteq Nat /\ T \cap u = {}
  <2>1. Cardinality(u) + Cardinality(names) \in Int
    BY <1>1, FS_CardinalityType
  <2> QED
    BY <2>1
<1>6. \A n \in names : h[n] \in Nat /\ h[n] \notin u
  <2> HIDE DEF T, u
  <2> QED
    BY <1>4, <1>5
<1>7. \A n \in names, q \in Procs : \A c \in job[q].calls : c[1] # h[n]
  BY <1>6 DEF Used
<1>8. \A n \in names : h[n] \notin Ids(db) /\ h[n] \notin Ids(g)
  BY <1>6 DEF Used
<1> QED
  BY <1>4, <1>6, <1>7, <1>8

Unused(g, i) ==
  i \notin Ids(db) /\ i \notin Ids(g) /\ \A q \in Procs : \A c \in job[q].calls : c[1] # i

\* A row of the same path keeps its id, a new one gets an id nobody uses.
LEMMA SymbolIdsAre ==
  ASSUME Types, Keyed(db), NEW g \in Graphs, Keyed(g), \A p \in Procs : Carries(p),
         NEW f \in Files, NEW names, IsFiniteSet(names), NEW ids, ids = SymbolIds(g, f, names)
  PROVE  /\ ids \in [names -> Nat] /\ \A m, n \in names : ids[m] = ids[n] => m = n
         /\ \A n \in names : \/ \E s \in SymsOf(g, f) : s.name = n /\ s.id = ids[n]
                             \/ Unused(g, ids[n]) /\ \A s \in SymsOf(g, f) : s.name # n
<1> DEFINE new == {n \in names : \A s \in SymsOf(g, f) : s.name # n}
           h == FreshIds(g, new)
           old(n) == CHOOSE s \in SymsOf(g, f) : s.name = n
<1>1. ids = [n \in names |-> IF n \in new THEN h[n] ELSE old(n).id]
  BY DEF SymbolIds
<1>2. new \subseteq names /\ IsFiniteSet(new)
  BY FS_Subset
<1>3. /\ h \in [new -> Nat] /\ \A m, n \in new : h[m] = h[n] => m = n
      /\ \A n \in new : Unused(g, h[n])
  <2> HIDE DEF new
  <2> QED
    BY <1>2, Fresh DEF Unused
<1>4. \A n \in names \ new : old(n) \in SymsOf(g, f) /\ old(n).name = n
  OBVIOUS
<1>5. \A n \in new : \A s \in SymsOf(g, f) : s.name # n
  OBVIOUS
<1> HIDE DEF new, h, old
<1>6. \A s \in SymsOf(g, f) : s \in g.syms /\ s.id \in Nat /\ s.id \in Ids(g)
  BY GraphFields DEF SymsOf, Ids
<1>7. \A n \in names : IF n \in new THEN ids[n] = h[n] ELSE ids[n] = old(n).id
  BY <1>1
<1>8. \A n \in names : ids[n] \in Nat
  BY <1>3, <1>4, <1>6, <1>7
<1>9. ids \in [names -> Nat]
  BY <1>1, <1>8
<1>10. \A n \in new : ids[n] \notin Ids(g)
  BY <1>2, <1>3, <1>7 DEF Unused
<1>11. \A n \in names \ new : ids[n] \in Ids(g) /\ ids[n] = old(n).id
  BY <1>4, <1>6, <1>7
<1>12. ASSUME NEW m \in names, NEW n \in names, ids[m] = ids[n] PROVE m = n
  <2>1. CASE m \in new
    <3>1. n \in new
      BY <1>10, <1>11, <1>12, <2>1
    <3> QED
      BY <1>3, <1>7, <1>12, <2>1, <3>1
  <2>2. CASE m \notin new
    <3>1. n \notin new
      BY <1>10, <1>11, <1>12, <2>2
    <3>2. old(m).id = old(n).id
      BY <1>11, <1>12, <2>2, <3>1
    <3>3. old(m) \in g.syms /\ old(n) \in g.syms
      BY <1>4, <1>6, <2>2, <3>1
    <3>4. old(m) = old(n)
      BY <3>2, <3>3 DEF Keyed
    <3> QED
      BY <1>4, <2>2, <3>1, <3>4
  <2> QED
    BY <2>1, <2>2
<1>13. ASSUME NEW n \in names
       PROVE  \/ \E s \in SymsOf(g, f) : s.name = n /\ s.id = ids[n]
              \/ Unused(g, ids[n]) /\ \A s \in SymsOf(g, f) : s.name # n
  <2>1. CASE n \in new
    BY <1>3, <1>5, <1>7, <2>1
  <2>2. CASE n \notin new
    BY <1>4, <1>7, <2>2
  <2> QED
    BY <2>1, <2>2
<1> QED
  BY <1>9, <1>12, <1>13

\* h is g with the symbols called names stored for f, under ids.
Stores(g, f, names, ids, h) ==
  /\ h \in Graphs /\ Sound(h) /\ h.hash = g.hash /\ h.edges = g.edges
  /\ DOMAIN ids = names /\ g.syms \subseteq h.syms /\ Ids(g) \subseteq Ids(h)
  /\ \A x \in Files \ {f} : SymsOf(h, x) = SymsOf(g, x)
  /\ Named(h, f) = Named(g, f) \cup names
  /\ \A s \in h.syms : s \in g.syms \/ (s.file = f /\ Unused(g, s.id) /\ s.name \in names)
  /\ \A s \in SymsOf(h, f) : s.name \in names => s.id = ids[s.name]
  /\ \A n \in names : ids[n] \in Nat /\ \E s \in SymsOf(h, f) : s.name = n /\ s.id = ids[n]

LEMMA SymbolsAre ==
  ASSUME Types, Sound(db), NEW g \in Graphs, Sound(g), \A p \in Procs : Carries(p),
         NEW f \in Files, NEW names, IsFiniteSet(names),
         NEW t \in Texts[f], names \subseteq DOMAIN t,
         NEW ids, ids = SymbolIds(g, f, names), NEW h, h = WithSymbols(g, f, ids)
  PROVE  Stores(g, f, names, ids, h)
<1> DEFINE row(n) == [id |-> ids[n], file |-> f, name |-> n]
           y == {row(n) : n \in names}
<1>1. /\ ids \in [names -> Nat] /\ \A m, n \in names : ids[m] = ids[n] => m = n
      /\ \A n \in names : \/ \E s \in SymsOf(g, f) : s.name = n /\ s.id = ids[n]
                          \/ Unused(g, ids[n]) /\ \A s \in SymsOf(g, f) : s.name # n
  BY SymbolIdsAre DEF Sound
<1>2. \A n \in names : row(n).id = ids[n] /\ row(n).file = f /\ row(n).name = n
  OBVIOUS
<1>3. y \subseteq Symbols /\ IsFiniteSet(y)
  <2>1. t \in Contents
    BY DEF Contents
  <2>2. names \subseteq Names
    BY <2>1 DEF Names
  <2>3. y \subseteq Symbols
    BY <1>1, <2>2 DEF Symbols
  <2> DEFINE k == [n \in names |-> row(n)]
  <2>4. k \in [names -> y] /\ \A r \in y : \E n \in names : k[n] = r
    OBVIOUS
  <2> HIDE DEF k, y
  <2>5. k \in Surjection(names, y)
    BY <2>4, Fun_IsSurj
  <2> QED
    BY <2>3, <2>5, FS_Surjection
<1>4. /\ h.syms = g.syms \cup y /\ h \in Graphs /\ h.hash = g.hash /\ h.edges = g.edges
      /\ DOMAIN ids = names
  <2> DEFINE z == g.syms \cup y
  <2>1. DOMAIN ids = names
    BY <1>1
  <2>2. h = [g EXCEPT !.syms = z]
    BY <2>1 DEF WithSymbols
  <2> HIDE DEF y
  <2>3. z \in SUBSET Symbols
    BY <1>3, GraphFields
  <2> HIDE DEF z
  <2>4. h \in Graphs /\ h.syms = z /\ h.hash = g.hash /\ h.edges = g.edges
    BY <2>2, <2>3 DEF Graphs
  <2> QED
    BY <2>1, <2>4 DEF z
<1>5. \A r \in y : r.file = f /\ r.name \in names /\ r.id = ids[r.name] /\ r = row(r.name)
  BY <1>2
<1>6. \A n \in names : row(n) \in y
  OBVIOUS
<1>7. \A s \in SymsOf(g, f) : s \in g.syms /\ s.file = f /\ s \in Symbols
  BY GraphFields DEF SymsOf
<1>8. \A s \in SymsOf(g, f) : s.name \in names => s.id = ids[s.name]
  <2> SUFFICES ASSUME NEW s \in SymsOf(g, f), s.name \in names PROVE s.id = ids[s.name]
    OBVIOUS
  <2>1. PICK u \in SymsOf(g, f) : u.name = s.name /\ u.id = ids[s.name]
    BY <1>1
  <2>2. s = u
    BY <1>7, <2>1 DEF Sound, Keyed
  <2> QED
    BY <2>1, <2>2
<1>9. ASSUME NEW r \in y, r \notin g.syms
      PROVE  Unused(g, r.id) /\ \A s \in SymsOf(g, f) : s.name # r.name
  <2>1. r.name \in names /\ r.id = ids[r.name] /\ r = row(r.name)
    BY <1>5
  <2>2. ASSUME NEW s \in SymsOf(g, f), s.name = r.name, s.id = ids[r.name] PROVE FALSE
    <3>1. s = [id |-> s.id, file |-> s.file, name |-> s.name]
      BY <1>7 DEF Symbols
    <3>2. s = row(r.name)
      BY <1>7, <2>2, <3>1
    <3> QED
      BY <1>7, <1>9, <2>1, <3>2
  <2> HIDE DEF y, row
  <2> QED
    BY <1>1, <2>1, <2>2
<1> HIDE DEF y, row
<1>10. g.syms \subseteq h.syms /\ \A r \in y : r \in h.syms
  BY <1>4
<1>11. \A x \in Files \ {f} : SymsOf(h, x) = SymsOf(g, x)
  BY <1>4, <1>5 DEF SymsOf
<1>12. \A s \in SymsOf(h, f) : s \in SymsOf(g, f) \/ s \in y
  BY <1>4 DEF SymsOf
<1>13. \A s \in SymsOf(h, f) : s.name \in names => s.id = ids[s.name]
  BY <1>5, <1>8, <1>12
<1>14. \A n \in names : row(n) \in SymsOf(h, f)
  BY <1>2, <1>6, <1>10 DEF SymsOf
<1>15. Named(h, f) = Named(g, f) \cup names
  <2>1. \A s \in SymsOf(g, f) : s \in SymsOf(h, f)
    BY <1>10 DEF SymsOf
  <2>2. \A n \in names : n \in Named(h, f)
    BY <1>2, <1>14 DEF Named
  <2>3. Named(g, f) \subseteq Named(h, f)
    BY <2>1 DEF Named
  <2>4. ASSUME NEW s \in SymsOf(h, f) PROVE s.name \in Named(g, f) \cup names
    BY <1>5, <1>12 DEF Named
  <2>5. Named(h, f) \subseteq Named(g, f) \cup names
    BY <2>4 DEF Named
  <2> QED
    BY <2>2, <2>3, <2>5
<1>16. \A n \in names : ids[n] \in Nat /\ \E s \in SymsOf(h, f) : s.name = n /\ s.id = ids[n]
  BY <1>1, <1>2, <1>14
<1>17. \A s \in h.syms : \/ s \in g.syms
                         \/ s.file = f /\ Unused(g, s.id) /\ s.name \in names
  BY <1>4, <1>5, <1>9
<1>18. Ids(g) \subseteq Ids(h)
  BY <1>10 DEF Ids
<1>19. Keyed(h)
  <2>1. IsFiniteSet(h.syms)
    <3>1. IsFiniteSet(g.syms)
      BY DEF Sound, Keyed
    <3>2. IsFiniteSet(y)
      BY <1>3
    <3>3. IsFiniteSet(g.syms \cup y)
      BY <3>1, <3>2, FS_Union
    <3> QED
      BY <1>4, <3>3
  <2>2. \A s \in h.syms : \E x \in Texts[s.file] : s.name \in DOMAIN x
    BY <1>17 DEF Sound, Keyed
  <2>3. ASSUME NEW s \in h.syms, NEW u \in h.syms,
               s.id = u.id \/ (s.file = u.file /\ s.name = u.name), s \in g.syms
        PROVE  s = u
    <3>1. CASE u \in g.syms
      BY <2>3, <3>1 DEF Sound, Keyed
    <3>2. CASE u \notin g.syms
      <4>1. u \in y
        BY <1>4, <3>2
      <4>2. u.file = f /\ u.id \notin Ids(g) /\ \A x \in SymsOf(g, f) : x.name # u.name
        BY <1>5, <1>9, <3>2, <4>1 DEF Unused
      <4>3. s.id \in Ids(g) /\ (s.file = f => s \in SymsOf(g, f))
        BY <2>3 DEF Ids, SymsOf
      <4> QED
        BY <2>3, <4>2, <4>3
    <3> QED
      BY <3>1, <3>2
  <2>4. ASSUME NEW s \in y, NEW u \in y, s.id = u.id \/ s.name = u.name PROVE s = u
    BY <1>1, <1>5, <2>4
  <2>5. \A s, u \in h.syms : s.id = u.id \/ (s.file = u.file /\ s.name = u.name) => s = u
    BY <1>4, <2>3, <2>4
  <2> QED
    BY <2>1, <2>2, <2>5 DEF Keyed
<1>20. Hashed(h) /\ Linked(h)
  BY <1>4, <1>18 DEF Sound, Hashed, Linked
<1> QED
  BY <1>4, <1>10, <1>11, <1>13, <1>15, <1>16, <1>17, <1>18, <1>19, <1>20 DEF Sound, Stores

\* A call is linked to every other symbol of its name, if the files that may
\* define one are few.
LEMMA TargetsAre ==
  ASSUME NEW g \in Graphs, Sound(g), NEW c
  PROVE  /\ \A i \in Targets(g, c) : i # c[1] /\ \E s \in g.syms : s.id = i /\ s.name = c[2]
         /\ Few(c[2]) => \A s \in g.syms : s.name = c[2] /\ s.id # c[1] => s.id \in Targets(g, c)
<1> DEFINE other == {s.id : s \in {x \in g.syms : x.name = c[2] /\ x.id # c[1]}}
           H == {h \in Files : \E u \in Texts[h] : c[2] \in DOMAIN u}
           sym(i) == CHOOSE s \in g.syms : s.id = i
           k == [i \in other |-> sym(i).file]
<1>1. Targets(g, c) = IF Cardinality(other) > MaxFanout THEN {} ELSE other
  BY DEF Targets
<1>2. \A i \in other : i # c[1] /\ \E s \in g.syms : s.id = i /\ s.name = c[2]
  OBVIOUS
<1>3. \A s \in g.syms : s.name = c[2] /\ s.id # c[1] => s.id \in other
  OBVIOUS
<1>4. IsFiniteSet(H) /\ Cardinality(H) \in Nat
  <2>1. H \in SUBSET Files
    OBVIOUS
  <2> HIDE DEF H
  <2> QED
    BY <2>1, CodeGraphAssumption, FS_Subset, FS_CardinalityType
<1>5. \A i \in other : sym(i) \in g.syms /\ sym(i).id = i
  <2> HIDE DEF other
  <2> QED
    BY <1>2
<1>6. \A i \in other : sym(i).name = c[2]
  <2> SUFFICES ASSUME NEW i \in other PROVE sym(i).name = c[2]
    OBVIOUS
  <2>1. PICK s \in g.syms : s.id = i /\ s.name = c[2]
    BY <1>2
  <2> HIDE DEF sym, other
  <2> QED
    BY <1>5, <2>1 DEF Sound, Keyed
<1> HIDE DEF sym
<1>7. \A i \in other : sym(i).file \in H
  <2> SUFFICES ASSUME NEW i \in other PROVE sym(i).file \in H
    OBVIOUS
  <2> HIDE DEF other
  <2>1. sym(i).file \in Files
    BY <1>5, GraphFields
  <2>2. \E u \in Texts[sym(i).file] : sym(i).name \in DOMAIN u
    BY <1>5 DEF Sound, Keyed
  <2> QED
    BY <1>6, <2>1, <2>2
<1>8. k \in [other -> H]
  <2> HIDE DEF other, H
  <2> QED
    BY <1>7
<1>9. \A i, j \in other : k[i] = k[j] => i = j
  <2> SUFFICES ASSUME NEW i \in other, NEW j \in other, k[i] = k[j] PROVE i = j
    OBVIOUS
  <2> HIDE DEF other
  <2>1. sym(i).file = sym(j).file
    OBVIOUS
  <2>2. sym(i) = sym(j)
    BY <1>5, <1>6, <2>1 DEF Sound, Keyed
  <2> QED
    BY <1>5, <2>2
<1> HIDE DEF other, H, k
<1>10. k \in Injection(other, H)
  BY <1>8, <1>9, Fun_IsInj
<1>11. IsFiniteSet(other) /\ Cardinality(other) <= Cardinality(H)
  BY <1>4, <1>10, FS_Injection
<1>12. Cardinality(other) \in Nat /\ MaxFanout \in Nat
  BY <1>11, FS_CardinalityType, CodeGraphAssumption
<1>13. Few(c[2]) => ~(Cardinality(other) > MaxFanout)
  BY <1>4, <1>11, <1>12 DEF Few, H
<1> QED
  BY <1>1, <1>2, <1>3, <1>13

LEMMA EdgesAre ==
  ASSUME NEW g \in Graphs, Sound(g), NEW calls \in SUBSET (Nat \X Called),
         \A c \in calls : c[1] \in Ids(g), NEW h, h = WithEdges(g, EdgesOf(g, calls))
  PROVE  /\ h \in Graphs /\ Sound(h) /\ h.hash = g.hash /\ h.syms = g.syms
         /\ g.edges \subseteq h.edges
         /\ \A e \in h.edges :
              \/ e \in g.edges
              \/ \E c \in calls : e[1] = c[1] /\ \E s \in g.syms : s.id = e[2] /\ s.name = c[2]
         /\ \A c \in calls, s \in g.syms :
              s.name = c[2] /\ s.id # c[1] /\ Few(c[2]) => <<c[1], s.id>> \in h.edges
<1> DEFINE new == EdgesOf(g, calls)
<1>1. \A e \in new : \E c \in calls : \E i \in Targets(g, c) : e = <<c[1], i>>
  BY DEF EdgesOf
<1>2. \A c \in calls : \A i \in Targets(g, c) : <<c[1], i>> \in new
  BY DEF EdgesOf
<1>3. \A c \in calls : c[1] \in Nat
  OBVIOUS
<1> HIDE DEF new
<1>4. ASSUME NEW e \in new
      PROVE  /\ e \in Nat \X Nat /\ e[1] \in Ids(g) /\ e[2] \in Ids(g) /\ e[1] # e[2]
             /\ \E c \in calls : e[1] = c[1] /\ \E s \in g.syms : s.id = e[2] /\ s.name = c[2]
  <2>1. PICK c \in calls : \E i \in Targets(g, c) : e = <<c[1], i>>
    BY <1>1
  <2>2. PICK i \in Targets(g, c) : e = <<c[1], i>>
    BY <2>1
  <2>3. i # c[1] /\ \E s \in g.syms : s.id = i /\ s.name = c[2]
    BY TargetsAre
  <2>4. i \in Ids(g) /\ i \in Nat
    BY <2>3, GraphFields DEF Ids
  <2> QED
    BY <1>3, <2>2, <2>3, <2>4
<1>5. /\ h.edges = g.edges \cup new /\ h \in Graphs /\ h.hash = g.hash /\ h.syms = g.syms
  <2> DEFINE z == g.edges \cup new
  <2>1. z \in SUBSET (Nat \X Nat)
    BY <1>4, GraphFields
  <2>2. h = [g EXCEPT !.edges = z]
    BY DEF WithEdges, new
  <2> HIDE DEF z
  <2>3. h \in Graphs /\ h.edges = z /\ h.hash = g.hash /\ h.syms = g.syms
    BY <2>1, <2>2 DEF Graphs
  <2> QED
    BY <2>3 DEF z
<1>6. Ids(h) = Ids(g)
  BY <1>5 DEF Ids
<1>7. Hashed(h) /\ Keyed(h)
  BY <1>5 DEF Sound, Hashed, Keyed
<1>8. Linked(h)
  <2>1. \A e \in g.edges : e[1] \in Ids(g) /\ e[2] \in Ids(g) /\ e[1] # e[2]
    BY DEF Sound, Linked
  <2> QED
    BY <1>4, <1>5, <1>6, <2>1 DEF Linked
<1>9. \A c \in calls, s \in g.syms :
        s.name = c[2] /\ s.id # c[1] /\ Few(c[2]) => <<c[1], s.id>> \in new
  BY <1>2, TargetsAre
<1> QED
  BY <1>4, <1>5, <1>7, <1>8, <1>9 DEF Sound

-----------------------------------------------------------------------------
(* What holds at first.                                                    *)
LEMMA InitInv ==
  Init => IInv
<1> SUFFICES ASSUME Init PROVE IInv
  OBVIOUS
<1>1. /\ \A p \in Procs : pc[p] = "idle" /\ job[p] = NoJob
      /\ db = EmptyGraph /\ view = EmptyGraph /\ torn = {} /\ ~wrote /\ ~open
      /\ \A p \in Procs : ~fresh[p]
  BY DEF Init
<1>2. NoJob \in Jobs /\ NoJob.file = {} /\ NoJob.calls = {} /\ NoJob.text = {}
  BY DEF NoJob, Jobs
<1>3. Watcher \in Procs /\ Scanners \subseteq Procs
  BY DEF Procs
<1>4. \A f \in Files : EmptyGraph.hash[f] = {}
  BY DEF EmptyGraph
<1>5. Types
  <2>1. disk \in [Files -> Contents] /\ \A f \in Files : disk[f] \in Texts[f]
    <3>1. disk = FirstText /\ \A f \in Files : FirstText[f] \in Texts[f]
      BY CodeGraphAssumption DEF Init
    <3> QED
      BY <3>1, CodeGraphAssumption DEF Contents
  <2>2. pc \in [Procs -> Places] /\ job \in [Procs -> Jobs] /\ fresh \in [Procs -> BOOLEAN]
    BY <1>2 DEF Init, Places
  <2> QED
    BY <1>1, <2>1, <2>2, EmptyIsSound DEF Types, Init
<1>6. \A p \in Procs : Carries(p)
  BY <1>1, <1>2, FS_EmptySet DEF Carries
<1>7. \A p \in Scanners : ScannerOk(p)
  BY <1>1, <1>2, <1>3 DEF ScannerOk
<1>8. WatcherOk /\ TxnOk
  BY <1>1, <1>2, <1>3 DEF WatcherOk, TxnOk
<1>9. \A f \in Files : Truthful(f) /\ Bound(f)
  BY <1>1, <1>4 DEF Truthful, Bound
<1>10. \A p \in Procs, f \in Files : Rewrites(p, f) /\ Resolves(p, f)
  BY <1>1 DEF Rewrites, Resolves, Rewriting
<1> QED
  BY <1>1, <1>5, <1>6, <1>7, <1>8, <1>9, <1>10, EmptyIsSound DEF IInv

-----------------------------------------------------------------------------
(* A file whose rows a step leaves alone keeps what is said of it.         *)
Busy(q, x) == pc[q] \in {"clear", "symbols", "resolve"} /\ job[q].file = {x}

LEMMA FileKept ==
  ASSUME IInv, NEW x \in Files,
         db'.hash[x] = db.hash[x], SymsOf(db', x) = SymsOf(db, x),
         \A s \in SymsOf(db, x), d \in db'.syms : <<s.id, d.id>> \in db'.edges =>
           \/ d \in db.syms /\ <<s.id, d.id>> \in db.edges
           \/ \E q \in Scanners : <<s.id, d.name>> \in job[q].calls,
         \A s, d \in SymsOf(db, x) : <<s.id, d.id>> \in db.edges => <<s.id, d.id>> \in db'.edges,
         x \in torn' <=> x \in torn, x \in unbound => x \in unbound',
         Touched(x)' <=> Touched(x),
         \A q \in Procs : \/ pc'[q] = pc[q] /\ job'[q] = job[q]
                          \/ ~Busy(q, x) /\ ~Busy(q, x)',
         \A q \in Scanners : \A c \in job'[q].calls : \A s \in SymsOf(db, x) :
           s.id = c[1] => c \in job[q].calls,
         \A q \in Scanners : \A c \in job[q].calls : c[1] \notin Ids(db) => c[1] \notin Ids(db')
  PROVE  /\ Truthful(x)' /\ Bound(x)'
         /\ \A q \in Procs : Rewrites(q, x)' /\ Resolves(q, x)'
<1>1. \A q \in Procs : Rewriting(q, x)' <=> Rewriting(q, x)
  BY DEF Rewriting, Busy
<1>2. Clearing(x)' <=> Clearing(x)
  <2>1. \A q \in Procs : (pc'[q] = "clear" /\ job'[q].file = {x})
                     <=> (pc[q] = "clear" /\ job[q].file = {x})
    BY DEF Busy
  <2> QED
    BY <2>1 DEF Clearing
<1>3. \A q \in Procs : (pc'[q] = "resolve" /\ job'[q].file = {x})
                   <=> (pc[q] = "resolve" /\ job[q].file = {x})
  BY DEF Busy
<1>4. Steady(x)' <=> Steady(x)
  BY <1>2 DEF Steady
<1>5. Settled(x)' => Settled(x)
  BY <1>1 DEF Settled, Touched
<1>6. Named(db', x) = Named(db, x)
  BY DEF Named
<1>7. Truthful(x) /\ Bound(x) /\ \A q \in Procs : Rewrites(q, x) /\ Resolves(q, x)
  BY DEF IInv
<1>8. Truthful(x)'
  <2> SUFFICES ASSUME Steady(x)', NEW t \in db'.hash[x]
               PROVE  /\ (\A p \in Procs : ~Rewriting(p, x))' => Named(db', x) = DOMAIN t
                      /\ \A q \in Scanners : \A c \in job'[q].calls : \A s \in SymsOf(db', x) :
                           s.id = c[1] => c[2] \in t[s.name]
                      /\ \A s \in SymsOf(db', x), d \in db'.syms :
                           <<s.id, d.id>> \in db'.edges => d.name \in t[s.name]
    BY DEF Truthful
  <2>1. /\ (\A p \in Procs : ~Rewriting(p, x)) => Named(db, x) = DOMAIN t
        /\ \A q \in Scanners : \A c \in job[q].calls : \A s \in SymsOf(db, x) :
             s.id = c[1] => c[2] \in t[s.name]
        /\ \A s \in SymsOf(db, x), d \in db.syms : <<s.id, d.id>> \in db.edges => d.name \in t[s.name]
    BY <1>4, <1>7 DEF Truthful
  <2>2. (\A p \in Procs : ~Rewriting(p, x))' => Named(db', x) = DOMAIN t
    BY <1>1, <1>6, <2>1
  <2>3. \A q \in Scanners : \A c \in job'[q].calls : \A s \in SymsOf(db', x) :
          s.id = c[1] => c[2] \in t[s.name]
    BY <2>1
  <2>4. ASSUME NEW s \in SymsOf(db', x), NEW d \in db'.syms, <<s.id, d.id>> \in db'.edges
        PROVE  d.name \in t[s.name]
    <3>1. CASE \E q \in Scanners : <<s.id, d.name>> \in job[q].calls
      <4>1. PICK q \in Scanners : <<s.id, d.name>> \in job[q].calls
        BY <3>1
      <4> DEFINE c == <<s.id, d.name>>
      <4>2. c \in job[q].calls /\ c[1] = s.id /\ c[2] = d.name
        BY <4>1
      <4> HIDE DEF c
      <4> QED
        BY <2>1, <4>2
    <3>2. CASE d \in db.syms /\ <<s.id, d.id>> \in db.edges
      BY <2>1, <3>2
    <3> QED
      BY <2>4, <3>1, <3>2
  <2> QED
    BY <2>2, <2>3, <2>4
<1>9. Bound(x)'
  BY <1>3, <1>5, <1>7 DEF Bound
<1>10. ASSUME NEW q \in Procs PROVE Rewrites(q, x)'
  <2> SUFFICES ASSUME x \notin torn', Rewriting(q, x)'
               PROVE /\ job'[q].text = job'[q].hash /\ db'.hash[x] = job'[q].hash
                     /\ (\A r \in Procs \ {q} : ~Rewriting(r, x))'
                     /\ pc'[q] = "symbols" => \A t \in job'[q].text :
                          /\ Named(db', x) = DOMAIN t \ job'[q].names
                          /\ \A s \in SymsOf(db', x) : \A m \in t[s.name] :
                               <<s.id, m>> \in job'[q].calls
    BY DEF Rewrites
  <2>1. pc'[q] = pc[q] /\ job'[q] = job[q]
    BY DEF Busy, Rewriting
  <2>2. Rewriting(q, x) /\ x \notin torn
    BY <1>1
  <2> QED
    BY <1>1, <1>6, <1>7, <2>1, <2>2 DEF Rewrites
<1>11. ASSUME NEW q \in Procs PROVE Resolves(q, x)'
  <2> SUFFICES ASSUME pc'[q] = "resolve", job'[q].file = {x}
               PROVE \/ \A c \in job'[q].calls : c[1] \notin Ids(db')
                     \/ ~Steady(x)'
                     \/ /\ (\A p \in Procs : ~Rewriting(p, x))'
                        /\ \A t \in db'.hash[x] : \A s \in SymsOf(db', x) : \A m \in t[s.name] :
                              <<s.id, m>> \in job'[q].calls
    BY DEF Resolves
  <2>1. pc'[q] = pc[q] /\ job'[q] = job[q]
    BY DEF Busy
  <2>2. q \in Scanners
    <3>1. pc[Watcher] # "resolve"
      BY DEF IInv, WatcherOk
    <3> QED
      BY <2>1, <3>1 DEF Procs
  <2>3. \/ \A c \in job[q].calls : c[1] \notin Ids(db)
        \/ ~Steady(x)
        \/ /\ \A p \in Procs : ~Rewriting(p, x)
           /\ \A t \in db.hash[x] : \A s \in SymsOf(db, x) : \A m \in t[s.name] :
                <<s.id, m>> \in job[q].calls
    BY <1>7, <2>1 DEF Resolves
  <2>4. CASE \A c \in job[q].calls : c[1] \notin Ids(db)
    BY <2>1, <2>2, <2>4
  <2>5. CASE ~Steady(x)
    BY <1>4, <2>5
  <2>6. CASE /\ \A p \in Procs : ~Rewriting(p, x)
             /\ \A t \in db.hash[x] : \A s \in SymsOf(db, x) : \A m \in t[s.name] :
                  <<s.id, m>> \in job[q].calls
    BY <1>1, <2>1, <2>6
  <2> QED
    BY <2>3, <2>4, <2>5, <2>6
<1> QED
  BY <1>8, <1>9, <1>10, <1>11

-----------------------------------------------------------------------------
(* What a scan carries, and the steps that store nothing.                  *)
LEMMA JobFields ==
  ASSUME Types, NEW p \in Procs
  PROVE  /\ job[p] \in Jobs /\ pc[p] \in Places
         /\ job[p].todo \subseteq Files /\ job[p].file \subseteq Files
         /\ job[p].hash \subseteq Contents /\ job[p].text \subseteq Contents
         /\ job[p].names \subseteq Names /\ job[p].calls \subseteq Nat \X Called
<1>1. job[p] \in Jobs /\ pc[p] \in Places
  BY DEF Types
<1> QED
  BY <1>1 DEF Jobs

LEMMA NextFileIs ==
  ASSUME NEW j \in Jobs, NEW n, n = NextFile(j)
  PROVE  /\ n \in Jobs /\ n.todo = j.todo /\ n.calls = j.calls
         /\ n.file = {} /\ n.text = {} /\ n.hash = {} /\ n.names = {}
<1>1. n = [todo |-> j.todo, file |-> {}, hash |-> {}, text |-> {}, names |-> {}, calls |-> j.calls]
  BY DEF NextFile, NoJob
<1> QED
  BY <1>1 DEF Jobs

LEMMA NoJobIs ==
  /\ NoJob \in Jobs /\ NoJob.todo = {} /\ NoJob.file = {} /\ NoJob.text = {}
  /\ NoJob.names = {} /\ NoJob.calls = {}
BY DEF NoJob, Jobs

LEMMA Moves ==
  ASSUME Types, NEW p \in Procs, NEW j \in Jobs, NEW l \in Places,
         job' = [job EXCEPT ![p] = j], pc' = [pc EXCEPT ![p] = l]
  PROVE  /\ pc' \in [Procs -> Places] /\ job' \in [Procs -> Jobs]
         /\ pc'[p] = l /\ job'[p] = j
         /\ \A q \in Procs \ {p} : pc'[q] = pc[q] /\ job'[q] = job[q]
BY DEF Types

LEMMA TxnKept ==
  ASSUME IInv, db' = db, wrote' = wrote, torn \subseteq torn',
         wrote => view' = view /\ open' = open /\ fresh'[Watcher] = fresh[Watcher],
         fresh'[Watcher] => open', fresh'[Watcher] /\ ~wrote => view' = db,
         \A q \in Procs, x \in Files : Rewriting(q, x)' => Rewriting(q, x),
         \A q \in Scanners : job'[q].calls \subseteq job[q].calls,
         job'[Watcher].calls = job[Watcher].calls,
         wrote => /\ job'[Watcher].todo \cup job'[Watcher].file
                       \subseteq job[Watcher].todo \cup job[Watcher].file
  PROVE  TxnOk'
<1>1. CASE ~wrote
  BY <1>1 DEF TxnOk
<1>2. CASE wrote
  <2>1. \A f \in Files : Touched(f)' <=> Touched(f)
    BY <1>2 DEF Touched
  <2>2. TxnOk
    BY DEF IInv
  <2>3. ASSUME NEW f \in Files, Stored(f) PROVE Stored(f)'
    <3>1. view'.hash[f] # db'.hash[f] /\ f \notin job'[Watcher].todo /\ f \notin job'[Watcher].file
      BY <1>2, <2>3 DEF Stored
    <3>2. \A s \in SymsOf(view', f) :
            s.id \notin Ids(db') /\ \A q \in Scanners : \A c \in job'[q].calls : c[1] # s.id
      BY <1>2, <2>3 DEF Stored
    <3>3. ASSUME f \notin torn'
          PROVE  /\ \A p \in Procs : ~Rewriting(p, f)'
                 /\ \A t \in view'.hash[f] :
                      /\ Named(view', f) = DOMAIN t
                      /\ \A s \in SymsOf(view', f), m \in Called :
                           m \in t[s.name] <=> <<s.id, m>> \in job'[Watcher].calls
      <4>1. f \notin torn
        BY <3>3
      <4> QED
        BY <1>2, <2>3, <4>1 DEF Stored
    <3> QED
      BY <3>1, <3>2, <3>3 DEF Stored
  <2>4. \A f \in Files : SameRows(view', db', f) \/ Stored(f)'
    BY <1>2, <2>2, <2>3 DEF TxnOk
  <2>5. \A c \in job'[Watcher].calls : \E s \in view'.syms : s.id = c[1] /\ Touched(s.file)'
    <3> SUFFICES ASSUME NEW c \in job[Watcher].calls
                 PROVE  \E s \in view.syms : s.id = c[1] /\ Touched(s.file)'
      BY <1>2
    <3>1. PICK s \in view.syms : s.id = c[1] /\ Touched(s.file)
      BY <1>2, <2>2 DEF TxnOk
    <3>2. s.file \in Files
      BY GraphFields DEF IInv, Types
    <3> QED
      BY <2>1, <3>1, <3>2
  <2> QED
    BY <1>2, <2>2, <2>4, <2>5 DEF TxnOk
<1> QED
  BY <1>1, <1>2

LEMMA Quiet ==
  ASSUME IInv, Types', NEW p \in Procs, db' = db, wrote' = wrote,
         torn' = torn, unbound' = unbound,
         wrote => view' = view /\ open' = open /\ fresh'[Watcher] = fresh[Watcher],
         Sound(view'), fresh'[Watcher] => open', fresh'[Watcher] /\ ~wrote => view' = db,
         \A q \in Procs \ {p} : pc'[q] = pc[q] /\ job'[q] = job[q],
         pc[p] \notin {"clear", "symbols", "resolve"}, pc'[p] \notin {"clear", "symbols", "resolve"},
         job'[p].calls = job[p].calls, Carries(p)', WatcherOk',
         wrote => /\ job'[Watcher].todo \cup job'[Watcher].file
                       \subseteq job[Watcher].todo \cup job[Watcher].file
  PROVE  IInv'
<1>1. \A q \in Procs : job'[q].calls = job[q].calls
  OBVIOUS
<1>2. Watcher \in Procs /\ Scanners \subseteq Procs
  BY DEF Procs
<1>3. ASSUME NEW q \in Procs, NEW x \in Files
      PROVE  (pc'[q] = pc[q] /\ job'[q] = job[q]) \/ (~Busy(q, x) /\ ~Busy(q, x)')
  BY DEF Busy
<1>4. ASSUME NEW q \in Procs, NEW x \in Files, Rewriting(q, x)' PROVE Rewriting(q, x)
  BY <1>4 DEF Rewriting
<1>5. TxnOk'
  BY <1>1, <1>2, <1>4, TxnKept
<1>6. ASSUME NEW x \in Files
      PROVE  Truthful(x)' /\ Bound(x)' /\ \A q \in Procs : Rewrites(q, x)' /\ Resolves(q, x)'
  <2>1. Touched(x)' <=> Touched(x)
    BY DEF Touched
  <2>2. \A s \in SymsOf(db, x), d \in db'.syms : <<s.id, d.id>> \in db'.edges =>
          d \in db.syms /\ <<s.id, d.id>> \in db.edges
    OBVIOUS
  <2>3. \A q \in Scanners : \A c \in job'[q].calls : \A s \in SymsOf(db, x) :
          s.id = c[1] => c \in job[q].calls
    BY <1>1, <1>2
  <2> QED
    BY <1>3, <2>1, <2>2, <2>3, FileKept
<1>7. ASSUME NEW q \in Procs PROVE Carries(q)'
  <2>1. CASE q = p
    BY <2>1
  <2>2. CASE q # p
    <3>1. Carries(q)
      BY DEF IInv
    <3> QED
      BY <2>2, <3>1 DEF Carries
  <2> QED
    BY <2>1, <2>2
<1>8. ASSUME NEW q \in Scanners PROVE ScannerOk(q)'
  <2>1. ScannerOk(q)
    BY DEF IInv
  <2>2. CASE q = p
    <3>1. job[q].calls = {} /\ job'[q].calls = {}
      BY <2>1, <2>2 DEF ScannerOk
    <3> QED
      BY <2>2, <3>1 DEF ScannerOk
  <2>3. CASE q # p
    <3>1. pc'[q] = pc[q] /\ job'[q] = job[q]
      BY <1>2, <2>3
    <3> QED
      BY <2>1, <3>1 DEF ScannerOk
  <2> QED
    BY <2>2, <2>3
<1>9. Sound(db')
  BY DEF IInv
<1> QED
  BY <1>5, <1>6, <1>7, <1>8, <1>9 DEF IInv

\* Files are written, and the feeds fill and empty.
LEMMA WorldInv ==
  ASSUME IInv, Types', UNCHANGED <<db, pc, job, open, view, wrote, fresh, torn, unbound>>
  PROVE  IInv'
<1>1. WatcherOk' /\ Carries(Watcher)'
  <2>1. WatcherOk /\ Carries(Watcher)
    BY DEF IInv, Procs
  <2> QED
    BY <2>1 DEF WatcherOk, Carries
<1>2. pc[Watcher] \notin {"clear", "symbols", "resolve"}
  BY DEF IInv, WatcherOk
<1>3. Sound(view') /\ (fresh'[Watcher] => open') /\ (fresh'[Watcher] /\ ~wrote => view' = db)
  BY DEF IInv, TxnOk
<1>4. Watcher \in Procs
  BY DEF Procs
<1> QED
  BY <1>1, <1>2, <1>3, <1>4, Quiet

LEMMA FeedsInv ==
  ASSUME IInv, (\E f \in Files : Write(f) \/ NoteEdit(f)) \/ TakeElsewhere
  PROVE  IInv'
<1>1. UNCHANGED <<db, pc, job, open, view, wrote, fresh, torn, unbound>>
  BY DEF Write, NoteEdit, TakeElsewhere, txn, marks
<1>2. Types
  BY DEF IInv
<1>3. disk' \in [Files -> Contents] /\ \A x \in Files : disk'[x] \in Texts[x]
  <2>1. CASE \E f \in Files : Write(f)
    <3>1. PICK f \in Files : \E t \in Texts[f] : disk' = [disk EXCEPT ![f] = t]
      BY <2>1 DEF Write
    <3>2. PICK t \in Texts[f] : disk' = [disk EXCEPT ![f] = t]
      BY <3>1
    <3>3. t \in Contents
      BY DEF Contents
    <3> QED
      BY <1>2, <3>2, <3>3 DEF Types
  <2>2. CASE (\E f \in Files : NoteEdit(f)) \/ TakeElsewhere
    BY <1>2, <2>2 DEF NoteEdit, TakeElsewhere, Types
  <2> QED
    BY <2>1, <2>2
<1>4. list' \subseteq Files /\ edited' \subseteq Files /\ events' \subseteq Files /\ lost' \subseteq Files
  BY <1>2 DEF Write, NoteEdit, TakeElsewhere, marks, Types
<1>5. Types'
  BY <1>1, <1>2, <1>3, <1>4 DEF Types
<1> QED
  BY <1>1, <1>5, WorldInv

\* A scan starts, or ends with nothing left to store.
LEMMA BetweenFiles ==
  ASSUME IInv, Types', NEW p \in Procs, NEW j \in Jobs, NEW l \in {"idle", "unlist", "next"},
         job' = [job EXCEPT ![p] = j], pc' = [pc EXCEPT ![p] = l],
         UNCHANGED <<db, open, view, wrote, torn, unbound>>, fresh'[Watcher] = fresh[Watcher],
         j.file = {}, j.calls = job[p].calls, pc[p] \notin {"clear", "symbols", "resolve"},
         p = Watcher => l # "unlist" /\ (l = "idle" => ~wrote),
         wrote /\ p = Watcher => j.todo \subseteq job[p].todo
  PROVE  IInv'
<1>1. Types /\ l \in Places
  BY DEF IInv, Places
<1>2. /\ pc'[p] = l /\ job'[p] = j
      /\ \A q \in Procs \ {p} : pc'[q] = pc[q] /\ job'[q] = job[q]
  BY <1>1, Moves
<1>3. Carries(p)'
  <2>1. Carries(p)
    BY DEF IInv
  <2> QED
    BY <1>2, <2>1 DEF Carries
<1>4. Watcher \in Procs
  BY DEF Procs
<1>5. WatcherOk'
  <2>1. WatcherOk
    BY DEF IInv
  <2>2. CASE p = Watcher
    BY <1>2, <2>1, <2>2 DEF WatcherOk
  <2>3. CASE p # Watcher
    BY <1>2, <1>4, <2>1, <2>3 DEF WatcherOk
  <2> QED
    BY <2>2, <2>3
<1>6. Sound(view') /\ (fresh'[Watcher] => open') /\ (fresh'[Watcher] /\ ~wrote => view' = db)
  BY DEF IInv, TxnOk
<1>7. wrote => /\ job'[Watcher].todo \cup job'[Watcher].file
                    \subseteq job[Watcher].todo \cup job[Watcher].file
  <2>1. CASE p = Watcher
    BY <1>2, <2>1
  <2>2. CASE p # Watcher
    BY <1>2, <1>4, <2>2
  <2> QED
    BY <2>1, <2>2
<1> QED
  BY <1>2, <1>3, <1>5, <1>6, <1>7, Quiet

LEMMA StartInv ==
  ASSUME IInv, NEW p \in Scanners,
         TakeList(p) \/ RemoveList(p) \/ (\E f \in Files : UpdateFile(p, f)) \/ EndScan(p)
  PROVE  IInv'
<1>1. p \in Procs /\ p # Watcher /\ Types /\ Carries(p) /\ ScannerOk(p)
  BY CodeGraphAssumption DEF Procs, IInv
<1>2. /\ pc[p] \in {"idle", "unlist", "next"}
      /\ UNCHANGED <<db, open, view, wrote, fresh, torn, unbound, disk, edited, events>>
      /\ list' \subseteq list /\ lost' \subseteq lost \cup list
  BY DEF TakeList, RemoveList, UpdateFile, EndScan, world, txn, marks
<1>3. /\ job[p] \in Jobs /\ job[p].file = {} /\ job[p].calls = {} /\ job[p].todo \subseteq Files
  BY <1>1, <1>2, JobFields DEF Carries, ScannerOk
<1>4. list \subseteq Files
  BY <1>1 DEF Types
<1>5. ASSUME NEW todo \in SUBSET Files, NEW j, j = [job[p] EXCEPT !.todo = todo]
      PROVE  j \in Jobs /\ j.file = {} /\ j.calls = {}
  BY <1>3, <1>5 DEF Jobs
<1>6. \E j \in Jobs, l \in {"idle", "unlist", "next"} :
        /\ job' = [job EXCEPT ![p] = j] /\ pc' = [pc EXCEPT ![p] = l]
        /\ j.file = {} /\ j.calls = {}
  <2>1. CASE TakeList(p)
    <3> DEFINE j == [job[p] EXCEPT !.todo = list]
    <3>1. job' = [job EXCEPT ![p] = j] /\ pc' = [pc EXCEPT ![p] = "unlist"]
      BY <2>1 DEF TakeList, Goto
    <3>2. j \in Jobs /\ j.file = {} /\ j.calls = {}
      BY <1>4, <1>5
    <3> HIDE DEF j
    <3> QED
      BY <3>1, <3>2
  <2>2. CASE RemoveList(p)
    <3>1. job' = [job EXCEPT ![p] = job[p]] /\ pc' = [pc EXCEPT ![p] = "next"]
      BY <1>1, <2>2 DEF RemoveList, Goto, Types
    <3> QED
      BY <1>3, <3>1
  <2>3. CASE \E f \in Files : UpdateFile(p, f)
    <3>0. PICK f \in Files : UpdateFile(p, f)
      BY <2>3
    <3> DEFINE j == [job[p] EXCEPT !.todo = {f}]
    <3>1. job' = [job EXCEPT ![p] = j] /\ pc' = [pc EXCEPT ![p] = "next"]
      BY <3>0 DEF UpdateFile, Goto
    <3>2. j \in Jobs /\ j.file = {} /\ j.calls = {}
      BY <1>5
    <3> HIDE DEF j
    <3> QED
      BY <3>1, <3>2
  <2>4. CASE EndScan(p)
    <3>1. job' = [job EXCEPT ![p] = NoJob] /\ pc' = [pc EXCEPT ![p] = "idle"]
      BY <2>4 DEF EndScan, Goto
    <3> QED
      BY <3>1, NoJobIs
  <2> QED
    BY <2>1, <2>2, <2>3, <2>4
<1>7. PICK j \in Jobs, l \in {"idle", "unlist", "next"} :
        /\ job' = [job EXCEPT ![p] = j] /\ pc' = [pc EXCEPT ![p] = l]
        /\ j.file = {} /\ j.calls = {}
  BY <1>6
<1>8. Types'
  <2>1. pc' \in [Procs -> Places] /\ job' \in [Procs -> Jobs]
    BY <1>1, <1>7 DEF Types, Places
  <2> QED
    BY <1>1, <1>2, <2>1 DEF Types
<1> QED
  BY <1>1, <1>2, <1>3, <1>7, <1>8, BetweenFiles

LEMMA WatchBatchInv ==
  ASSUME IInv, WatchBatch
  PROVE  IInv'
<1>1. Watcher \in Procs /\ Types /\ WatcherOk
  BY DEF IInv, Procs
<1> DEFINE j == [job[Watcher] EXCEPT !.todo = Files]
<1>2. /\ job' = [job EXCEPT ![Watcher] = j] /\ pc' = [pc EXCEPT ![Watcher] = "next"]
      /\ UNCHANGED <<db, open, view, wrote, fresh, torn, unbound, disk, edited, list, lost>>
      /\ events' \subseteq Files /\ pc[Watcher] = "idle"
  BY DEF WatchBatch, Goto, txn, marks
<1>3. job[Watcher] \in Jobs /\ job[Watcher].file = {}
  BY <1>1, <1>2, JobFields DEF IInv, Carries
<1>4. j \in Jobs /\ j.file = {} /\ j.calls = job[Watcher].calls
  BY <1>3 DEF Jobs
<1> HIDE DEF j
<1>5. Types'
  <2>1. pc' \in [Procs -> Places] /\ job' \in [Procs -> Jobs]
    BY <1>1, <1>2, <1>4 DEF Types, Places
  <2> QED
    BY <1>1, <1>2, <2>1 DEF Types
<1>6. ~wrote
  BY <1>1, <1>2 DEF WatcherOk
<1> QED
  BY <1>1, <1>2, <1>4, <1>5, <1>6, BetweenFiles

LEMMA HashFileInv ==
  ASSUME IInv, NEW p \in Procs, HashFile(p)
  PROVE  IInv'
<1>1. Types /\ Carries(p) /\ WatcherOk /\ Watcher \in Procs
  BY DEF IInv, Procs
<1>2. PICK f \in job[p].todo :
        job' = [job EXCEPT ![p].todo = @ \ {f}, ![p].file = {f}, ![p].hash = {disk[f]}]
  BY DEF HashFile
<1> DEFINE j == [job[p] EXCEPT !.todo = job[p].todo \ {f}, !.file = {f}, !.hash = {disk[f]}]
<1>3. /\ job' = [job EXCEPT ![p] = j] /\ pc' = [pc EXCEPT ![p] = "check"] /\ pc[p] = "next"
      /\ UNCHANGED <<db, open, view, wrote, fresh, torn, unbound, disk, edited, list, lost, events>>
  BY <1>2 DEF HashFile, Goto, world, txn, marks
<1>4. job[p] \in Jobs /\ job[p].todo \subseteq Files /\ f \in Files /\ f \in job[p].todo
  BY <1>1, <1>2, JobFields
<1>5. disk[f] \in Contents /\ disk[f] \in Texts[f]
  BY <1>1, <1>4 DEF Types
<1>6. /\ j \in Jobs /\ j.file = {f} /\ j.calls = job[p].calls /\ j.hash = {disk[f]}
      /\ j.todo = job[p].todo \ {f} /\ j.text = job[p].text
  BY <1>4, <1>5 DEF Jobs
<1> HIDE DEF j
<1>7. /\ pc' \in [Procs -> Places] /\ job' \in [Procs -> Jobs]
      /\ pc'[p] = "check" /\ job'[p] = j
      /\ \A q \in Procs \ {p} : pc'[q] = pc[q] /\ job'[q] = job[q]
  BY <1>1, <1>3, <1>6, Moves DEF Places
<1>8. Types'
  BY <1>1, <1>3, <1>7 DEF Types
<1>9. Carries(p)'
  BY <1>1, <1>4, <1>5, <1>6, <1>7 DEF Carries
<1>10. WatcherOk'
  BY <1>1, <1>3, <1>6, <1>7 DEF WatcherOk
<1>11. wrote => /\ job'[Watcher].todo \cup job'[Watcher].file
                    \subseteq job[Watcher].todo \cup job[Watcher].file
  <2>1. CASE p = Watcher
    BY <1>4, <1>6, <1>7, <2>1
  <2>2. CASE p # Watcher
    BY <1>1, <1>7, <2>2
  <2> QED
    BY <2>1, <2>2
<1>12. Sound(view') /\ (fresh'[Watcher] => open') /\ (fresh'[Watcher] /\ ~wrote => view' = db)
  BY <1>3 DEF IInv, TxnOk
<1> QED
  BY <1>3, <1>6, <1>7, <1>8, <1>9, <1>10, <1>11, <1>12, Quiet


LEMMA FileIs ==
  ASSUME IInv, NEW p \in Procs, pc[p] \in {"check", "node", "clear", "symbols", "resolve"}
  PROVE  /\ File(p) \in Files /\ job[p].file = {File(p)} /\ File(p) \notin job[p].todo
         /\ Hash(p) \in Texts[File(p)] /\ job[p].hash = {Hash(p)}
         /\ pc[p] # "check" => Text(p) \in Texts[File(p)] /\ job[p].text = {Text(p)}
<1>1. Carries(p)
  BY DEF IInv
<1>2. PICK f \in Files : /\ job[p].file = {f} /\ f \notin job[p].todo
                         /\ \E t \in Texts[f] : job[p].hash = {t}
                         /\ pc[p] # "check" => \E t \in Texts[f] : job[p].text = {t}
  BY <1>1 DEF Carries
<1>3. File(p) = f
  BY <1>2 DEF File
<1>4. Hash(p) \in Texts[f] /\ job[p].hash = {Hash(p)}
  BY <1>2, <1>3 DEF Hash
<1>5. pc[p] # "check" => Text(p) \in Texts[f] /\ job[p].text = {Text(p)}
  BY <1>2, <1>3 DEF Text
<1> QED
  BY <1>2, <1>3, <1>4, <1>5

\* The hash of the file against the stored one.  The watcher goes on to store
\* a file only if they differ in its own snapshot.
LEMMA CheckAndReadInv ==
  ASSUME IInv, NEW p \in Procs, CheckAndRead(p)
  PROVE  IInv'
<1>1. /\ Types /\ Carries(p) /\ WatcherOk /\ Watcher \in Procs /\ TxnOk
      /\ job[p] \in Jobs /\ pc[p] = "check"
  BY JobFields DEF IInv, Procs, CheckAndRead
<1>2. /\ File(p) \in Files /\ job[p].file = {File(p)} /\ File(p) \notin job[p].todo
      /\ Hash(p) \in Texts[File(p)] /\ job[p].hash = {Hash(p)}
  BY <1>1, FileIs
<1>3. /\ UNCHANGED <<db, disk, list, edited, events, lost, torn, unbound>>
      /\ Snapshot(p)
  BY DEF CheckAndRead, world, marks
<1>4. /\ view' \in Graphs /\ Sound(view') /\ open' \in BOOLEAN /\ wrote' = wrote
      /\ fresh' \in [Procs -> BOOLEAN]
      /\ wrote => view' = view /\ open' = open /\ fresh'[Watcher] = fresh[Watcher]
      /\ fresh'[Watcher] => open' /\ (fresh'[Watcher] /\ ~wrote => view' = db)
      /\ p = Watcher => open' /\ view' = Graph(p)
  <2>1. CASE p = Watcher /\ ~open
    <3>1. open' = TRUE /\ view' = db /\ wrote' = FALSE /\ fresh' = [fresh EXCEPT ![p] = TRUE]
      BY <1>3, <2>1 DEF Snapshot
    <3>2. wrote = FALSE
      BY <1>1, <2>1 DEF TxnOk, Types
    <3>3. Graph(p) = db
      BY <2>1 DEF Graph
    <3>4. db \in Graphs /\ Sound(db) /\ fresh' \in [Procs -> BOOLEAN]
      BY <1>1, <3>1 DEF Types, IInv
    <3> QED
      BY <3>1, <3>2, <3>3, <3>4
  <2>2. CASE ~(p = Watcher /\ ~open)
    <3>1. UNCHANGED <<open, view, wrote, fresh>>
      BY <1>3, <2>2 DEF Snapshot, txn
    <3>2. p = Watcher => open /\ Graph(p) = view
      BY <2>2 DEF Graph
    <3> QED
      BY <1>1, <3>1, <3>2 DEF Types, IInv, TxnOk
  <2> QED
    BY <2>1, <2>2
<1>5. wrote' \in BOOLEAN
  BY <1>1, <1>4 DEF Types
<1>6. CASE Graph(p).hash[File(p)] = job[p].hash
  <2> DEFINE j == NextFile(job[p])
  <2>1. job' = [job EXCEPT ![p] = j] /\ pc' = [pc EXCEPT ![p] = "next"]
    BY <1>6 DEF CheckAndRead, Goto
  <2>2. j \in Jobs /\ j.todo = job[p].todo /\ j.calls = job[p].calls /\ j.file = {}
    BY <1>1, NextFileIs
  <2> HIDE DEF j
  <2>3. /\ pc' \in [Procs -> Places] /\ job' \in [Procs -> Jobs]
        /\ pc'[p] = "next" /\ job'[p] = j
        /\ \A q \in Procs \ {p} : pc'[q] = pc[q] /\ job'[q] = job[q]
    BY <1>1, <2>1, <2>2, Moves DEF Places
  <2>4. Types'
    BY <1>1, <1>3, <1>4, <1>5, <2>3 DEF Types
  <2>5. Carries(p)'
    BY <1>1, <2>2, <2>3 DEF Carries
  <2>6. WatcherOk'
    <3>1. CASE p = Watcher
      BY <1>1, <1>4, <2>2, <2>3, <3>1 DEF WatcherOk
    <3>2. CASE p # Watcher
      <4>1. pc'[Watcher] = pc[Watcher] /\ job'[Watcher] = job[Watcher]
        BY <1>1, <2>3, <3>2
      <4>2. UNCHANGED <<open, view>>
        BY <1>3, <3>2 DEF Snapshot, txn
      <4> QED
        BY <1>1, <1>4, <4>1, <4>2 DEF WatcherOk
    <3> QED
      BY <3>1, <3>2
  <2>7. wrote => /\ job'[Watcher].todo \cup job'[Watcher].file
                      \subseteq job[Watcher].todo \cup job[Watcher].file
    BY <1>1, <2>2, <2>3
  <2> QED
    BY <1>1, <1>3, <1>4, <2>2, <2>3, <2>4, <2>5, <2>6, <2>7, Quiet
<1>7. CASE Graph(p).hash[File(p)] # job[p].hash
  <2> DEFINE j == [job[p] EXCEPT !.text = {disk[File(p)]}]
  <2>1. job' = [job EXCEPT ![p] = j] /\ pc' = [pc EXCEPT ![p] = "node"]
    BY <1>7 DEF CheckAndRead, Goto
  <2>2. disk[File(p)] \in Contents /\ disk[File(p)] \in Texts[File(p)]
    BY <1>1, <1>2 DEF Types
  <2>3. /\ j \in Jobs /\ j.todo = job[p].todo /\ j.calls = job[p].calls /\ j.file = job[p].file
        /\ j.hash = job[p].hash /\ j.text = {disk[File(p)]}
    BY <1>1, <2>2 DEF Jobs
  <2> HIDE DEF j
  <2>4. /\ pc' \in [Procs -> Places] /\ job' \in [Procs -> Jobs]
        /\ pc'[p] = "node" /\ job'[p] = j
        /\ \A q \in Procs \ {p} : pc'[q] = pc[q] /\ job'[q] = job[q]
    BY <1>1, <2>1, <2>3, Moves DEF Places
  <2>5. Types'
    BY <1>1, <1>3, <1>4, <1>5, <2>4 DEF Types
  <2>6. Carries(p)'
    <3>1. IsFiniteSet(job'[p].calls)
      BY <1>1, <2>3, <2>4 DEF Carries
    <3>2. /\ job'[p].file = {File(p)} /\ File(p) \notin job'[p].todo
          /\ job'[p].hash = {Hash(p)} /\ job'[p].text = {disk[File(p)]}
      BY <1>2, <2>3, <2>4
    <3> QED
      BY <1>2, <2>2, <2>4, <3>1, <3>2 DEF Carries
  <2>7. WatcherOk'
    <3>1. CASE p = Watcher
      <4>1. job'[Watcher].file = {File(p)} /\ view'.hash[File(p)] # job'[Watcher].hash /\ open'
        BY <1>2, <1>4, <1>7, <2>3, <2>4, <3>1
      <4>2. pc'[Watcher] = "node" /\ job'[Watcher].calls = job[Watcher].calls
        BY <2>3, <2>4, <3>1
      <4> QED
        BY <1>1, <1>4, <4>1, <4>2 DEF WatcherOk
    <3>2. CASE p # Watcher
      <4>1. pc'[Watcher] = pc[Watcher] /\ job'[Watcher] = job[Watcher]
        BY <1>1, <2>4, <3>2
      <4>2. UNCHANGED <<open, view>>
        BY <1>3, <3>2 DEF Snapshot, txn
      <4> QED
        BY <1>1, <1>4, <4>1, <4>2 DEF WatcherOk
    <3> QED
      BY <3>1, <3>2
  <2>8. wrote => /\ job'[Watcher].todo \cup job'[Watcher].file
                      \subseteq job[Watcher].todo \cup job[Watcher].file
    BY <1>1, <2>3, <2>4
  <2> QED
    BY <1>1, <1>3, <1>4, <2>3, <2>4, <2>5, <2>6, <2>7, <2>8, Quiet
<1> QED
  BY <1>6, <1>7

-----------------------------------------------------------------------------
(* The scan of a listed file commits: what is said of the watcher stays.   *)
LEMMA Commits ==
  ASSUME IInv, NEW p \in Scanners, NEW g \in Graphs, Commit(g),
         Sound(g), NEW j \in Jobs, NEW l \in Places,
         job' = [job EXCEPT ![p] = j], pc' = [pc EXCEPT ![p] = l],
         lost' \subseteq Files, torn' \subseteq Files, unbound' \subseteq Files,
         UNCHANGED world, Carries(p)', \A q \in Scanners : ScannerOk(q)',
         \A x \in Files : /\ Truthful(x)' /\ Bound(x)'
                          /\ \A q \in Procs : Rewrites(q, x)' /\ Resolves(q, x)'
  PROVE  IInv'
<1>1. /\ Types /\ Watcher \in Procs /\ p \in Procs /\ p # Watcher /\ WatcherOk
  BY CodeGraphAssumption DEF IInv, Procs
<1>2. /\ ~wrote /\ db' = g /\ fresh' = [q \in Procs |-> FALSE]
      /\ UNCHANGED <<open, view, wrote, disk, list, edited, events>>
  BY DEF Commit, txn, world
<1>3. /\ pc' \in [Procs -> Places] /\ job' \in [Procs -> Jobs]
      /\ \A q \in Procs \ {p} : pc'[q] = pc[q] /\ job'[q] = job[q]
  BY <1>1, Moves
<1>4. Types'
  <2>1. fresh' \in [Procs -> BOOLEAN]
    BY <1>2
  <2> QED
    BY <1>1, <1>2, <1>3, <2>1 DEF Types
<1>5. TxnOk'
  <2>1. ~wrote' /\ ~fresh'[Watcher]
    BY <1>1, <1>2
  <2> QED
    BY <2>1 DEF TxnOk
<1>6. WatcherOk'
  <2>1. pc'[Watcher] = pc[Watcher] /\ job'[Watcher] = job[Watcher]
    BY <1>1, <1>3
  <2> QED
    BY <1>1, <1>2, <2>1 DEF WatcherOk
<1>7. ASSUME NEW q \in Procs PROVE Carries(q)'
  <2>1. Carries(q)
    BY DEF IInv
  <2>2. CASE q # p
    <3>1. pc'[q] = pc[q] /\ job'[q] = job[q]
      BY <1>3, <2>2
    <3> QED
      BY <2>1, <3>1 DEF Carries
  <2> QED
    BY <2>2
<1>8. Sound(db') /\ Sound(view')
  BY <1>2 DEF IInv
<1> QED
  BY <1>4, <1>5, <1>6, <1>7, <1>8 DEF IInv

LEMMA MarksTyped ==
  ASSUME Types, NEW p, NEW f \in Files, MarkStore(p, f)
  PROVE  /\ lost' \subseteq Files /\ torn' \subseteq Files /\ unbound' \subseteq Files
         /\ \A x \in Files \ {f} : (x \in torn' <=> x \in torn) /\ (x \in unbound' <=> x \in unbound)
         /\ f \notin torn' => job[p].text = job[p].hash /\ ~Overlaps(p, f)
BY DEF MarkStore, Types

LEMMA StoreNodeInv ==
  ASSUME IInv, NEW p \in Scanners, StoreNode(p)
  PROVE  IInv'
<1>1. /\ Types /\ Sound(db) /\ db \in Graphs /\ Carries(p) /\ ScannerOk(p)
      /\ Watcher \in Procs /\ p \in Procs /\ p # Watcher
      /\ pc[p] = "node" /\ job[p] \in Jobs
  BY CodeGraphAssumption, JobFields DEF IInv, Procs, StoreNode, Types
<1>0. PICK f \in Files, t \in Contents : f = File(p) /\ t = Hash(p)
  BY <1>1, FileIs DEF Contents
<1>2. /\ f \in Files /\ job[p].file = {f} /\ f \notin job[p].todo
      /\ t \in Texts[f] /\ job[p].hash = {t} /\ job[p].text = {Text(p)} /\ Text(p) \in Texts[f]
  BY <1>0, <1>1, FileIs
<1> DEFINE g == WithNode(db, f, t)
<1>3. Commit(g) /\ MarkStore(p, f) /\ job' = job /\ pc' = [pc EXCEPT ![p] = "clear"] /\ UNCHANGED world
  BY <1>0 DEF StoreNode, Goto
<1> HIDE DEF g
<1>4. /\ ~wrote /\ db' = g /\ UNCHANGED <<open, view, wrote>>
  BY <1>3 DEF Commit, txn
<1>5. /\ g \in Graphs /\ Sound(g) /\ g.syms = db.syms /\ g.edges = db.edges
      /\ g.hash[f] = {t} /\ \A x \in Files \ {f} : g.hash[x] = db.hash[x]
      /\ Ids(g) = Ids(db) /\ \A x \in Files : SymsOf(g, x) = SymsOf(db, x)
  BY <1>1, <1>2, NodeIs DEF g
<1>6. /\ pc'[p] = "clear" /\ \A q \in Procs \ {p} : pc'[q] = pc[q]
  BY <1>1, <1>3 DEF Types
<1>7. /\ lost' \subseteq Files /\ torn' \subseteq Files /\ unbound' \subseteq Files
      /\ \A x \in Files \ {f} : (x \in torn' <=> x \in torn) /\ (x \in unbound' <=> x \in unbound)
      /\ f \notin torn' => job[p].text = job[p].hash /\ ~Overlaps(p, f)
  BY <1>1, <1>2, <1>3, MarksTyped
<1>8. Carries(p)'
  <2>1. IsFiniteSet(job'[p].calls)
    BY <1>1, <1>3 DEF Carries
  <2> QED
    BY <1>2, <1>3, <1>6, <2>1 DEF Carries
<1>9. ASSUME NEW q \in Scanners PROVE ScannerOk(q)'
  <2>1. ScannerOk(q) /\ q \in Procs
    BY DEF IInv, Procs
  <2>2. \A c \in job'[q].calls : \A s \in db'.syms : s.id = c[1] => job'[q].file = {s.file}
    BY <1>3, <1>4, <1>5, <2>1 DEF ScannerOk
  <2>3. pc'[q] = "resolve" => job'[q].calls # {}
    BY <1>3, <1>6, <2>1 DEF ScannerOk
  <2>4. pc'[q] \notin {"symbols", "resolve"} => job'[q].calls = {}
    BY <1>1, <1>3, <1>6, <2>1 DEF ScannerOk
  <2> QED
    BY <2>2, <2>3, <2>4 DEF ScannerOk
<1>10. ASSUME NEW x \in Files \ {f}
       PROVE  /\ Truthful(x)' /\ Bound(x)'
              /\ \A q \in Procs : Rewrites(q, x)' /\ Resolves(q, x)'
  <2>1. \A q \in Procs : (pc'[q] = pc[q] /\ job'[q] = job[q]) \/ (~Busy(q, x) /\ ~Busy(q, x)')
    <3>1. ~Busy(p, x) /\ ~Busy(p, x)'
      BY <1>2, <1>3, <1>10 DEF Busy
    <3> QED
      BY <1>3, <1>6, <3>1
  <2>2. Touched(x)' <=> Touched(x)
    BY <1>4 DEF Touched
  <2> QED
    BY <1>3, <1>4, <1>5, <1>7, <1>10, <2>1, <2>2, FileKept
<1>11. Clearing(f)' /\ Rewriting(p, f)'
  BY <1>1, <1>2, <1>3, <1>6 DEF Clearing, Rewriting
<1>12. Truthful(f)' /\ Bound(f)' /\ \A q \in Procs : Resolves(q, f)'
  BY <1>1, <1>11 DEF Truthful, Bound, Resolves, Steady, Settled
<1>13. ASSUME NEW q \in Procs PROVE Rewrites(q, f)'
  <2> SUFFICES ASSUME f \notin torn', Rewriting(q, f)' PROVE Rewrites(q, f)'
    BY DEF Rewrites
  <2>1. job[p].text = job[p].hash /\ \A r \in Procs \ {p} : ~Rewriting(r, f)
    BY <1>7 DEF Overlaps
  <2>2. \A r \in Procs \ {p} : ~Rewriting(r, f)'
    BY <1>3, <1>6, <2>1 DEF Rewriting
  <2>3. q = p
    BY <2>2
  <2>4. job'[p].text = job'[p].hash /\ db'.hash[f] = job'[p].hash /\ pc'[p] # "symbols"
    BY <1>2, <1>3, <1>4, <1>5, <1>6, <2>1
  <2> QED
    BY <2>2, <2>3, <2>4 DEF Rewrites
<1>14. job' = [job EXCEPT ![p] = job[p]]
  BY <1>1, <1>3 DEF Types
<1> QED
  BY <1>1, <1>3, <1>5, <1>7, <1>8, <1>9, <1>10, <1>12, <1>13, <1>14, Commits DEF Places

\* The symbols of the old text go.  Whatever scan still carries their ids has
\* no call left that can be linked.
LEMMA ClearSymbolsInv ==
  ASSUME IInv, NEW p \in Scanners, ClearSymbols(p)
  PROVE  IInv'
<1>1. /\ Types /\ Sound(db) /\ db \in Graphs /\ Carries(p) /\ ScannerOk(p)
      /\ Watcher \in Procs /\ p \in Procs /\ p # Watcher
      /\ pc[p] = "clear" /\ job[p] \in Jobs
  BY CodeGraphAssumption, JobFields DEF IInv, Procs, ClearSymbols, Types
<1>0. PICK f \in Files, t \in Contents : f = File(p) /\ t = Text(p)
  BY <1>1, FileIs DEF Contents
<1>2. /\ job[p].file = {f} /\ f \notin job[p].todo /\ t \in Texts[f] /\ job[p].text = {t}
      /\ \E u \in Texts[f] : job[p].hash = {u}
  BY <1>0, <1>1, FileIs
<1> DEFINE g == WithoutSymbols(db, f)
           j == [job[p] EXCEPT !.names = DOMAIN t]
<1>3. /\ Commit(g) /\ job' = [job EXCEPT ![p] = j] /\ pc' = [pc EXCEPT ![p] = "symbols"]
      /\ UNCHANGED <<world, lost, torn, unbound>>
  BY <1>0 DEF ClearSymbols, Goto, marks
<1>4. /\ ~wrote /\ db' = g /\ UNCHANGED <<open, view, wrote>>
  BY <1>3 DEF Commit, txn
<1>5. /\ g \in Graphs /\ Sound(g) /\ g.hash = db.hash /\ g.syms \subseteq db.syms
      /\ SymsOf(g, f) = {} /\ \A x \in Files \ {f} : SymsOf(g, x) = SymsOf(db, x)
      /\ Ids(g) \subseteq Ids(db) /\ \A s \in SymsOf(db, f) : s.id \notin Ids(g)
      /\ \A i \in Ids(db) : i \in Ids(g) \/ \E s \in SymsOf(db, f) : s.id = i
      /\ g.edges \subseteq db.edges
      /\ \A e \in db.edges : e[1] \in Ids(g) /\ e[2] \in Ids(g) => e \in g.edges
  BY <1>1, WithoutIs
<1>6. /\ j \in Jobs /\ j.file = {f} /\ j.todo = job[p].todo /\ j.text = {t} /\ j.hash = job[p].hash
      /\ j.names = DOMAIN t /\ j.calls = job[p].calls
  <2>1. t \in Contents
    BY <1>2 DEF Contents
  <2>2. DOMAIN t \subseteq Names
    BY <2>1 DEF Names
  <2> QED
    BY <1>1, <1>2, <2>2 DEF Jobs
<1>7. job[p].calls = {}
  BY <1>1 DEF ScannerOk
<1> HIDE DEF g, j
<1>8. /\ pc'[p] = "symbols" /\ job'[p] = j
      /\ \A q \in Procs \ {p} : pc'[q] = pc[q] /\ job'[q] = job[q]
  BY <1>1, <1>3, <1>6, Moves DEF Places
<1>9. lost' \subseteq Files /\ torn' \subseteq Files /\ unbound' \subseteq Files
  BY <1>1, <1>3 DEF Types
<1>10. Carries(p)'
  BY <1>1, <1>2, <1>6, <1>8 DEF Carries
<1>11. \A q \in Procs : job'[q].calls = job[q].calls /\ job'[q].file = job[q].file
  BY <1>2, <1>6, <1>8
<1>12. ASSUME NEW q \in Scanners PROVE ScannerOk(q)'
  <2>1. ScannerOk(q) /\ q \in Procs
    BY DEF IInv, Procs
  <2>2. \A c \in job'[q].calls : \A s \in db'.syms : s.id = c[1] => job'[q].file = {s.file}
    BY <1>4, <1>5, <1>11, <2>1 DEF ScannerOk
  <2>3. CASE q = p
    BY <1>6, <1>7, <1>8, <2>2, <2>3 DEF ScannerOk
  <2>4. CASE q # p
    <3>1. pc'[q] = pc[q] /\ job'[q] = job[q]
      BY <1>8, <2>1, <2>4
    <3> QED
      BY <2>1, <2>2, <3>1 DEF ScannerOk
  <2> QED
    BY <2>3, <2>4
<1>13. ASSUME NEW x \in Files \ {f}
       PROVE  /\ Truthful(x)' /\ Bound(x)'
              /\ \A q \in Procs : Rewrites(q, x)' /\ Resolves(q, x)'
  <2>1. \A q \in Procs : (pc'[q] = pc[q] /\ job'[q] = job[q]) \/ (~Busy(q, x) /\ ~Busy(q, x)')
    <3>1. ~Busy(p, x) /\ ~Busy(p, x)'
      BY <1>2, <1>6, <1>8, <1>13 DEF Busy
    <3> QED
      BY <1>8, <3>1
  <2>2. Touched(x)' <=> Touched(x)
    BY <1>4 DEF Touched
  <2>3. \A s, d \in SymsOf(db, x) : <<s.id, d.id>> \in db.edges => <<s.id, d.id>> \in db'.edges
    <3>1. \A s \in SymsOf(db, x) : s.id \in Ids(g)
      <4>1. \A s \in SymsOf(g, x) : s.id \in Ids(g)
        BY DEF SymsOf, Ids
      <4> QED
        BY <1>5, <1>13, <4>1
    <3> QED
      BY <1>4, <1>5, <3>1
  <2>4. \A s \in SymsOf(db, x), d \in db'.syms : <<s.id, d.id>> \in db'.edges =>
          d \in db.syms /\ <<s.id, d.id>> \in db.edges
    BY <1>4, <1>5
  <2>5. \A q \in Scanners : \A c \in job'[q].calls : \A s \in SymsOf(db, x) :
          s.id = c[1] => c \in job[q].calls
    BY <1>11 DEF Procs
  <2>6. \A q \in Scanners : \A c \in job[q].calls : c[1] \notin Ids(db) => c[1] \notin Ids(db')
    BY <1>4, <1>5
  <2> QED
    BY <1>3, <1>4, <1>5, <1>13, <2>1, <2>2, <2>3, <2>4, <2>5, <2>6, FileKept
<1>14. Rewriting(p, f)' /\ SymsOf(db', f) = {} /\ db'.hash[f] = db.hash[f]
  BY <1>1, <1>4, <1>5, <1>6, <1>8 DEF Rewriting
<1>15. Truthful(f)' /\ Bound(f)'
  BY <1>1, <1>14 DEF Truthful, Bound, Settled
<1>16. ASSUME NEW q \in Procs PROVE Rewrites(q, f)'
  <2> SUFFICES ASSUME f \notin torn', Rewriting(q, f)' PROVE Rewrites(q, f)'
    BY DEF Rewrites
  <2>1. Rewriting(p, f) /\ f \notin torn
    BY <1>1, <1>2, <1>3 DEF Rewriting
  <2>2. /\ job[p].text = job[p].hash /\ db.hash[f] = job[p].hash
        /\ \A r \in Procs \ {p} : ~Rewriting(r, f)
    BY <1>1, <2>1 DEF IInv, Rewrites
  <2>3. \A r \in Procs \ {p} : ~Rewriting(r, f)'
    BY <1>8, <2>2 DEF Rewriting
  <2>4. q = p
    BY <2>3
  <2>5. job'[p].text = job'[p].hash /\ db'.hash[f] = job'[p].hash
    BY <1>2, <1>6, <1>8, <1>14, <2>2
  <2>6. \A u \in job'[p].text : /\ Named(db', f) = DOMAIN u \ job'[p].names
                                /\ \A s \in SymsOf(db', f) : \A m \in u[s.name] :
                                     <<s.id, m>> \in job'[p].calls
    BY <1>6, <1>8, <1>14 DEF Named
  <2> QED
    BY <2>3, <2>4, <2>5, <2>6 DEF Rewrites
<1>17. ASSUME NEW q \in Procs PROVE Resolves(q, f)'
  <2> SUFFICES ASSUME pc'[q] = "resolve", job'[q].file = {f}
               PROVE  \A c \in job'[q].calls : c[1] \notin Ids(db')
    BY DEF Resolves
  <2>1. q # p /\ pc[q] = "resolve" /\ job[q].file = {f} /\ job'[q].calls = job[q].calls
    BY <1>8, <1>11
  <2>2. q \in Scanners
    BY <2>1 DEF IInv, WatcherOk, Procs
  <2>3. ScannerOk(q)
    BY <2>2 DEF IInv
  <2> SUFFICES ASSUME NEW c \in job[q].calls, c[1] \in Ids(g) PROVE FALSE
    BY <1>4, <2>1
  <2>4. PICK s \in g.syms : s.id = c[1]
    BY DEF Ids
  <2>5. s \in db.syms /\ s.file = f
    BY <1>5, <2>1, <2>3, <2>4 DEF ScannerOk
  <2>6. s \in SymsOf(g, f)
    BY <2>4, <2>5 DEF SymsOf
  <2> QED
    BY <1>5, <2>6
<1> QED
  BY <1>3, <1>5, <1>6, <1>9, <1>10, <1>12, <1>13, <1>15, <1>16, <1>17, Commits DEF Places

\* The calls of the symbols that are stored, in hand.
LEMMA CallsAre ==
  ASSUME NEW f \in Files, NEW t \in Texts[f], NEW ids, DOMAIN ids \subseteq DOMAIN t,
         \A n \in DOMAIN ids : ids[n] \in Nat
  PROVE  /\ CallsFrom(t, ids) \subseteq Nat \X Called /\ IsFiniteSet(CallsFrom(t, ids))
         /\ \A c \in CallsFrom(t, ids) : \E n \in DOMAIN ids : c[1] = ids[n] /\ c[2] \in t[n]
         /\ \A n \in DOMAIN ids : \A m \in t[n] : <<ids[n], m>> \in CallsFrom(t, ids)
<1> DEFINE row(n) == {ids[n]} \X t[n]
           rows == {row(n) : n \in DOMAIN ids}
           h == [n \in DOMAIN ids |-> row(n)]
<1>1. CallsFrom(t, ids) = UNION rows
  BY DEF CallsFrom
<1>2. t \in Contents
  BY DEF Contents
<1>3. \A n \in DOMAIN ids : t[n] \subseteq Called
  BY <1>2 DEF Called
<1>4. \A n \in DOMAIN ids : row(n) \subseteq Nat \X Called
  BY <1>3
<1>5. \A n \in DOMAIN ids : IsFiniteSet(row(n))
  <2> SUFFICES ASSUME NEW n \in DOMAIN ids PROVE IsFiniteSet(row(n))
    OBVIOUS
  <2>1. IsFiniteSet(t[n])
    BY CodeGraphAssumption
  <2>2. IsFiniteSet({ids[n]})
    BY FS_Singleton
  <2> QED
    BY <2>1, <2>2, FS_Product
<1>6. IsFiniteSet(DOMAIN ids)
  <2>1. IsFiniteSet(DOMAIN t)
    BY CodeGraphAssumption
  <2> QED
    BY <2>1, FS_Subset
<1>7. h \in [DOMAIN ids -> rows] /\ \A r \in rows : \E n \in DOMAIN ids : h[n] = r
  <2> HIDE DEF row
  <2> QED
    OBVIOUS
<1>8. IsFiniteSet(rows)
  <2> HIDE DEF h, rows
  <2>1. h \in Surjection(DOMAIN ids, rows)
    BY <1>7, Fun_IsSurj
  <2> QED
    BY <1>6, <2>1, FS_Surjection
<1>9. IsFiniteSet(UNION rows)
  <2>1. \A r \in rows : IsFiniteSet(r)
    BY <1>5
  <2> HIDE DEF rows
  <2> QED
    BY <1>8, <2>1, FS_UNION
<1>10. UNION rows \subseteq Nat \X Called
  BY <1>4
<1>11. \A c \in UNION rows : \E n \in DOMAIN ids : c[1] = ids[n] /\ c[2] \in t[n]
  OBVIOUS
<1>12. \A n \in DOMAIN ids : \A m \in t[n] : <<ids[n], m>> \in UNION rows
  OBVIOUS
<1> HIDE DEF rows
<1> QED
  BY <1>1, <1>9, <1>10, <1>11, <1>12

\* One symbol of the new text is stored, under its old id or a new one.
LEMMA StoreSymbolInv ==
  ASSUME IInv, NEW p \in Scanners, StoreSymbol(p)
  PROVE  IInv'
<1>1. /\ Types /\ Sound(db) /\ db \in Graphs /\ Carries(p) /\ ScannerOk(p)
      /\ Watcher \in Procs /\ p \in Procs /\ p # Watcher
      /\ pc[p] = "symbols" /\ job[p] \in Jobs /\ job[p].calls \subseteq Nat \X Called
  BY CodeGraphAssumption, JobFields DEF IInv, Procs, StoreSymbol, Types
<1>0. PICK f \in Files, t \in Contents : f = File(p) /\ t = Text(p)
  BY <1>1, FileIs DEF Contents
<1>2. /\ job[p].file = {f} /\ f \notin job[p].todo /\ t \in Texts[f] /\ job[p].text = {t}
      /\ \E u \in Texts[f] : job[p].hash = {u}
  BY <1>0, <1>1, FileIs
<1>3. PICK n \in job[p].names : LET ids == SymbolIds(db, f, {n}) IN
        /\ Commit(WithSymbols(db, f, ids))
        /\ job' = [job EXCEPT ![p].names = @ \ {n}, ![p].calls = @ \cup CallsFrom(t, ids)]
  BY <1>0 DEF StoreSymbol
<1> DEFINE ids == SymbolIds(db, f, {n})
           g == WithSymbols(db, f, ids)
           new == CallsFrom(t, ids)
           j == [job[p] EXCEPT !.names = job[p].names \ {n}, !.calls = job[p].calls \cup new]
<1>4. /\ ~wrote /\ db' = g /\ UNCHANGED <<open, view, wrote, pc, lost, torn, unbound>>
      /\ UNCHANGED world /\ Commit(g)
  BY <1>3 DEF Commit, txn, StoreSymbol, marks
<1>5. n \in DOMAIN t /\ job[p].names \subseteq DOMAIN t
  BY <1>1, <1>2, <1>3 DEF Carries
<1>6. /\ g \in Graphs /\ Sound(g) /\ g.hash = db.hash /\ g.edges = db.edges
      /\ DOMAIN ids = {n} /\ db.syms \subseteq g.syms /\ Ids(db) \subseteq Ids(g)
      /\ \A x \in Files \ {f} : SymsOf(g, x) = SymsOf(db, x)
      /\ Named(g, f) = Named(db, f) \cup {n}
      /\ \A s \in g.syms : s \in db.syms \/ (s.file = f /\ Unused(db, s.id) /\ s.name = n)
      /\ \A s \in SymsOf(g, f) : s.name = n => s.id = ids[n]
      /\ ids[n] \in Nat /\ \E s \in SymsOf(g, f) : s.name = n /\ s.id = ids[n]
  <2> DEFINE one == {n}
  <2>1. IsFiniteSet(one) /\ one \subseteq DOMAIN t /\ \A q \in Procs : Carries(q)
    BY <1>5, FS_Singleton DEF IInv
  <2>2. Sound(db) /\ db \in Graphs /\ Types /\ t \in Texts[f] /\ ids = SymbolIds(db, f, one)
    BY <1>1, <1>2
  <2>3. g = WithSymbols(db, f, ids) /\ n \in one /\ one = {n}
    OBVIOUS
  <2> HIDE DEF ids, g, new, j, one
  <2>4. Stores(db, f, one, ids, g)
    BY <2>1, <2>2, <2>3, SymbolsAre
  <2> QED
    BY <2>3, <2>4 DEF Stores
<1>7. /\ new \subseteq Nat \X Called /\ IsFiniteSet(new)
      /\ \A c \in new : c[1] = ids[n] /\ c[2] \in t[n]
      /\ \A m \in t[n] : <<ids[n], m>> \in new
  <2>1. /\ new \subseteq Nat \X Called /\ IsFiniteSet(new)
        /\ \A c \in new : \E x \in DOMAIN ids : c[1] = ids[x] /\ c[2] \in t[x]
        /\ \A x \in DOMAIN ids : \A m \in t[x] : <<ids[x], m>> \in new
    <3> HIDE DEF ids, g, j
    <3> QED
      BY <1>2, <1>5, <1>6, CallsAre
  <2> HIDE DEF ids, new, g, j
  <2> QED
    BY <1>6, <2>1
<1> HIDE DEF ids, g, new
<1>8. /\ j \in Jobs /\ j.file = {f} /\ j.todo = job[p].todo /\ j.text = {t} /\ j.hash = job[p].hash
      /\ j.names = job[p].names \ {n} /\ j.calls = job[p].calls \cup new
  BY <1>1, <1>2, <1>7 DEF Jobs
<1>9. job' = [job EXCEPT ![p] = j] /\ pc' = [pc EXCEPT ![p] = "symbols"]
  BY <1>1, <1>3, <1>4 DEF new, ids, j, Types
<1> HIDE DEF j
<1>10. /\ pc'[p] = "symbols" /\ job'[p] = j
       /\ \A q \in Procs \ {p} : pc'[q] = pc[q] /\ job'[q] = job[q]
  BY <1>1, <1>8, <1>9, Moves DEF Places
<1>11. lost' \subseteq Files /\ torn' \subseteq Files /\ unbound' \subseteq Files
  BY <1>1, <1>4 DEF Types
<1>12. Carries(p)'
  <2>1. IsFiniteSet(job[p].calls)
    BY <1>1 DEF Carries
  <2>2. IsFiniteSet(job[p].calls \cup new)
    <3>1. IsFiniteSet(new)
      BY <1>7
    <3> HIDE DEF new
    <3> QED
      BY <2>1, <3>1, FS_Union
  <2>3. \A u \in j.text : j.names \subseteq DOMAIN u
    BY <1>5, <1>8
  <2>4. /\ pc'[p] = "symbols" /\ job'[p] = j /\ j.file = {f} /\ f \notin j.todo
        /\ (\E u \in Texts[f] : j.hash = {u}) /\ j.text = {t}
        /\ j.calls = job[p].calls \cup new
    BY <1>2, <1>8, <1>10
  <2>5. IsFiniteSet(j.calls)
    BY <2>2, <2>4
  <2> HIDE DEF new
  <2> QED
    BY <1>2, <2>3, <2>4, <2>5 DEF Carries
\* a symbol of the database is of f where a new call has its id
<1>13. \A s \in g.syms : s.id = ids[n] => s.file = f /\ s.name = n
  <2>1. PICK u \in SymsOf(g, f) : u.name = n /\ u.id = ids[n]
    BY <1>6
  <2>2. u \in g.syms /\ u.file = f
    BY DEF SymsOf
  <2> QED
    BY <1>6, <2>1, <2>2 DEF Sound, Keyed
<1>14. ASSUME NEW q \in Procs, NEW c \in job[q].calls, NEW s \in g.syms, s.id = c[1]
       PROVE  s \in db.syms
  BY <1>6, <1>14 DEF Unused
<1>15. ASSUME NEW q \in Scanners PROVE ScannerOk(q)'
  <2>1. ScannerOk(q) /\ q \in Procs
    BY DEF IInv, Procs
  <2>2. CASE q = p
    <3>1. ASSUME NEW c \in j.calls, NEW s \in g.syms, s.id = c[1] PROVE {f} = {s.file}
      <4>1. CASE c \in new
        BY <1>7, <1>13, <3>1, <4>1
      <4>2. CASE c \in job[p].calls
        <5>1. s \in db.syms
          BY <1>1, <1>14, <3>1, <4>2
        <5> QED
          BY <1>1, <1>2, <3>1, <4>2, <5>1 DEF ScannerOk
      <4> QED
        BY <1>8, <4>1, <4>2
    <3> QED
      BY <1>4, <1>8, <1>10, <2>2, <3>1 DEF ScannerOk
  <2>3. CASE q # p
    <3>1. pc'[q] = pc[q] /\ job'[q] = job[q]
      BY <1>10, <2>1, <2>3
    <3>2. \A c \in job[q].calls : \A s \in db'.syms : s.id = c[1] => job[q].file = {s.file}
      BY <1>4, <1>14, <2>1 DEF ScannerOk
    <3> QED
      BY <2>1, <3>1, <3>2 DEF ScannerOk
  <2> QED
    BY <2>2, <2>3
\* edges join old symbols
<1>16. ASSUME NEW e \in db.edges, NEW s \in g.syms, s.id = e[1] \/ s.id = e[2] PROVE s \in db.syms
  <2>1. e[1] \in Ids(db) /\ e[2] \in Ids(db)
    BY <1>1 DEF Sound, Linked
  <2> QED
    BY <1>6, <1>16, <2>1 DEF Unused
<1>17. \A q \in Scanners : \A c \in job[q].calls : c[1] \notin Ids(db) => c[1] \notin Ids(db')
  <2> SUFFICES ASSUME NEW q \in Scanners, NEW c \in job[q].calls, c[1] \in Ids(g) PROVE c[1] \in Ids(db)
    BY <1>4
  <2>1. PICK s \in g.syms : s.id = c[1]
    BY DEF Ids
  <2>2. s \in db.syms
    BY <1>14, <2>1 DEF Procs
  <2> QED
    BY <2>1, <2>2 DEF Ids
<1>18. ASSUME NEW x \in Files \ {f}
       PROVE  /\ Truthful(x)' /\ Bound(x)'
              /\ \A q \in Procs : Rewrites(q, x)' /\ Resolves(q, x)'
  <2>1. \A q \in Procs : (pc'[q] = pc[q] /\ job'[q] = job[q]) \/ (~Busy(q, x) /\ ~Busy(q, x)')
    <3>1. ~Busy(p, x) /\ ~Busy(p, x)'
      BY <1>2, <1>8, <1>10, <1>18 DEF Busy
    <3> QED
      BY <1>10, <3>1
  <2>2. Touched(x)' <=> Touched(x)
    BY <1>4, <1>6 DEF Touched
  <2>3. \A s \in SymsOf(db, x) : s \in g.syms /\ s.file # f
    BY <1>6, <1>18 DEF SymsOf
  <2>4. \A s \in SymsOf(db, x), d \in db'.syms : <<s.id, d.id>> \in db'.edges =>
          d \in db.syms /\ <<s.id, d.id>> \in db.edges
    <3> SUFFICES ASSUME NEW s \in SymsOf(db, x), NEW d \in g.syms, <<s.id, d.id>> \in db.edges
                 PROVE  d \in db.syms
      BY <1>4, <1>6
    <3> DEFINE e == <<s.id, d.id>>
    <3>1. e \in db.edges /\ d.id = e[2]
      OBVIOUS
    <3> HIDE DEF e
    <3> QED
      BY <1>16, <3>1
  <2>5. \A q \in Scanners : \A c \in job'[q].calls : \A s \in SymsOf(db, x) :
          s.id = c[1] => c \in job[q].calls
    <3> SUFFICES ASSUME NEW q \in Scanners, NEW c \in job'[q].calls, NEW s \in SymsOf(db, x),
                        s.id = c[1]
                 PROVE  c \in job[q].calls
      OBVIOUS
    <3>1. c \notin new
      BY <1>7, <1>13, <2>3
    <3>2. q \in Procs
      BY DEF Procs
    <3> QED
      BY <1>8, <1>10, <3>1, <3>2
  <2> QED
    BY <1>4, <1>6, <1>17, <1>18, <2>1, <2>2, <2>4, <2>5, FileKept
<1>19. Rewriting(p, f)' /\ Rewriting(p, f)
  BY <1>1, <1>2, <1>8, <1>10 DEF Rewriting
<1>20. (Clearing(f)' <=> Clearing(f)) /\ (Touched(f)' <=> Touched(f)) /\ (Steady(f)' <=> Steady(f))
  <2>1. \A q \in Procs : (pc'[q] = "clear" /\ job'[q].file = {f})
                     <=> (pc[q] = "clear" /\ job[q].file = {f})
    BY <1>1, <1>10
  <2>2. Clearing(f)' <=> Clearing(f)
    BY <2>1 DEF Clearing
  <2>3. Touched(f)' <=> Touched(f)
    BY <1>4 DEF Touched
  <2> QED
    BY <1>4, <2>2, <2>3 DEF Steady
<1>21. ASSUME f \notin torn
       PROVE  /\ job[p].text = job[p].hash /\ db.hash[f] = {t}
              /\ \A r \in Procs \ {p} : ~Rewriting(r, f)
              /\ Named(db, f) = DOMAIN t \ job[p].names
              /\ \A s \in SymsOf(db, f) : \A m \in t[s.name] : <<s.id, m>> \in job[p].calls
  <2>1. Rewrites(p, f)
    BY <1>1 DEF IInv
  <2> QED
    BY <1>1, <1>2, <1>19, <1>21, <2>1 DEF Rewrites
<1>22. \A s \in SymsOf(g, f) : s \in g.syms /\ s.file = f
  BY DEF SymsOf
<1>23. Bound(f)'
  BY <1>1, <1>19 DEF Bound, Settled
<1>24. Truthful(f)'
  <2> SUFFICES ASSUME Steady(f)', NEW u \in db'.hash[f]
               PROVE  /\ \A q \in Scanners : \A c \in job'[q].calls : \A s \in SymsOf(db', f) :
                           s.id = c[1] => c[2] \in u[s.name]
                      /\ \A s \in SymsOf(db', f), d \in db'.syms :
                           <<s.id, d.id>> \in db'.edges => d.name \in u[s.name]
    BY <1>1, <1>19 DEF Truthful
  <2>1. f \notin torn /\ Steady(f)
    BY <1>20 DEF Steady
  <2>2. u = t /\ u \in db.hash[f]
    BY <1>4, <1>6, <1>21, <2>1
  <2>3. /\ \A q \in Scanners : \A c \in job[q].calls : \A s \in SymsOf(db, f) :
             s.id = c[1] => c[2] \in t[s.name]
        /\ \A s \in SymsOf(db, f), d \in db.syms : <<s.id, d.id>> \in db.edges => d.name \in t[s.name]
    BY <2>1, <2>2 DEF IInv, Truthful
  <2>4. \A s \in SymsOf(g, f) : s \in db.syms => s \in SymsOf(db, f)
    BY DEF SymsOf
  <2>5. ASSUME NEW q \in Scanners, NEW c \in job'[q].calls, NEW s \in SymsOf(g, f), s.id = c[1]
        PROVE  c[2] \in t[s.name]
    <3>0. q \in Procs
      BY DEF Procs
    <3>1. CASE c \in job[q].calls
      <4>1. s \in db.syms
        BY <1>14, <1>22, <2>5, <3>0, <3>1
      <4> QED
        BY <2>3, <2>4, <2>5, <3>1, <4>1
    <3>2. CASE c \notin job[q].calls
      <4>1. c \in new
        BY <1>8, <1>10, <3>0, <3>2
      <4>2. c[1] = ids[n] /\ c[2] \in t[n]
        BY <1>7, <4>1
      <4>3. s.name = n
        BY <1>13, <1>22, <2>5, <4>2
      <4> QED
        BY <4>2, <4>3
    <3> QED
      BY <3>1, <3>2
  <2>6. ASSUME NEW s \in SymsOf(g, f), NEW d \in g.syms, <<s.id, d.id>> \in db.edges
        PROVE  d.name \in t[s.name]
    <3> DEFINE e == <<s.id, d.id>>
    <3>1. e \in db.edges /\ s.id = e[1] /\ d.id = e[2]
      BY <2>6
    <3> HIDE DEF e
    <3>2. s \in db.syms /\ d \in db.syms
      BY <1>16, <1>22, <3>1
    <3> QED
      BY <2>3, <2>4, <2>6, <3>2
  <2> QED
    BY <1>4, <1>6, <2>2, <2>5, <2>6
<1>25. ASSUME NEW q \in Procs PROVE Rewrites(q, f)'
  <2> SUFFICES ASSUME f \notin torn, Rewriting(q, f)' PROVE Rewrites(q, f)'
    BY <1>4 DEF Rewrites
  <2>1. \A r \in Procs \ {p} : ~Rewriting(r, f)'
    BY <1>10, <1>21 DEF Rewriting
  <2>2. q = p
    BY <2>1
  <2>3. job'[p].text = job'[p].hash /\ db'.hash[f] = job'[p].hash
    BY <1>2, <1>4, <1>6, <1>8, <1>10, <1>21
  <2>4. Named(g, f) = DOMAIN t \ j.names
    <3>1. Named(db, f) = DOMAIN t \ job[p].names
      BY <1>21
    <3> QED
      BY <1>3, <1>5, <1>6, <1>8, <3>1
  <2>5. ASSUME NEW s \in SymsOf(g, f), NEW m \in t[s.name] PROVE <<s.id, m>> \in j.calls
    <3>1. CASE s.name = n
      <4>1. s.id = ids[n]
        BY <1>6, <3>1
      <4> QED
        BY <1>7, <1>8, <3>1, <4>1
    <3>2. CASE s.name # n
      <4>1. s \in db.syms
        BY <1>6, <1>22, <3>2
      <4>2. s \in SymsOf(db, f)
        BY <1>22, <4>1 DEF SymsOf
      <4> QED
        BY <1>8, <1>21, <4>2
    <3> QED
      BY <3>1, <3>2
  <2> QED
    BY <1>4, <1>8, <1>10, <2>1, <2>2, <2>3, <2>4, <2>5 DEF Rewrites
<1>26. ASSUME NEW q \in Procs PROVE Resolves(q, f)'
  <2> SUFFICES ASSUME pc'[q] = "resolve", job'[q].file = {f}
               PROVE  (\A c \in job'[q].calls : c[1] \notin Ids(db')) \/ ~Steady(f)'
    BY DEF Resolves
  <2>1. q # p /\ pc[q] = "resolve" /\ job[q] = job'[q]
    BY <1>10
  <2>2. q \in Scanners
    BY <2>1 DEF IInv, WatcherOk, Procs
  <2>3. (\A c \in job[q].calls : c[1] \notin Ids(db)) \/ ~Steady(f)
    BY <1>1, <1>19, <2>1 DEF IInv, Resolves
  <2> QED
    BY <1>17, <1>20, <2>1, <2>2, <2>3
<1> QED
  BY <1>4, <1>6, <1>8, <1>9, <1>11, <1>12, <1>15, <1>18, <1>23, <1>24, <1>25, <1>26, Commits DEF Places


\* A scan of a listed file goes on or ends, and stores nothing.
LEMMA ScansOn ==
  ASSUME IInv, NEW p \in Scanners, NEW f \in Files, job[p].file = {f},
         UNCHANGED <<disk, list, edited, events, db, open, view, wrote>>,
         fresh' \in [Procs -> BOOLEAN], fresh'[Watcher] = fresh[Watcher],
         NEW j \in Jobs, NEW l \in Places,
         job' = [job EXCEPT ![p] = j], pc' = [pc EXCEPT ![p] = l],
         lost' \subseteq Files, torn' \subseteq Files, unbound' \subseteq Files,
         torn \subseteq torn', torn' \subseteq torn \cup {f},
         unbound \subseteq unbound', unbound' \subseteq unbound \cup {f},
         l \notin {"clear", "symbols"}, j.file \subseteq {f}, j.calls \subseteq job[p].calls,
         Carries(p)', ScannerOk(p)',
         Truthful(f)', Bound(f)', \A q \in Procs : Resolves(q, f)'
  PROVE  IInv'
<1>1. /\ Types /\ Watcher \in Procs /\ p \in Procs /\ p # Watcher /\ WatcherOk
  BY CodeGraphAssumption DEF IInv, Procs
<1>2. /\ pc' \in [Procs -> Places] /\ job' \in [Procs -> Jobs] /\ pc'[p] = l /\ job'[p] = j
      /\ \A q \in Procs \ {p} : pc'[q] = pc[q] /\ job'[q] = job[q]
  BY <1>1, Moves
<1>3. Types'
  BY <1>1, <1>2 DEF Types
<1>4. pc'[Watcher] = pc[Watcher] /\ job'[Watcher] = job[Watcher]
  BY <1>1, <1>2
<1>5. \A q \in Procs, x \in Files : Rewriting(q, x)' => q # p /\ Rewriting(q, x)
  BY <1>2 DEF Rewriting
<1>6. \A q \in Procs : job'[q].calls \subseteq job[q].calls
  BY <1>2
<1>7. TxnOk'
  <2>1. \A q \in Scanners : job'[q].calls \subseteq job[q].calls
    BY <1>6 DEF Procs
  <2>2. (fresh'[Watcher] => open') /\ (fresh'[Watcher] /\ ~wrote => view' = db)
    BY DEF IInv, TxnOk
  <2> QED
    BY <1>4, <1>5, <2>1, <2>2, TxnKept
<1>8. WatcherOk'
  BY <1>1, <1>4 DEF WatcherOk
<1>9. ASSUME NEW q \in Procs PROVE Carries(q)'
  <2>1. Carries(q)
    BY DEF IInv
  <2>2. CASE q # p
    <3>1. pc'[q] = pc[q] /\ job'[q] = job[q]
      BY <1>2, <2>2
    <3> QED
      BY <2>1, <3>1 DEF Carries
  <2> QED
    BY <2>2
<1>10. ASSUME NEW q \in Scanners PROVE ScannerOk(q)'
  <2>1. ScannerOk(q)
    BY DEF IInv
  <2>2. CASE q # p
    <3>1. pc'[q] = pc[q] /\ job'[q] = job[q]
      BY <1>2, <2>2 DEF Procs
    <3> QED
      BY <2>1, <3>1 DEF ScannerOk
  <2> QED
    BY <2>2
<1>11. ASSUME NEW x \in Files, x # f
       PROVE  /\ Truthful(x)' /\ Bound(x)'
              /\ \A q \in Procs : Rewrites(q, x)' /\ Resolves(q, x)'
  <2>1. \A q \in Procs : (pc'[q] = pc[q] /\ job'[q] = job[q]) \/ (~Busy(q, x) /\ ~Busy(q, x)')
    <3>1. ~Busy(p, x) /\ ~Busy(p, x)'
      BY <1>2, <1>11 DEF Busy
    <3> QED
      BY <1>2, <3>1
  <2>2. Touched(x)' <=> Touched(x)
    BY DEF Touched
  <2>3. (x \in torn' <=> x \in torn) /\ (x \in unbound => x \in unbound')
    BY <1>11
  <2>4. \A q \in Scanners : \A c \in job'[q].calls : \A s \in SymsOf(db, x) :
          s.id = c[1] => c \in job[q].calls
    BY <1>6 DEF Procs
  <2>5. \A s \in SymsOf(db, x), d \in db'.syms : <<s.id, d.id>> \in db'.edges =>
          d \in db.syms /\ <<s.id, d.id>> \in db.edges
    OBVIOUS
  <2> QED
    BY <2>1, <2>2, <2>3, <2>4, <2>5, FileKept
<1>12. ASSUME NEW q \in Procs PROVE Rewrites(q, f)'
  <2> SUFFICES ASSUME f \notin torn', Rewriting(q, f)' PROVE Rewrites(q, f)'
    BY DEF Rewrites
  <2>1. q # p /\ Rewriting(q, f) /\ f \notin torn
    BY <1>5
  <2>2. pc'[q] = pc[q] /\ job'[q] = job[q]
    BY <1>2, <2>1
  <2>3. Rewrites(q, f)
    BY DEF IInv
  <2>4. \A r \in Procs \ {q} : ~Rewriting(r, f)'
    BY <1>5, <2>1, <2>3 DEF Rewrites
  <2> QED
    BY <2>1, <2>2, <2>3, <2>4 DEF Rewrites
<1>13. Sound(db') /\ Sound(view')
  BY DEF IInv
<1> QED
  BY <1>3, <1>7, <1>8, <1>9, <1>10, <1>11, <1>12, <1>13 DEF IInv

\* All symbols are stored: their calls are left to link, if there are any.
LEMMA ReadNamesInv ==
  ASSUME IInv, NEW p \in Scanners, ReadNames(p)
  PROVE  IInv'
<1>1. /\ Types /\ Carries(p) /\ ScannerOk(p) /\ Watcher \in Procs /\ p \in Procs /\ p # Watcher
      /\ pc[p] = "symbols" /\ job[p] \in Jobs /\ job[p].names = {}
  BY CodeGraphAssumption, JobFields DEF IInv, Procs, ReadNames
<1>0. PICK f \in Files, t \in Contents : f = File(p) /\ t = Text(p)
  BY <1>1, FileIs DEF Contents
<1>2. /\ job[p].file = {f} /\ f \notin job[p].todo /\ t \in Texts[f] /\ job[p].text = {t}
      /\ \E u \in Texts[f] : job[p].hash = {u}
  BY <1>0, <1>1, FileIs
<1>3. UNCHANGED <<disk, list, edited, events, db, open, view, wrote, lost, torn, unbound>>
  BY DEF ReadNames, world, txn, marks
<1>4. lost' \subseteq Files /\ torn' \subseteq Files /\ unbound' \subseteq Files
  BY <1>1, <1>3 DEF Types
<1>5. ASSUME f \notin torn
      PROVE  /\ job[p].text = job[p].hash /\ db.hash[f] = {t}
             /\ \A r \in Procs \ {p} : ~Rewriting(r, f)
             /\ Named(db, f) = DOMAIN t
             /\ \A s \in SymsOf(db, f) : \A m \in t[s.name] : <<s.id, m>> \in job[p].calls
  <2>1. Rewrites(p, f) /\ Rewriting(p, f)
    BY <1>1, <1>2 DEF IInv, Rewriting
  <2> QED
    BY <1>1, <1>2, <1>5, <2>1 DEF Rewrites
<1>6. PICK j \in Jobs, l \in {"next", "resolve"} :
        /\ job' = [job EXCEPT ![p] = j] /\ pc' = [pc EXCEPT ![p] = l]
        /\ j.calls = job[p].calls /\ (l = "next" => j.file = {} /\ j.calls = {})
        /\ (l = "resolve" => j = job[p] /\ j.calls # {})
        /\ fresh' \in [Procs -> BOOLEAN] /\ fresh'[Watcher] = fresh[Watcher]
  <2>0. fresh \in [Procs -> BOOLEAN] /\ job \in [Procs -> Jobs]
    BY <1>1 DEF Types
  <2>1. CASE job[p].calls = {}
    <3>1. /\ job' = [job EXCEPT ![p] = NextFile(job[p])] /\ pc' = [pc EXCEPT ![p] = "next"]
          /\ fresh' = fresh
      BY <2>1 DEF ReadNames, Goto
    <3>2. /\ NextFile(job[p]) \in Jobs /\ NextFile(job[p]).calls = job[p].calls
          /\ NextFile(job[p]).file = {}
      BY <1>1, NextFileIs
    <3> QED
      BY <2>0, <2>1, <3>1, <3>2
  <2>2. CASE job[p].calls # {}
    <3>1. /\ job' = job /\ pc' = [pc EXCEPT ![p] = "resolve"] /\ fresh' = [fresh EXCEPT ![p] = TRUE]
      BY <2>2 DEF ReadNames, Goto
    <3>2. job' = [job EXCEPT ![p] = job[p]]
      BY <2>0, <3>1
    <3>3. fresh' \in [Procs -> BOOLEAN] /\ fresh'[Watcher] = fresh[Watcher]
      BY <1>1, <2>0, <3>1
    <3> QED
      BY <1>1, <2>2, <3>1, <3>2, <3>3
  <2> QED
    BY <2>1, <2>2
<1>7. /\ pc'[p] = l /\ job'[p] = j
      /\ \A q \in Procs \ {p} : pc'[q] = pc[q] /\ job'[q] = job[q]
  BY <1>1, <1>6, Moves DEF Places
<1>8. Carries(p)'
  <2>1. IsFiniteSet(j.calls)
    BY <1>1, <1>6 DEF Carries
  <2>2. CASE l = "next"
    BY <1>6, <1>7, <2>1, <2>2 DEF Carries
  <2>3. CASE l = "resolve"
    BY <1>2, <1>6, <1>7, <2>1, <2>3 DEF Carries
  <2> QED
    BY <2>2, <2>3
<1>9. ScannerOk(p)'
  <2>1. CASE l = "next"
    BY <1>6, <1>7, <2>1 DEF ScannerOk
  <2>2. CASE l = "resolve"
    BY <1>1, <1>3, <1>6, <1>7, <2>2 DEF ScannerOk
  <2> QED
    BY <2>1, <2>2
<1>10. \A q \in Procs : job'[q].calls = job[q].calls
  BY <1>6, <1>7
<1>11. Steady(f)' => f \notin torn /\ Steady(f)
  <2>1. Clearing(f) => Clearing(f)'
    <3> SUFFICES ASSUME NEW q \in Procs, pc[q] = "clear", job[q].file = {f} PROVE Clearing(f)'
      BY DEF Clearing
    <3>1. q # p
      BY <1>1
    <3> QED
      BY <1>7, <3>1 DEF Clearing
  <2> QED
    BY <1>3, <2>1 DEF Steady, Touched
<1>12. Truthful(f)'
  <2> SUFFICES ASSUME Steady(f)', NEW u \in db.hash[f]
               PROVE  /\ Named(db, f) = DOMAIN u
                      /\ \A q \in Scanners : \A c \in job'[q].calls : \A s \in SymsOf(db, f) :
                           s.id = c[1] => c[2] \in u[s.name]
                      /\ \A s \in SymsOf(db, f), d \in db.syms :
                           <<s.id, d.id>> \in db.edges => d.name \in u[s.name]
    BY <1>3 DEF Truthful
  <2>1. Truthful(f) /\ \A q \in Scanners : job'[q].calls = job[q].calls
    BY <1>10 DEF IInv, Procs
  <2> QED
    BY <1>5, <1>11, <2>1 DEF Truthful
<1>13. \A q \in Procs : Rewriting(q, f)' => q # p /\ Rewriting(q, f)
  BY <1>6, <1>7 DEF Rewriting
<1>14. ASSUME NEW q \in Procs PROVE Resolves(q, f)'
  <2> SUFFICES ASSUME pc'[q] = "resolve", job'[q].file = {f}
               PROVE \/ \A c \in job'[q].calls : c[1] \notin Ids(db')
                     \/ ~Steady(f)'
                     \/ /\ (\A r \in Procs : ~Rewriting(r, f))'
                        /\ \A u \in db'.hash[f] : \A s \in SymsOf(db', f) : \A m \in u[s.name] :
                              <<s.id, m>> \in job'[q].calls
    BY DEF Resolves
  <2>1. CASE q = p
    <3> SUFFICES ASSUME Steady(f)'
                 PROVE  /\ (\A r \in Procs : ~Rewriting(r, f))'
                        /\ \A u \in db'.hash[f] : \A s \in SymsOf(db', f) : \A m \in u[s.name] :
                              <<s.id, m>> \in job'[q].calls
      OBVIOUS
    <3>1. \A r \in Procs : ~Rewriting(r, f)'
      BY <1>5, <1>11, <1>13
    <3>2. \A u \in db.hash[f] : u = t
      BY <1>5, <1>11
    <3> QED
      BY <1>3, <1>5, <1>10, <1>11, <2>1, <3>1, <3>2
  <2>2. CASE q # p
    <3>1. pc[q] = "resolve" /\ job[q] = job'[q]
      BY <1>7, <2>2
    <3>2. Resolves(q, f)
      BY DEF IInv
    <3>3. Rewriting(p, f)
      BY <1>1, <1>2 DEF Rewriting
    <3> QED
      BY <1>1, <1>3, <1>11, <3>1, <3>2, <3>3 DEF Resolves
  <2> QED
    BY <2>1, <2>2
<1>15. Bound(f)'
  <2> SUFFICES ASSUME Settled(f)', ~(pc'[p] = "resolve" /\ job'[p].file = {f}),
                      NEW u \in db.hash[f], NEW s \in SymsOf(db, f), NEW d \in SymsOf(db, f),
                      d.name \in u[s.name]
               PROVE  FALSE
    BY <1>1, <1>3 DEF Bound
  <2>1. f \notin torn
    BY <1>3 DEF Settled
  <2>2. u = t
    BY <1>5, <2>1
  <2>3. job[p].calls = {}
    BY <1>2, <1>6, <1>7
  <2> QED
    BY <1>5, <2>1, <2>2, <2>3
<1>16. l \in Places /\ l \notin {"clear", "symbols"} /\ j.file \subseteq {f}
  BY <1>2, <1>6 DEF Places
<1> QED
  BY <1>2, <1>3, <1>4, <1>6, <1>8, <1>9, <1>12, <1>14, <1>15, <1>16, ScansOn

\* A scan is killed: a file it was rewriting is torn, one it was to link is
\* unbound.
LEMMA KillInv ==
  ASSUME IInv, NEW p \in Scanners, Kill(p)
  PROVE  IInv'
<1>1. /\ Types /\ Carries(p) /\ ScannerOk(p) /\ Watcher \in Procs /\ p \in Procs /\ p # Watcher
      /\ job[p] \in Jobs /\ pc[p] \in Places \ {"idle"}
      /\ job[p].todo \subseteq Files /\ job[p].file \subseteq Files
  BY CodeGraphAssumption, JobFields DEF IInv, Procs, Kill
<1>2. /\ UNCHANGED <<disk, list, edited, events, db, open, view, wrote>>
      /\ job' = [job EXCEPT ![p] = NoJob] /\ pc' = [pc EXCEPT ![p] = "idle"]
      /\ lost' = lost \cup job[p].todo \cup job[p].file
      /\ torn' = IF pc[p] \in {"clear", "symbols"} THEN torn \cup job[p].file ELSE torn
      /\ unbound' = IF pc[p] = "resolve" THEN unbound \cup job[p].file ELSE unbound
      /\ fresh' = [fresh EXCEPT ![p] = FALSE]
  BY DEF Kill, Goto, txn
<1>3. fresh' \in [Procs -> BOOLEAN] /\ fresh'[Watcher] = fresh[Watcher]
  BY <1>1, <1>2 DEF Types
<1>4. lost' \subseteq Files /\ torn' \subseteq Files /\ unbound' \subseteq Files
  BY <1>1, <1>2 DEF Types
<1>5. /\ pc'[p] = "idle" /\ job'[p] = NoJob
      /\ pc' \in [Procs -> Places] /\ job' \in [Procs -> Jobs]
      /\ \A q \in Procs \ {p} : pc'[q] = pc[q] /\ job'[q] = job[q]
  BY <1>1, <1>2, NoJobIs, Moves DEF Places
<1>6. CASE pc[p] \in {"unlist", "next"}
  <2>1. Types'
    BY <1>1, <1>2, <1>3, <1>4, <1>5 DEF Types
  <2>2. job[p].calls = {}
    BY <1>1, <1>6 DEF ScannerOk
  <2>3. torn' = torn /\ unbound' = unbound
    BY <1>2, <1>6
  <2> QED
    BY <1>1, <1>2, <1>3, <1>6, <2>1, <2>2, <2>3, NoJobIs, BetweenFiles
<1>7. CASE pc[p] \in {"check", "node", "clear", "symbols", "resolve"}
  <2>1. PICK f \in Files : job[p].file = {f}
    BY <1>1, <1>7, FileIs
  <2>2. /\ torn \subseteq torn' /\ torn' \subseteq torn \cup {f}
        /\ unbound \subseteq unbound' /\ unbound' \subseteq unbound \cup {f}
    BY <1>2, <2>1
  <2>3. Carries(p)'
    BY <1>5, NoJobIs, FS_EmptySet DEF Carries
  <2>4. ScannerOk(p)'
    BY <1>5, NoJobIs DEF ScannerOk
  <2>5. f \notin torn' => f \notin torn /\ ~Rewriting(p, f)
    BY <1>2, <2>1 DEF Rewriting
  <2>6. \A q \in Procs : Rewriting(q, f)' => q # p /\ Rewriting(q, f)
    BY <1>5 DEF Rewriting
  <2>7. \A q \in Procs : q # p /\ Rewriting(q, f) => Rewriting(q, f)'
    BY <1>5 DEF Rewriting
  <2>8. Steady(f)' => Steady(f)
    <3>1. Clearing(f) => Clearing(f)' \/ f \in torn'
      <4> SUFFICES ASSUME NEW q \in Procs, pc[q] = "clear", job[q].file = {f}
                   PROVE  Clearing(f)' \/ f \in torn'
        BY DEF Clearing
      <4>1. CASE q = p
        BY <1>2, <4>1
      <4>2. CASE q # p
        BY <1>5, <4>2 DEF Clearing
      <4> QED
        BY <4>1, <4>2
    <3> QED
      BY <1>2, <2>5, <3>1 DEF Steady, Touched
  <2>9. \A q \in Procs : job'[q].calls \subseteq job[q].calls
    BY <1>5, NoJobIs
  <2>10. Truthful(f)'
    <3> SUFFICES ASSUME Steady(f)', NEW u \in db.hash[f]
                 PROVE  /\ (\A r \in Procs : ~Rewriting(r, f))' => Named(db, f) = DOMAIN u
                        /\ \A q \in Scanners : \A c \in job'[q].calls : \A s \in SymsOf(db, f) :
                             s.id = c[1] => c[2] \in u[s.name]
                        /\ \A s \in SymsOf(db, f), d \in db.syms :
                             <<s.id, d.id>> \in db.edges => d.name \in u[s.name]
      BY <1>2 DEF Truthful
    <3>1. Truthful(f) /\ \A q \in Scanners : job'[q].calls \subseteq job[q].calls
      BY <2>9 DEF IInv, Procs
    <3>2. f \notin torn'
      BY DEF Steady
    <3>3. (\A r \in Procs : ~Rewriting(r, f))' => \A r \in Procs : ~Rewriting(r, f)
      BY <2>5, <2>7, <3>2
    <3> QED
      BY <2>8, <3>1, <3>3 DEF Truthful
  <2>11. Bound(f)'
    <3>1. Bound(f)
      BY DEF IInv
    <3>2. Settled(f)' => Settled(f)
      BY <1>2, <2>5, <2>7 DEF Settled
    <3>3. f \notin unbound' => f \notin unbound /\ pc[p] # "resolve"
      BY <1>2, <2>1
    <3>4. f \notin unbound' /\ (\A q \in Procs : ~(pc'[q] = "resolve" /\ job'[q].file = {f})) =>
            \A q \in Procs : ~(pc[q] = "resolve" /\ job[q].file = {f})
      BY <1>5, <3>3
    <3> QED
      BY <1>2, <3>1, <3>2, <3>3, <3>4 DEF Bound
  <2>12. ASSUME NEW q \in Procs PROVE Resolves(q, f)'
    <3>1. CASE q = p
      BY <1>5, <3>1 DEF Resolves
    <3>2. CASE q # p
      <4>1. pc'[q] = pc[q] /\ job'[q] = job[q]
        BY <1>5, <3>2
      <4>2. Resolves(q, f)
        BY DEF IInv
      <4> QED
        BY <1>2, <2>6, <2>8, <4>1, <4>2 DEF Resolves
    <3> QED
      BY <3>1, <3>2
  <2> QED
    BY <1>2, <1>3, <1>4, <2>1, <2>2, <2>3, <2>4, <2>10, <2>11, <2>12, NoJobIs, ScansOn DEF Places
<1> QED
  BY <1>1, <1>6, <1>7 DEF Places

\* Calls are linked, all that are carried or, when it fails, some.
LEMMA LinksInv ==
  ASSUME IInv, NEW p \in Scanners, pc[p] = "resolve", NEW f \in Files, job[p].file = {f},
         NEW cs \in SUBSET job[p].calls, \A c \in cs : c[1] \in Ids(db),
         Commit(WithEdges(db, EdgesOf(db, cs))), UNCHANGED <<world, torn>>,
         lost' \subseteq Files, unbound \subseteq unbound', unbound' \subseteq unbound \cup {f},
         cs = job[p].calls \/ f \in unbound',
         NEW j \in Jobs, j.file = {}, j.calls = {}, NEW l \in {"idle", "next"},
         job' = [job EXCEPT ![p] = j], pc' = [pc EXCEPT ![p] = l]
  PROVE  IInv'
<1> DEFINE g == WithEdges(db, EdgesOf(db, cs))
<1>1. /\ Types /\ Sound(db) /\ db \in Graphs /\ Carries(p) /\ ScannerOk(p)
      /\ p \in Procs /\ p # Watcher /\ job[p].calls \subseteq Nat \X Called
  BY CodeGraphAssumption, JobFields DEF IInv, Procs, Types
<1>2. cs \in SUBSET (Nat \X Called)
  BY <1>1
<1>3. g = WithEdges(db, EdgesOf(db, cs))
  OBVIOUS
<1>4. ~wrote /\ db' = g /\ UNCHANGED <<open, view, wrote>>
  BY DEF Commit, txn
<1> HIDE DEF g
<1>5. /\ g \in Graphs /\ Sound(g) /\ g.hash = db.hash /\ g.syms = db.syms
      /\ db.edges \subseteq g.edges
      /\ \A e \in g.edges :
           \/ e \in db.edges
           \/ \E c \in cs : e[1] = c[1] /\ \E s \in db.syms : s.id = e[2] /\ s.name = c[2]
      /\ \A c \in cs, s \in db.syms :
           s.name = c[2] /\ s.id # c[1] /\ Few(c[2]) => <<c[1], s.id>> \in g.edges
  BY <1>1, <1>2, <1>3, EdgesAre
<1>6. /\ pc'[p] = l /\ job'[p] = j /\ l \in Places
      /\ \A q \in Procs \ {p} : pc'[q] = pc[q] /\ job'[q] = job[q]
  BY <1>1, Moves DEF Places
<1>7. torn' \subseteq Files /\ unbound' \subseteq Files
  BY <1>1 DEF Types
<1>8. Carries(p)'
  BY <1>6, FS_EmptySet DEF Carries
<1>9. Ids(g) = Ids(db) /\ \A x \in Files : SymsOf(g, x) = SymsOf(db, x)
  BY <1>5 DEF Ids, SymsOf
<1>10. ASSUME NEW q \in Scanners PROVE ScannerOk(q)'
  <2>1. ScannerOk(q) /\ q \in Procs
    BY DEF IInv, Procs
  <2>2. CASE q = p
    BY <1>6, <2>2 DEF ScannerOk
  <2>3. CASE q # p
    <3>1. pc'[q] = pc[q] /\ job'[q] = job[q]
      BY <1>6, <2>1, <2>3
    <3> QED
      BY <1>4, <1>5, <2>1, <3>1 DEF ScannerOk
  <2> QED
    BY <2>2, <2>3
\* every new edge is a call this scan carried
<1>11. ASSUME NEW x \in Files, NEW s \in SymsOf(db, x), NEW d \in g.syms, <<s.id, d.id>> \in g.edges
       PROVE  \/ d \in db.syms /\ <<s.id, d.id>> \in db.edges
              \/ \E q \in Scanners : <<s.id, d.name>> \in job[q].calls
  <2> DEFINE e == <<s.id, d.id>>
  <2>1. e \in g.edges /\ e[1] = s.id /\ e[2] = d.id
    BY <1>11
  <2> HIDE DEF e
  <2>2. CASE e \in db.edges
    BY <1>5, <2>2 DEF e
  <2>3. CASE \E c \in cs : e[1] = c[1] /\ \E u \in db.syms : u.id = e[2] /\ u.name = c[2]
    <3>1. PICK c \in cs : e[1] = c[1] /\ \E u \in db.syms : u.id = e[2] /\ u.name = c[2]
      BY <2>3
    <3>2. PICK u \in db.syms : u.id = e[2] /\ u.name = c[2]
      BY <3>1
    <3>3. u = d
      BY <1>1, <1>5, <2>1, <3>2 DEF Sound, Keyed
    <3>4. c = <<s.id, d.name>>
      BY <1>2, <2>1, <3>1, <3>2, <3>3
    <3> QED
      BY <3>1, <3>4
  <2> QED
    BY <1>5, <2>1, <2>2, <2>3
<1>13. \A q \in Scanners : \A c \in job'[q].calls : c \in job[q].calls
  BY <1>6 DEF Procs
<1>14. ASSUME NEW x \in Files, x # f
       PROVE  /\ Truthful(x)' /\ Bound(x)'
              /\ \A q \in Procs : Rewrites(q, x)' /\ Resolves(q, x)'
  <2>1. \A q \in Procs : (pc'[q] = pc[q] /\ job'[q] = job[q]) \/ (~Busy(q, x) /\ ~Busy(q, x)')
    <3>1. ~Busy(p, x) /\ ~Busy(p, x)'
      BY <1>6, <1>14 DEF Busy
    <3> QED
      BY <1>6, <3>1
  <2>2. Touched(x)' <=> Touched(x)
    BY <1>4, <1>5 DEF Touched
  <2>3. \A s, d \in SymsOf(db, x) : <<s.id, d.id>> \in db.edges => <<s.id, d.id>> \in db'.edges
    BY <1>4, <1>5
  <2>4. \A s \in SymsOf(db, x), d \in db'.syms : <<s.id, d.id>> \in db'.edges =>
          \/ d \in db.syms /\ <<s.id, d.id>> \in db.edges
          \/ \E q \in Scanners : <<s.id, d.name>> \in job[q].calls
    BY <1>4, <1>11
  <2>5. \A q \in Scanners : \A c \in job'[q].calls : \A s \in SymsOf(db, x) :
          s.id = c[1] => c \in job[q].calls
    BY <1>13
  <2> QED
    BY <1>4, <1>5, <1>9, <1>14, <2>1, <2>2, <2>3, <2>4, <2>5, FileKept
<1>15. \A q \in Procs : Rewriting(q, f)' <=> Rewriting(q, f)
  BY <1>6 DEF Rewriting
<1>16. (Clearing(f)' <=> Clearing(f)) /\ (Touched(f)' <=> Touched(f)) /\ (Steady(f)' <=> Steady(f))
  <2>1. \A q \in Procs : (pc'[q] = "clear" /\ job'[q].file = {f})
                     <=> (pc[q] = "clear" /\ job[q].file = {f})
    BY <1>6
  <2>2. Clearing(f)' <=> Clearing(f)
    BY <2>1 DEF Clearing
  <2>3. Touched(f)' <=> Touched(f)
    BY <1>4 DEF Touched
  <2> QED
    BY <2>2, <2>3 DEF Steady
<1>17. Named(g, f) = Named(db, f)
  BY <1>9 DEF Named
<1>18. Truthful(f)'
  <2> SUFFICES ASSUME Steady(f), NEW u \in db.hash[f]
               PROVE  /\ (\A r \in Procs : ~Rewriting(r, f)) => Named(db, f) = DOMAIN u
                      /\ \A q \in Scanners : \A c \in job'[q].calls : \A s \in SymsOf(db, f) :
                           s.id = c[1] => c[2] \in u[s.name]
                      /\ \A s \in SymsOf(db, f), d \in g.syms :
                           <<s.id, d.id>> \in g.edges => d.name \in u[s.name]
    BY <1>4, <1>5, <1>9, <1>15, <1>16, <1>17 DEF Truthful
  <2>1. /\ (\A r \in Procs : ~Rewriting(r, f)) => Named(db, f) = DOMAIN u
        /\ \A q \in Scanners : \A c \in job[q].calls : \A s \in SymsOf(db, f) :
             s.id = c[1] => c[2] \in u[s.name]
        /\ \A s \in SymsOf(db, f), d \in db.syms : <<s.id, d.id>> \in db.edges => d.name \in u[s.name]
    BY DEF IInv, Truthful
  <2>2. ASSUME NEW s \in SymsOf(db, f), NEW d \in g.syms, <<s.id, d.id>> \in g.edges
        PROVE  d.name \in u[s.name]
    <3>1. CASE \E q \in Scanners : <<s.id, d.name>> \in job[q].calls
      <4>1. PICK q \in Scanners : <<s.id, d.name>> \in job[q].calls
        BY <3>1
      <4> DEFINE c == <<s.id, d.name>>
      <4>2. c \in job[q].calls /\ c[1] = s.id /\ c[2] = d.name
        BY <4>1
      <4> HIDE DEF c
      <4> QED
        BY <2>1, <4>2
    <3>2. CASE d \in db.syms /\ <<s.id, d.id>> \in db.edges
      BY <2>1, <3>2
    <3> QED
      BY <1>11, <2>2, <3>1, <3>2
  <2> QED
    BY <1>13, <2>1, <2>2
<1>19. Bound(f)'
  <2> SUFFICES ASSUME Settled(f)', f \notin unbound', NEW u \in db.hash[f],
                      NEW s \in SymsOf(db, f), NEW d \in SymsOf(db, f),
                      d # s, d.name \in u[s.name], Few(d.name)
               PROVE  <<s.id, d.id>> \in g.edges
    BY <1>4, <1>5, <1>9 DEF Bound
  <2>1. cs = job[p].calls /\ cs # {}
    BY <1>1 DEF ScannerOk
  <2>2. Steady(f) /\ \A r \in Procs : ~Rewriting(r, f)
    <3>1. f \notin torn /\ \A r \in Procs : ~Rewriting(r, f)
      BY <1>15 DEF Settled
    <3>2. ~Clearing(f)
      BY <3>1 DEF Clearing, Rewriting
    <3> QED
      BY <1>4, <3>1, <3>2 DEF Steady, Touched
  <2>3. Resolves(p, f)
    BY <1>1 DEF IInv
  <2>4. <<s.id, d.name>> \in cs
    BY <2>1, <2>2, <2>3 DEF Resolves
  <2>5. s \in db.syms /\ d \in db.syms /\ s.id # d.id
    BY <1>1 DEF SymsOf, Sound, Keyed
  <2> DEFINE c == <<s.id, d.name>>
  <2>6. c \in cs /\ c[1] = s.id /\ c[2] = d.name
    BY <2>4
  <2> HIDE DEF c
  <2>7. <<c[1], d.id>> \in g.edges
    BY <1>5, <2>5, <2>6
  <2> QED
    BY <2>6, <2>7
<1>20. ASSUME NEW q \in Procs PROVE Rewrites(q, f)'
  <2> SUFFICES ASSUME f \notin torn, Rewriting(q, f)' PROVE Rewrites(q, f)'
    BY DEF Rewrites
  <2>1. q # p
    BY <1>6 DEF Rewriting
  <2>2. pc'[q] = pc[q] /\ job'[q] = job[q]
    BY <1>6, <2>1
  <2>3. Rewrites(q, f)
    BY DEF IInv
  <2> QED
    BY <1>4, <1>5, <1>9, <1>15, <1>17, <2>2, <2>3 DEF Rewrites
<1>21. ASSUME NEW q \in Procs PROVE Resolves(q, f)'
  <2>1. CASE q = p
    BY <1>6, <2>1 DEF Resolves
  <2>2. CASE q # p
    <3>1. pc'[q] = pc[q] /\ job'[q] = job[q]
      BY <1>6, <2>2
    <3>2. Resolves(q, f)
      BY DEF IInv
    <3>3. db'.hash[f] = db.hash[f] /\ SymsOf(db', f) = SymsOf(db, f) /\ Ids(db') = Ids(db)
      BY <1>4, <1>5, <1>9
    <3>4. (\A r \in Procs : ~Rewriting(r, f)') <=> \A r \in Procs : ~Rewriting(r, f)
      BY <1>15
    <3>5. Steady(f)' <=> Steady(f)
      BY <1>16
    <3> SUFFICES ASSUME pc[q] = "resolve", job[q].file = {f},
                        NEW c \in job[q].calls, c[1] \in Ids(db), Steady(f)
                 PROVE  /\ \A r \in Procs : ~Rewriting(r, f)
                        /\ \A u \in db.hash[f] : \A s \in SymsOf(db, f) :
                             \A m \in u[s.name] : <<s.id, m>> \in job[q].calls
      BY <3>1, <3>3, <3>4, <3>5 DEF Resolves
    <3> QED
      BY <3>2 DEF Resolves
  <2> QED
    BY <2>1, <2>2
<1>22. Commit(g) /\ UNCHANGED world
  BY <1>3
<1>23. \A x \in Files : /\ Truthful(x)' /\ Bound(x)'
                        /\ \A q \in Procs : Rewrites(q, x)' /\ Resolves(q, x)'
  BY <1>14, <1>18, <1>19, <1>20, <1>21
<1>24. g \in Graphs /\ Sound(g) /\ torn' \subseteq Files /\ unbound' \subseteq Files /\ l \in Places
  BY <1>5, <1>6, <1>7
<1> QED
  BY <1>8, <1>10, <1>22, <1>23, <1>24, Commits

LEMMA InsertEdgesInv ==
  ASSUME IInv, NEW p \in Scanners, InsertEdges(p)
  PROVE  IInv'
<1>1. /\ Types /\ p \in Procs /\ pc[p] = "resolve" /\ job[p] \in Jobs
      /\ \A c \in job[p].calls : c[1] \in Ids(db)
  BY JobFields DEF IInv, Procs, InsertEdges
<1>2. PICK f \in Files : job[p].file = {f}
  BY <1>1, FileIs
<1> DEFINE j == [NextFile(job[p]) EXCEPT !.calls = {}]
<1>3. /\ Commit(WithEdges(db, EdgesOf(db, job[p].calls))) /\ UNCHANGED <<world, lost, torn, unbound>>
      /\ job' = [job EXCEPT ![p] = j] /\ pc' = [pc EXCEPT ![p] = "next"]
  BY DEF InsertEdges, Done, Goto, marks
<1>4. j \in Jobs /\ j.file = {} /\ j.calls = {}
  <2> DEFINE n == NextFile(job[p])
  <2>1. n \in Jobs /\ n.file = {} /\ j = [n EXCEPT !.calls = {}]
    BY <1>1, NextFileIs
  <2> HIDE DEF n, j
  <2> QED
    BY <2>1 DEF Jobs
<1>5. lost' \subseteq Files /\ unbound \subseteq Files
  BY <1>1, <1>3 DEF Types
<1> HIDE DEF j
<1> QED
  BY <1>1, <1>2, <1>3, <1>4, <1>5, LinksInv

LEMMA EdgesRefusedInv ==
  ASSUME IInv, NEW p \in Scanners, EdgesRefused(p)
  PROVE  IInv'
<1>1. /\ Types /\ p \in Procs /\ pc[p] = "resolve" /\ job[p] \in Jobs /\ job[p].todo \subseteq Files
  BY JobFields DEF IInv, Procs, EdgesRefused
<1>2. PICK f \in Files : job[p].file = {f}
  BY <1>1, FileIs
<1> DEFINE own == {c \in job[p].calls : c[1] \in Ids(db)}
<1>3. /\ job' = [job EXCEPT ![p] = NoJob] /\ pc' = [pc EXCEPT ![p] = "idle"]
      /\ unbound' = unbound \cup {f} /\ lost' = lost \cup job[p].todo /\ UNCHANGED <<world, torn>>
      /\ IF fresh[p] THEN \E cs \in SUBSET own : Commit(WithEdges(db, EdgesOf(db, cs)))
                     ELSE UNCHANGED <<db, fresh, open, view, wrote>>
  BY <1>2 DEF EdgesRefused, Goto, txn
<1>4. lost' \subseteq Files /\ torn' \subseteq Files /\ unbound' \subseteq Files
  BY <1>1, <1>3 DEF Types
<1>5. CASE fresh[p]
  <2>1. PICK cs \in SUBSET own : Commit(WithEdges(db, EdgesOf(db, cs)))
    BY <1>3, <1>5
  <2>2. cs \in SUBSET job[p].calls /\ \A c \in cs : c[1] \in Ids(db)
    BY <2>1
  <2> HIDE DEF own
  <2> QED
    BY <1>1, <1>2, <1>3, <1>4, <2>1, <2>2, NoJobIs, LinksInv
<1>6. CASE ~fresh[p]
  <2>1. /\ UNCHANGED <<disk, list, edited, events, db, open, view, wrote, fresh>>
        /\ fresh' \in [Procs -> BOOLEAN]
    BY <1>1, <1>3, <1>6 DEF world, Types
  <2>2. /\ pc'[p] = "idle" /\ job'[p] = NoJob
        /\ \A q \in Procs \ {p} : pc'[q] = pc[q] /\ job'[q] = job[q]
    BY <1>1, <1>3, NoJobIs, Moves DEF Places
  <2>3. Carries(p)' /\ ScannerOk(p)'
    BY <2>2, NoJobIs, FS_EmptySet DEF Carries, ScannerOk
  <2>4. \A q \in Procs : Rewriting(q, f)' <=> Rewriting(q, f)
    BY <1>1, <2>2 DEF Rewriting
  <2>5. Steady(f)' <=> Steady(f)
    <3>1. \A q \in Procs : (pc'[q] = "clear" /\ job'[q].file = {f})
                       <=> (pc[q] = "clear" /\ job[q].file = {f})
      BY <1>1, <2>2
    <3>2. Clearing(f)' <=> Clearing(f)
      BY <3>1 DEF Clearing
    <3> QED
      BY <1>3, <2>1, <3>2 DEF Steady, Touched
  <2>6. \A q \in Scanners : job'[q].calls \subseteq job[q].calls
    BY <2>2, NoJobIs DEF Procs
  <2>7. Truthful(f)'
    <3>1. Truthful(f)
      BY DEF IInv
    <3> SUFFICES ASSUME Steady(f), NEW u \in db.hash[f]
                 PROVE  /\ (\A r \in Procs : ~Rewriting(r, f)) => Named(db, f) = DOMAIN u
                        /\ \A q \in Scanners : \A c \in job'[q].calls : \A s \in SymsOf(db, f) :
                             s.id = c[1] => c[2] \in u[s.name]
                        /\ \A s \in SymsOf(db, f), d \in db.syms :
                             <<s.id, d.id>> \in db.edges => d.name \in u[s.name]
      BY <2>1, <2>4, <2>5 DEF Truthful
    <3> QED
      BY <2>6, <3>1 DEF Truthful
  <2>8. Bound(f)'
    BY <1>3 DEF Bound
  <2>9. ASSUME NEW q \in Procs PROVE Resolves(q, f)'
    <3>1. CASE q = p
      BY <2>2, <3>1 DEF Resolves
    <3>2. CASE q # p
      <4>1. pc'[q] = pc[q] /\ job'[q] = job[q]
        BY <2>2, <3>2
      <4>2. Resolves(q, f)
        BY DEF IInv
      <4> QED
        BY <2>1, <2>4, <2>5, <4>1, <4>2 DEF Resolves
    <3> QED
      BY <3>1, <3>2
  <2>10. /\ torn \subseteq torn' /\ torn' \subseteq torn \cup {f}
         /\ unbound \subseteq unbound' /\ unbound' \subseteq unbound \cup {f}
    BY <1>3
  <2> HIDE DEF own
  <2> QED
    BY <1>2, <1>3, <1>4, <2>1, <2>3, <2>7, <2>8, <2>9, <2>10, NoJobIs, ScansOn DEF Places
<1> QED
  BY <1>5, <1>6

-----------------------------------------------------------------------------
(* The watcher's scan: nothing of it is in the database before its end.    *)
LEMMA WatchStoreInv ==
  ASSUME IInv, WatchStore
  PROVE  IInv'
<1> DEFINE p == Watcher
<1>1. /\ Types /\ Sound(db) /\ Sound(view) /\ db \in Graphs /\ view \in Graphs
      /\ Carries(p) /\ WatcherOk /\ TxnOk
      /\ p \in Procs /\ pc[p] = "node" /\ job[p] \in Jobs /\ job[p].calls \subseteq Nat \X Called
  BY JobFields DEF IInv, Procs, Types, WatchStore
<1>0. PICK f \in Files, t \in Contents, u \in Contents : f = File(p) /\ t = Hash(p) /\ u = Text(p)
  BY <1>1, FileIs DEF Contents
<1>2. /\ job[p].file = {f} /\ f \notin job[p].todo /\ t \in Texts[f] /\ job[p].hash = {t}
      /\ u \in Texts[f] /\ job[p].text = {u}
  BY <1>0, <1>1, FileIs
<1> DEFINE n == NextFile(job[p])
<1>3. /\ n \in Jobs /\ n.todo = job[p].todo /\ n.calls = job[p].calls /\ n.file = {}
  BY <1>1, NextFileIs
<1>4. CASE ~fresh[p]
  <2>1. /\ UNCHANGED <<db, open, view, wrote, fresh, lost, torn, unbound, disk, list, edited, events>>
        /\ job' = [job EXCEPT ![p] = n] /\ pc' = [pc EXCEPT ![p] = "next"]
    BY <1>4 DEF WatchStore, Goto, marks, world
  <2> HIDE DEF n
  <2>2. Types'
    <3>1. pc' \in [Procs -> Places] /\ job' \in [Procs -> Jobs]
      BY <1>1, <1>3, <2>1, Moves DEF Places
    <3> QED
      BY <1>1, <2>1, <3>1 DEF Types
  <2> HIDE DEF p
  <2> QED
    BY <1>1, <1>3, <2>1, <2>2, BetweenFiles
<1>5. CASE fresh[p]
  <2> DEFINE g0 == WithNode(view, f, t)
             g == WithoutSymbols(g0, f)
             names == DOMAIN u
             ids == SymbolIds(g, f, names)
             v == WithSymbols(g, f, ids)
             new == CallsFrom(u, ids)
             j == [n EXCEPT !.calls = job[p].calls \cup new]
  <2>1. /\ view' = v /\ wrote' = TRUE /\ MarkStore(p, f) /\ job' = [job EXCEPT ![p] = j]
        /\ pc' = [pc EXCEPT ![p] = "next"]
        /\ UNCHANGED <<db, open, fresh, disk, list, edited, events>>
    <3>1. UNCHANGED <<db, open, fresh, disk, list, edited, events>> /\ pc' = [pc EXCEPT ![p] = "next"]
      BY DEF WatchStore, Goto, world
    <3>2. MarkStore(p, f)
      BY <1>0, <1>5 DEF WatchStore
    <3>3. wrote' = TRUE
      BY <1>5 DEF WatchStore
    <3>4. view' = v
      BY <1>0, <1>5 DEF WatchStore
    <3>5. job' = [job EXCEPT ![p] = j]
      BY <1>0, <1>3, <1>5 DEF WatchStore
    <3> QED
      BY <3>1, <3>2, <3>3, <3>4, <3>5
  <2>2. /\ g0 \in Graphs /\ Sound(g0) /\ g0.syms = view.syms /\ g0.edges = view.edges
        /\ g0.hash[f] = {t} /\ \A x \in Files \ {f} : g0.hash[x] = view.hash[x]
        /\ Ids(g0) = Ids(view) /\ \A x \in Files : SymsOf(g0, x) = SymsOf(view, x)
    BY <1>1, <1>2, NodeIs
  <2>3. /\ g \in Graphs /\ Sound(g) /\ g.hash = g0.hash /\ g.syms \subseteq g0.syms
        /\ SymsOf(g, f) = {} /\ \A x \in Files \ {f} : SymsOf(g, x) = SymsOf(g0, x)
        /\ Ids(g) \subseteq Ids(g0) /\ g.edges \subseteq g0.edges
        /\ \A e \in g0.edges : e[1] \in Ids(g) /\ e[2] \in Ids(g) => e \in g.edges
    <3> HIDE DEF g0
    <3> QED
      BY <2>2, WithoutIs
  <2>4. IsFiniteSet(names) /\ names \subseteq DOMAIN u /\ \A q \in Procs : Carries(q)
    BY <1>2, CodeGraphAssumption DEF IInv
  <2>5. ids = SymbolIds(g, f, names) /\ v = WithSymbols(g, f, ids)
    OBVIOUS
  <2> HIDE DEF g0, g, ids, v
  <2>6. Stores(g, f, names, ids, v)
    <3> HIDE DEF names
    <3> QED
      BY <1>1, <1>2, <2>3, <2>4, <2>5, SymbolsAre
  <2>7. /\ v \in Graphs /\ Sound(v) /\ v.hash = g.hash /\ v.edges = g.edges
        /\ DOMAIN ids = names /\ g.syms \subseteq v.syms /\ Ids(g) \subseteq Ids(v)
        /\ \A x \in Files \ {f} : SymsOf(v, x) = SymsOf(g, x)
        /\ Named(v, f) = names
        /\ \A s \in v.syms : s \in g.syms \/ (s.file = f /\ Unused(g, s.id) /\ s.name \in names)
        /\ \A s \in SymsOf(v, f) : s.name \in names => s.id = ids[s.name]
        /\ \A m \in names : ids[m] \in Nat /\ \E s \in SymsOf(v, f) : s.name = m /\ s.id = ids[m]
    <3>1. Named(g, f) = {}
      BY <2>3 DEF Named
    <3> HIDE DEF names
    <3> QED
      BY <2>6, <3>1 DEF Stores
  <2>8. /\ new \subseteq Nat \X Called /\ IsFiniteSet(new)
        /\ \A c \in new : \E m \in names : c[1] = ids[m] /\ c[2] \in u[m]
        /\ \A m \in names : \A x \in u[m] : <<ids[m], x>> \in new
    BY <1>2, <2>7, CallsAre
  <2> HIDE DEF new
  <2>9. /\ j \in Jobs /\ j.todo = job[p].todo /\ j.calls = job[p].calls \cup new /\ j.file = {}
    <3> HIDE DEF n
    <3> QED
      BY <1>1, <1>3, <2>8 DEF Jobs
  <2> HIDE DEF j, n
  <2>10. /\ pc' \in [Procs -> Places] /\ job' \in [Procs -> Jobs] /\ pc'[p] = "next" /\ job'[p] = j
         /\ \A q \in Procs \ {p} : pc'[q] = pc[q] /\ job'[q] = job[q]
    BY <1>1, <2>1, <2>9, Moves DEF Places
  <2>11. view.hash[f] = db.hash[f] /\ view.hash[f] # {t} /\ open /\ (~wrote => view = db)
    <3>1. ~wrote => view = db
      BY <1>1, <1>5 DEF TxnOk
    <3>2. wrote => SameRows(view, db, f)
      BY <1>1, <1>2 DEF TxnOk, Stored
    <3>3. open /\ view.hash[f] # {t}
      BY <1>1, <1>2 DEF WatcherOk
    <3> QED
      BY <3>1, <3>2, <3>3 DEF SameRows
  <2>12. /\ v.hash[f] = {t}
         /\ \A x \in Files \ {f} : v.hash[x] = view.hash[x] /\ SymsOf(v, x) = SymsOf(view, x)
    BY <2>2, <2>3, <2>7
  <2>13. /\ lost' \subseteq Files /\ torn' \subseteq Files /\ unbound' \subseteq Files
         /\ \A x \in Files \ {f} : (x \in torn' <=> x \in torn) /\ (x \in unbound' <=> x \in unbound)
         /\ f \notin torn' => job[p].text = job[p].hash /\ ~Overlaps(p, f)
    BY <1>1, <2>1, MarksTyped
  <2>14. Types'
    BY <1>1, <2>1, <2>7, <2>10, <2>13 DEF Types
  <2>15. ASSUME NEW q \in Procs PROVE Carries(q)'
    <3>1. CASE q = p
      <4>1. IsFiniteSet(job[p].calls)
        BY <1>1 DEF Carries
      <4>2. IsFiniteSet(new)
        BY <2>8
      <4>3. IsFiniteSet(job[p].calls \cup new)
        BY <4>1, <4>2, FS_Union
      <4>4. j.calls = job[p].calls \cup new
        BY <2>9
      <4>5. IsFiniteSet(j.calls)
        BY <4>3, <4>4
      <4> QED
        BY <2>9, <2>10, <3>1, <4>5 DEF Carries
    <3>2. CASE q # p
      <4>1. pc'[q] = pc[q] /\ job'[q] = job[q] /\ Carries(q)
        BY <2>10, <3>2 DEF IInv
      <4> QED
        BY <4>1 DEF Carries
    <3> QED
      BY <3>1, <3>2
  <2>16. \A q \in Scanners : q \in Procs /\ q # p
    BY CodeGraphAssumption DEF Procs
  <2>17. ASSUME NEW q \in Scanners PROVE ScannerOk(q)'
    <3>1. pc'[q] = pc[q] /\ job'[q] = job[q] /\ ScannerOk(q)
      BY <2>10, <2>16 DEF IInv
    <3> QED
      BY <2>1, <3>1 DEF ScannerOk
  <2>18. WatcherOk'
    BY <2>1, <2>10 DEF WatcherOk
  <2>19. \A q \in Procs, x \in Files : /\ Rewriting(q, x)' <=> Rewriting(q, x)
                                       /\ q = p => ~Rewriting(q, x)
    BY <1>1, <2>10 DEF Rewriting
  <2>20. Touched(f)' /\ \A x \in Files \ {f} : Touched(x)' <=> Touched(x)
    BY <2>1, <2>11, <2>12 DEF Touched
  <2>21. ~Touched(f)
    BY <2>11 DEF Touched
  <2>22. ASSUME NEW x \in Files \ {f}
         PROVE  /\ Truthful(x)' /\ Bound(x)'
                /\ \A q \in Procs : Rewrites(q, x)' /\ Resolves(q, x)'
    <3>1. \A q \in Procs : (pc'[q] = pc[q] /\ job'[q] = job[q]) \/ (~Busy(q, x) /\ ~Busy(q, x)')
      <4>1. ~Busy(p, x) /\ ~Busy(p, x)'
        BY <1>1, <2>10 DEF Busy
      <4> QED
        BY <2>10, <4>1
    <3>2. \A s \in SymsOf(db, x), d \in db'.syms : <<s.id, d.id>> \in db'.edges =>
            d \in db.syms /\ <<s.id, d.id>> \in db.edges
      BY <2>1
    <3>3. \A q \in Scanners : \A c \in job'[q].calls : \A s \in SymsOf(db, x) :
            s.id = c[1] => c \in job[q].calls
      BY <2>10, <2>16
    <3> QED
      BY <2>1, <2>13, <2>20, <2>22, <3>1, <3>2, <3>3, FileKept
  <2>23. Truthful(f)' /\ Bound(f)' /\ \A q \in Procs : Resolves(q, f)'
    BY <2>20 DEF Truthful, Bound, Resolves, Steady, Settled, Touched
  <2>24. f \notin torn' => \A q \in Procs : ~Rewriting(q, f)'
    BY <2>13, <2>19 DEF Overlaps
  <2>25. \A q \in Procs : Rewrites(q, f)'
    BY <2>24 DEF Rewrites
\* the ids of the new symbols are nowhere else
  <2>26. ASSUME NEW m \in names
         PROVE  /\ ids[m] \notin Ids(db) /\ ids[m] \notin Ids(g)
                /\ \A q \in Procs : \A c \in job[q].calls : c[1] # ids[m]
    <3>1. PICK s \in SymsOf(v, f) : s.name = m /\ s.id = ids[m]
      BY <2>7
    <3>2. s \in v.syms /\ s \notin g.syms
      BY <2>3 DEF SymsOf
    <3> QED
      BY <2>7, <3>1, <3>2 DEF Unused
  <2>27. ASSUME NEW s \in SymsOf(v, f) PROVE s.name \in names /\ s.id = ids[s.name]
    <3>1. s.name \in names
      BY <2>7 DEF Named
    <3> QED
      BY <2>7, <3>1
  <2>28. Stored(f)'
    <3>1. v.hash[f] # db.hash[f] /\ f \notin j.todo /\ f \notin j.file
      BY <1>2, <2>9, <2>11, <2>12
    <3>2. \A s \in SymsOf(v, f) :
            s.id \notin Ids(db) /\ \A q \in Scanners : \A c \in job'[q].calls : c[1] # s.id
      BY <2>10, <2>16, <2>26, <2>27
    <3>3. ASSUME f \notin torn', NEW x \in v.hash[f]
          PROVE  /\ Named(v, f) = DOMAIN x
                 /\ \A s \in SymsOf(v, f), m \in Called :
                      m \in x[s.name] <=> <<s.id, m>> \in j.calls
      <4>1. x = u
        BY <1>2, <2>12, <2>13, <3>3
      <4>2. Named(v, f) = DOMAIN x
        BY <2>7, <4>1
      <4>3. ASSUME NEW s \in SymsOf(v, f), NEW m \in u[s.name] PROVE <<s.id, m>> \in j.calls
        BY <2>8, <2>9, <2>27
      <4>4. ASSUME NEW s \in SymsOf(v, f), NEW m \in Called, <<s.id, m>> \in j.calls
            PROVE  m \in u[s.name]
        <5> DEFINE c == <<s.id, m>>
        <5>1. c \in j.calls /\ c[1] = s.id /\ c[2] = m
          BY <4>4
        <5> HIDE DEF c
        <5>2. c \notin job[p].calls
          BY <1>1, <2>26, <2>27, <5>1
        <5>3. PICK k \in names : c[1] = ids[k] /\ c[2] \in u[k]
          BY <2>8, <2>9, <5>1, <5>2
        <5>4. PICK s2 \in SymsOf(v, f) : s2.name = k /\ s2.id = ids[k]
          BY <2>7
        <5>5. s2 = s
          BY <2>7, <5>1, <5>3, <5>4 DEF SymsOf, Sound, Keyed
        <5> QED
          BY <5>1, <5>3, <5>4, <5>5
      <4> QED
        BY <4>1, <4>2, <4>3, <4>4
    <3> QED
      BY <2>1, <2>10, <2>24, <3>1, <3>2, <3>3 DEF Stored
  <2>29. ASSUME NEW x \in Files \ {f} PROVE SameRows(view', db', x) \/ Stored(x)'
    <3>1. CASE SameRows(view, db, x)
      BY <2>1, <2>12, <3>1 DEF SameRows
    <3>2. CASE ~SameRows(view, db, x)
      <4>1. wrote /\ Stored(x)
        BY <1>1, <2>11, <3>2 DEF TxnOk, SameRows
      <4>2. v.hash[x] # db.hash[x] /\ x \notin j.todo /\ x \notin j.file
        BY <2>9, <2>12, <4>1 DEF Stored
      <4>3. \A s \in SymsOf(v, x) :
              s.id \notin Ids(db) /\ \A q \in Scanners : \A c \in job'[q].calls : c[1] # s.id
        BY <2>10, <2>12, <2>16, <4>1 DEF Stored
      <4>4. ASSUME x \notin torn'
            PROVE  /\ \A q \in Procs : ~Rewriting(q, x)'
                   /\ \A y \in v.hash[x] :
                        /\ Named(v, x) = DOMAIN y
                        /\ \A s \in SymsOf(v, x), m \in Called :
                             m \in y[s.name] <=> <<s.id, m>> \in j.calls
        <5>1. x \notin torn
          BY <2>13, <4>4
        <5>2. /\ \A q \in Procs : ~Rewriting(q, x)
              /\ \A y \in view.hash[x] :
                   /\ Named(view, x) = DOMAIN y
                   /\ \A s \in SymsOf(view, x), m \in Called :
                        m \in y[s.name] <=> <<s.id, m>> \in job[p].calls
          BY <4>1, <5>1 DEF Stored
        <5>3. \A s \in SymsOf(view, x) : s.id \in Ids(g)
          BY <2>2, <2>3 DEF SymsOf, Ids
        <5>4. ASSUME NEW s \in SymsOf(view, x), NEW m \in Called, <<s.id, m>> \in new PROVE FALSE
          <6> DEFINE c == <<s.id, m>>
          <6>1. c \in new /\ c[1] = s.id
            BY <5>4
          <6> HIDE DEF c
          <6>2. PICK k \in names : c[1] = ids[k]
            BY <2>8, <6>1
          <6> QED
            BY <2>26, <5>3, <6>1, <6>2
        <5>5. \A s \in SymsOf(view, x), m \in Called :
                <<s.id, m>> \in j.calls <=> <<s.id, m>> \in job[p].calls
          BY <2>9, <5>4
        <5>6. Named(v, x) = Named(view, x)
          BY <2>12 DEF Named
        <5> QED
          BY <2>12, <2>19, <5>2, <5>5, <5>6
      <4> QED
        BY <2>1, <2>10, <4>2, <4>3, <4>4 DEF Stored
    <3> QED
      BY <3>1, <3>2
  <2>30. view'.edges \subseteq db'.edges
    <3>1. view.edges \subseteq db.edges
      BY <1>1, <2>11 DEF TxnOk
    <3> QED
      BY <2>1, <2>2, <2>3, <2>7, <3>1
  <2>31. ASSUME NEW e \in db.edges, e[1] \in Ids(v), e[2] \in Ids(v) PROVE e \in v.edges
    <3>1. e[1] \in Ids(db) /\ e[2] \in Ids(db)
      BY <1>1 DEF Sound, Linked
    <3>2. \A i \in Ids(v) : i \in Ids(db) => i \in Ids(g)
      BY <2>7 DEF Ids, Unused
    <3>3. e[1] \in Ids(g) /\ e[2] \in Ids(g)
      BY <2>31, <3>1, <3>2
    <3>4. e[1] \in Ids(view) /\ e[2] \in Ids(view)
      BY <2>2, <2>3, <3>3
    <3>5. e \in view.edges
      BY <1>1, <2>11, <3>4 DEF TxnOk
    <3> QED
      BY <2>2, <2>3, <2>7, <3>3, <3>5
  <2>32. ASSUME NEW c \in j.calls PROVE \E s \in v.syms : s.id = c[1] /\ Touched(s.file)'
    <3>1. CASE c \in job[p].calls
      <4>1. wrote
        BY <1>1, <3>1 DEF WatcherOk
      <4>2. PICK s \in view.syms : s.id = c[1] /\ Touched(s.file)
        BY <1>1, <3>1, <4>1 DEF TxnOk
      <4>3. s.file \in Files \ {f}
        BY <1>1, <2>21, <4>2, GraphFields
      <4>4. s \in v.syms
        <5>1. s \in SymsOf(v, s.file)
          BY <2>12, <4>3 DEF SymsOf
        <5> QED
          BY <5>1 DEF SymsOf
      <4> QED
        BY <2>20, <4>2, <4>3, <4>4
    <3>2. CASE c \notin job[p].calls
      <4>1. PICK m \in names : c[1] = ids[m]
        BY <2>8, <2>9, <3>2
      <4>2. PICK s \in SymsOf(v, f) : s.name = m /\ s.id = ids[m]
        BY <2>7
      <4>3. s \in v.syms /\ s.file = f
        BY DEF SymsOf
      <4> QED
        BY <2>20, <4>1, <4>2, <4>3
    <3> QED
      BY <3>1, <3>2
  <2>33. TxnOk'
    <3>1. fresh'[Watcher] /\ open'
      BY <1>5, <2>1, <2>11
    <3>2. \A x \in Files : SameRows(view', db', x) \/ Stored(x)'
      BY <2>28, <2>29
    <3>3. \A e \in db'.edges : e[1] \in Ids(view') /\ e[2] \in Ids(view') => e \in view'.edges
      BY <2>1, <2>31
    <3>4. \A c \in job'[Watcher].calls : \E s \in view'.syms : s.id = c[1] /\ Touched(s.file)'
      BY <2>1, <2>10, <2>32
    <3> QED
      BY <2>1, <2>30, <3>1, <3>2, <3>3, <3>4 DEF TxnOk
  <2>34. Sound(db') /\ Sound(view')
    BY <1>1, <2>1, <2>7
  <2>35. \A x \in Files : /\ Truthful(x)' /\ Bound(x)'
                          /\ \A q \in Procs : Rewrites(q, x)' /\ Resolves(q, x)'
    BY <2>22, <2>23, <2>25
  <2> QED
    BY <2>14, <2>15, <2>17, <2>18, <2>33, <2>34, <2>35 DEF IInv
<1> QED
  BY <1>4, <1>5

\* The watcher commits: each file is as it was, or as the transaction has it.
LEMMA WatchEndInv ==
  ASSUME IInv, WatchEnd
  PROVE  IInv'
<1> DEFINE p == Watcher
           calls == job[p].calls
           h == WithEdges(view, EdgesOf(view, calls))
<1>1. /\ Types /\ Sound(db) /\ Sound(view) /\ db \in Graphs /\ view \in Graphs
      /\ Carries(p) /\ WatcherOk /\ TxnOk /\ p \in Procs /\ pc[p] = "next"
      /\ calls \subseteq Nat \X Called
  BY JobFields DEF IInv, Procs, Types, WatchEnd
<1>2. /\ job' = [job EXCEPT ![p] = NoJob] /\ pc' = [pc EXCEPT ![p] = "idle"]
      /\ UNCHANGED <<disk, list, edited, events, lost, torn, unbound>>
  BY DEF WatchEnd, Goto, world, marks
<1>3. /\ pc' \in [Procs -> Places] /\ job' \in [Procs -> Jobs] /\ pc'[p] = "idle" /\ job'[p] = NoJob
      /\ \A q \in Procs \ {p} : pc'[q] = pc[q] /\ job'[q] = job[q]
  BY <1>1, <1>2, NoJobIs, Moves DEF Places
<1>4. CASE ~fresh[p]
  <2>1. UNCHANGED <<db, open, view, wrote, fresh>>
    BY <1>4 DEF WatchEnd, txn
  <2>2. Types'
    BY <1>1, <1>2, <1>3, <2>1 DEF Types
  <2>3. ~wrote /\ calls = {}
    BY <1>1, <1>4 DEF TxnOk, WatcherOk
  <2> QED
    BY <1>1, <1>2, <2>1, <2>2, <2>3, NoJobIs, BetweenFiles
<1>5. CASE fresh[p]
  <2>1. /\ db' = h /\ open' = FALSE /\ view' = EmptyGraph /\ wrote' = FALSE
        /\ fresh' = [q \in Procs |-> FALSE]
    BY <1>5 DEF WatchEnd
\* what the transaction holds, if anything
  <2>2. /\ \A x \in Files : SameRows(view, db, x) \/ (wrote /\ Stored(x))
        /\ view.edges \subseteq db.edges
        /\ \A e \in db.edges : e[1] \in Ids(view) /\ e[2] \in Ids(view) => e \in view.edges
        /\ \A c \in calls : \E s \in view.syms : s.id = c[1] /\ Touched(s.file)
    <3>1. CASE wrote
      BY <1>1, <3>1 DEF TxnOk
    <3>2. CASE ~wrote
      BY <1>1, <1>5, <3>2 DEF TxnOk, WatcherOk, SameRows
    <3> QED
      BY <3>1, <3>2
  <2> HIDE DEF h
  <2>3. /\ h \in Graphs /\ Sound(h) /\ h.hash = view.hash /\ h.syms = view.syms
        /\ view.edges \subseteq h.edges
        /\ \A e \in h.edges :
             \/ e \in view.edges
             \/ \E c \in calls : e[1] = c[1] /\ \E s \in view.syms : s.id = e[2] /\ s.name = c[2]
        /\ \A c \in calls, s \in view.syms :
             s.name = c[2] /\ s.id # c[1] /\ Few(c[2]) => <<c[1], s.id>> \in h.edges
    <3>1. \A c \in calls : c[1] \in Ids(view)
      BY <2>2 DEF Ids
    <3> HIDE DEF calls
    <3> QED
      BY <1>1, <3>1, EdgesAre DEF h
  <2> HIDE DEF calls
  <2>4. EmptyGraph \in Graphs /\ Sound(EmptyGraph)
    BY EmptyIsSound
  <2>5. Types'
    BY <1>1, <1>2, <1>3, <2>1, <2>3, <2>4 DEF Types
  <2>6. ASSUME NEW q \in Procs PROVE Carries(q)'
    <3>1. CASE q = p
      BY <1>3, <3>1, NoJobIs, FS_EmptySet DEF Carries
    <3>2. CASE q # p
      <4>1. pc'[q] = pc[q] /\ job'[q] = job[q] /\ Carries(q)
        BY <1>3, <3>2 DEF IInv
      <4> QED
        BY <4>1 DEF Carries
    <3> QED
      BY <3>1, <3>2
  <2>7. \A q \in Scanners : q \in Procs /\ q # p
    BY CodeGraphAssumption DEF Procs
\* a symbol that is no row of the database is carried by no other scan
  <2>8. ASSUME NEW s \in view.syms, s \notin db.syms
        PROVE  /\ s.id \notin Ids(db) /\ Stored(s.file) /\ ~SameRows(view, db, s.file)
               /\ \A q \in Scanners : \A c \in job[q].calls : c[1] # s.id
    <3>1. s.file \in Files /\ s \in SymsOf(view, s.file)
      BY <1>1, GraphFields DEF SymsOf
    <3>2. ~SameRows(view, db, s.file)
      BY <2>8, <3>1 DEF SameRows, SymsOf
    <3> QED
      BY <2>2, <3>1, <3>2 DEF Stored
  <2>9. ASSUME NEW q \in Scanners PROVE ScannerOk(q)'
    <3>1. pc'[q] = pc[q] /\ job'[q] = job[q] /\ ScannerOk(q)
      BY <1>3, <2>7 DEF IInv
    <3>2. \A c \in job[q].calls : \A s \in view.syms : s.id = c[1] => job[q].file = {s.file}
      BY <2>8, <3>1 DEF ScannerOk
    <3> QED
      BY <2>1, <2>3, <3>1, <3>2 DEF ScannerOk
  <2>10. WatcherOk' /\ TxnOk'
    <3>1. fresh'[p] = FALSE /\ wrote' = FALSE /\ pc'[p] = "idle" /\ job'[p].calls = {}
      BY <1>1, <1>3, <2>1, NoJobIs
    <3> QED
      BY <3>1 DEF WatcherOk, TxnOk
  <2>11. Sound(db') /\ Sound(view')
    BY <2>1, <2>3, <2>4
  <2>12. ASSUME NEW x \in Files, SameRows(view, db, x)
         PROVE  /\ Truthful(x)' /\ Bound(x)'
                /\ \A q \in Procs : Rewrites(q, x)' /\ Resolves(q, x)'
    <3>1. db'.hash[x] = db.hash[x] /\ SymsOf(db', x) = SymsOf(db, x) /\ SymsOf(view, x) = SymsOf(db, x)
      BY <2>1, <2>3, <2>12 DEF SameRows, SymsOf
    <3>2. ~Touched(x) /\ ~Touched(x)'
      BY <2>1, <2>12 DEF SameRows, Touched
    <3>3. \A q \in Procs : (pc'[q] = pc[q] /\ job'[q] = job[q]) \/ (~Busy(q, x) /\ ~Busy(q, x)')
      BY <1>1, <1>3 DEF Busy
    <3>4. ASSUME NEW s \in SymsOf(db, x), NEW d \in db'.syms, <<s.id, d.id>> \in db'.edges
          PROVE  d \in db.syms /\ <<s.id, d.id>> \in db.edges
      <4> DEFINE e == <<s.id, d.id>>
      <4>1. e \in h.edges /\ d \in view.syms /\ s \in view.syms /\ s.file = x
            /\ e[1] = s.id /\ e[2] = d.id
        BY <2>1, <2>3, <3>1, <3>4 DEF SymsOf
      <4> HIDE DEF e
      <4>2. ASSUME NEW c \in calls, e[1] = c[1] PROVE FALSE
        <5>1. PICK y \in view.syms : y.id = c[1] /\ Touched(y.file)
          BY <2>2
        <5>2. y = s
          BY <1>1, <4>1, <4>2, <5>1 DEF Sound, Keyed
        <5> QED
          BY <3>2, <4>1, <5>1, <5>2
      <4>3. e \in view.edges
        BY <2>3, <4>1, <4>2
      <4>4. e \in db.edges
        BY <2>2, <4>3
      <4>5. d.id \in Ids(db)
        BY <1>1, <4>1, <4>4 DEF Sound, Linked
      <4>6. d \in db.syms
        BY <2>8, <4>1, <4>5
      <4> QED
        BY <4>4, <4>6 DEF e
    <3>5. ASSUME NEW s \in SymsOf(db, x), NEW d \in SymsOf(db, x), <<s.id, d.id>> \in db.edges
          PROVE  <<s.id, d.id>> \in db'.edges
      <4> DEFINE e == <<s.id, d.id>>
      <4>1. e \in db.edges /\ e[1] = s.id /\ e[2] = d.id
        BY <3>5
      <4>2. s.id \in Ids(view) /\ d.id \in Ids(view)
        BY <3>1 DEF SymsOf, Ids
      <4> HIDE DEF e
      <4>3. e \in view.edges
        BY <2>2, <4>1, <4>2
      <4> QED
        BY <2>1, <2>3, <4>3 DEF e
    <3>6. \A q \in Scanners : \A c \in job'[q].calls : \A s \in SymsOf(db, x) :
            s.id = c[1] => c \in job[q].calls
      BY <1>3, <2>7
    <3>7. \A q \in Scanners : \A c \in job[q].calls : c[1] \notin Ids(db) => c[1] \notin Ids(db')
      BY <2>1, <2>3, <2>8 DEF Ids
    <3> QED
      BY <1>2, <3>1, <3>2, <3>3, <3>4, <3>5, <3>6, <3>7, FileKept
  <2>13. ASSUME NEW x \in Files, ~SameRows(view, db, x)
         PROVE  /\ Truthful(x)' /\ Bound(x)'
                /\ \A q \in Procs : Rewrites(q, x)' /\ Resolves(q, x)'
    <3>1. /\ Stored(x) /\ db'.hash[x] = view.hash[x] /\ db'.syms = view.syms
          /\ SymsOf(db', x) = SymsOf(view, x)
      BY <2>1, <2>2, <2>3, <2>13 DEF SymsOf
    <3>2. x \notin torn' => \A q \in Procs : ~Rewriting(q, x)'
      BY <1>1, <1>2, <1>3, <3>1 DEF Stored, Rewriting
    <3>3. \A q \in Procs : Rewrites(q, x)'
      BY <3>2 DEF Rewrites
    <3>4. ASSUME NEW q \in Procs PROVE Resolves(q, x)'
      <4> SUFFICES ASSUME pc'[q] = "resolve", job'[q].file = {x}, NEW c \in job'[q].calls, c[1] \in Ids(db')
                   PROVE  FALSE
        BY DEF Resolves
      <4>1. q \in Scanners /\ job'[q] = job[q] /\ ScannerOk(q)
        BY <1>3 DEF Procs, IInv
      <4>2. PICK s \in view.syms : s.id = c[1]
        BY <3>1 DEF Ids
      <4>3. s \in db.syms
        BY <2>8, <4>1, <4>2
      <4>4. s.file = x
        BY <4>1, <4>2, <4>3 DEF ScannerOk
      <4> QED
        BY <3>1, <4>1, <4>2, <4>4 DEF Stored, SymsOf
    <3>5. ASSUME x \notin torn', NEW u \in db'.hash[x]
          PROVE  /\ Named(view, x) = DOMAIN u
                 /\ \A s \in SymsOf(view, x), m \in Called : m \in u[s.name] <=> <<s.id, m>> \in calls
      BY <1>2, <3>1, <3>5 DEF Stored, calls
    <3>6. ASSUME x \notin torn', NEW u \in db'.hash[x], NEW s \in SymsOf(view, x), NEW d \in view.syms
          PROVE  /\ <<s.id, d.id>> \in db'.edges => d.name \in u[s.name]
                 /\ d # s /\ d.name \in u[s.name] /\ Few(d.name) => <<s.id, d.id>> \in db'.edges
      <4>1. s \in view.syms
        BY DEF SymsOf
      <4>2. s.name \in DOMAIN u /\ u \in Contents
        BY <1>1, <3>1, <3>5, <3>6, GraphFields DEF Named
      <4>3. ASSUME <<s.id, d.id>> \in db'.edges PROVE d.name \in u[s.name]
        <5> DEFINE e == <<s.id, d.id>>
        <5>1. e \in h.edges /\ e[1] = s.id /\ e[2] = d.id
          BY <2>1, <4>3
        <5> HIDE DEF e
        <5>2. s.id \notin Ids(db)
          BY <3>1 DEF Stored
        <5>3. e \notin view.edges
          BY <1>1, <2>2, <5>1, <5>2 DEF Sound, Linked
        <5>4. PICK c \in calls : e[1] = c[1] /\ \E y \in view.syms : y.id = e[2] /\ y.name = c[2]
          BY <2>3, <5>1, <5>3
        <5>5. d.name = c[2]
          BY <1>1, <5>1, <5>4 DEF Sound, Keyed
        <5>6. c \in Nat \X Called
          BY <1>1, <5>4
        <5>7. c = <<s.id, d.name>> /\ d.name \in Called
          BY <5>1, <5>4, <5>5, <5>6
        <5> QED
          BY <3>5, <3>6, <5>4, <5>7
      <4>4. ASSUME d # s, d.name \in u[s.name], Few(d.name) PROVE <<s.id, d.id>> \in db'.edges
        <5> DEFINE c == <<s.id, d.name>>
        <5>1. d.name \in Called
          BY <4>2, <4>4 DEF Called
        <5>2. c \in calls /\ c[1] = s.id /\ c[2] = d.name
          BY <3>5, <3>6, <4>4, <5>1
        <5>3. d.id # s.id
          BY <1>1, <4>1, <4>4 DEF Sound, Keyed
        <5> HIDE DEF c
        <5>4. <<c[1], d.id>> \in h.edges
          BY <2>3, <4>4, <5>2, <5>3
        <5> QED
          BY <2>1, <5>2, <5>4
      <4> QED
        BY <4>3, <4>4
    <3>7. Truthful(x)'
      <4> SUFFICES ASSUME x \notin torn', NEW u \in db'.hash[x]
                   PROVE  /\ Named(db', x) = DOMAIN u
                          /\ \A q \in Scanners : \A c \in job'[q].calls : \A s \in SymsOf(db', x) :
                               s.id = c[1] => c[2] \in u[s.name]
                          /\ \A s \in SymsOf(db', x), d \in db'.syms :
                               <<s.id, d.id>> \in db'.edges => d.name \in u[s.name]
        BY DEF Truthful, Steady
      <4>1. Named(db', x) = DOMAIN u
        BY <3>1, <3>5 DEF Named
      <4>2. \A q \in Scanners : \A c \in job'[q].calls : \A s \in SymsOf(db', x) : s.id # c[1]
        BY <1>3, <2>7, <3>1 DEF Stored
      <4> QED
        BY <3>1, <3>6, <4>1, <4>2
    <3>8. Bound(x)'
      <4> SUFFICES ASSUME x \notin torn', NEW u \in db'.hash[x],
                          NEW s \in SymsOf(db', x), NEW d \in SymsOf(db', x),
                          d # s, d.name \in u[s.name], Few(d.name)
                   PROVE  <<s.id, d.id>> \in db'.edges
        BY DEF Bound, Settled
      <4>1. d \in view.syms
        BY <3>1 DEF SymsOf
      <4> QED
        BY <3>1, <3>6, <4>1
    <3> QED
      BY <3>3, <3>4, <3>7, <3>8
  <2> QED
    BY <2>5, <2>6, <2>9, <2>10, <2>11, <2>12, <2>13 DEF IInv
<1> QED
  BY <1>4, <1>5

-----------------------------------------------------------------------------
(* Every step, and what the invariant says of a settled file.              *)
LEMMA NextInv ==
  ASSUME IInv, [Next]_vars
  PROVE  IInv'
<1>1. CASE \E f \in Files : Write(f) \/ NoteEdit(f)
  BY <1>1, FeedsInv
<1>2. CASE TakeElsewhere
  BY <1>2, FeedsInv
<1>3. CASE WatchBatch
  BY <1>3, WatchBatchInv
<1>4. CASE WatchStep
  <2>1. Watcher \in Procs
    BY DEF Procs
  <2> QED
    BY <1>4, <2>1, HashFileInv, CheckAndReadInv, WatchStoreInv, WatchEndInv DEF WatchStep
<1>5. ASSUME NEW p \in Scanners, ScanStep(p) PROVE IInv'
  <2>1. p \in Procs
    BY DEF Procs
  <2>2. CASE RemoveList(p) \/ EndScan(p)
    BY <2>2, StartInv
  <2>3. CASE HashFile(p) \/ CheckAndRead(p)
    BY <2>1, <2>3, HashFileInv, CheckAndReadInv
  <2>4. CASE StoreNode(p) \/ ClearSymbols(p) \/ StoreSymbol(p)
    BY <2>4, StoreNodeInv, ClearSymbolsInv, StoreSymbolInv
  <2>5. CASE ReadNames(p) \/ InsertEdges(p) \/ EdgesRefused(p)
    BY <2>5, ReadNamesInv, InsertEdgesInv, EdgesRefusedInv
  <2> QED
    BY <1>5, <2>2, <2>3, <2>4, <2>5 DEF ScanStep
<1>6. ASSUME NEW p \in Scanners, TakeList(p) \/ Kill(p) \/ \E f \in Files : UpdateFile(p, f)
      PROVE  IInv'
  BY <1>6, StartInv, KillInv
<1>7. CASE UNCHANGED vars
  <2>1. UNCHANGED <<db, pc, job, open, view, wrote, fresh, torn, unbound>>
    BY <1>7 DEF vars
  <2>2. Types'
    BY <1>7 DEF IInv, Types, vars
  <2> QED
    BY <2>1, <2>2, WorldInv
<1> QED
  BY <1>1, <1>2, <1>3, <1>4, <1>5, <1>6, <1>7 DEF Next

\* Whatever the feeds, scans, kills and the watcher's transaction do: scan(),
\* processFile(), resolveAndInsertEdges() and the hooks keep the invariant.
THEOREM Invariance == Spec => []IInv
<1>1. Init => IInv
  BY InitInv
<1>2. IInv /\ [Next]_vars => IInv'
  BY NextInv
<1> QED
  BY <1>1, <1>2, PTL DEF Spec

LEMMA SettledIs ==
  ASSUME NEW f \in Files, Settled(f)
  PROVE  Steady(f) /\ \A p \in Procs : ~Rewriting(p, f)
BY DEF Settled, Steady, Clearing, Touched, Rewriting

LEMMA TypesOK ==
  ASSUME IInv
  PROVE  TypeOK
<1>1. Types /\ Sound(db) /\ TxnOk /\ db \in Graphs
  BY DEF IInv, Types
<1>2. Cardinality(Ids(db)) = Cardinality(db.syms)
  BY <1>1, IdsFinite DEF Sound
<1>3. \A f \in Files : disk[f] \in Texts[f] /\ \A t \in db.hash[f] : t \in Texts[f]
  BY <1>1 DEF Types, Sound, Hashed
<1>4. pc \in [Procs -> {"idle", "unlist", "next", "check", "node", "clear", "symbols", "resolve"}]
  BY <1>1 DEF Types, Places
<1>5. \A p \in Procs : job[p].todo \subseteq Files
  BY <1>1, JobFields
<1>6. list \cup edited \cup events \cup lost \cup torn \cup unbound \subseteq Files
  BY <1>1 DEF Types
<1>7. open \in BOOLEAN /\ wrote \in BOOLEAN /\ (wrote => open /\ fresh[Watcher])
  <2>1. open \in BOOLEAN /\ wrote \in BOOLEAN
    BY <1>1 DEF Types
  <2>2. wrote => fresh[Watcher]
    BY <1>1 DEF TxnOk
  <2>3. fresh[Watcher] => open
    BY <1>1 DEF TxnOk
  <2> QED
    BY <2>1, <2>2, <2>3
<1> QED
  BY <1>2, <1>3, <1>4, <1>5, <1>6, <1>7 DEF TypeOK

\* The symbols stored for a file are those of the text whose hash is stored,
\* each once, unless the file was written between its hash and its read or two
\* scans or a killed one wrote its rows (scanner.cpp, processFile()).
THEOREM SymbolsAreOfTheHash == Spec => []SymbolsOfTheHashedText
<1>1. ASSUME IInv PROVE SymbolsOfTheHashedText
  <2>1. Sound(db) /\ db \in Graphs
    BY <1>1 DEF IInv, Types
  <2>2. ASSUME NEW f \in Files, NEW t \in db.hash[f], Settled(f)
        PROVE  /\ {s.name : s \in SymsOf(db, f)} = DOMAIN t
               /\ Cardinality(SymsOf(db, f)) = Cardinality(DOMAIN t)
    <3> DEFINE S == SymsOf(db, f)
               h == [s \in S |-> s.name]
    <3>1. {s.name : s \in S} = DOMAIN t
      <4>1. Truthful(f)
        BY <1>1 DEF IInv
      <4> QED
        BY <2>2, <4>1, SettledIs DEF Truthful, Named
    <3>2. S \subseteq db.syms /\ \A s \in S : s.file = f
      BY DEF SymsOf
    <3> HIDE DEF S
    <3>3. h \in [S -> DOMAIN t] /\ \A n \in DOMAIN t : \E s \in S : h[s] = n
      BY <3>1
    <3>4. \A s, u \in S : h[s] = h[u] => s = u
      BY <2>1, <3>2 DEF Sound, Keyed
    <3> HIDE DEF h
    <3>5. h \in Bijection(S, DOMAIN t)
      BY <3>3, <3>4, Fun_IsBij
    <3>6. ExistsBijection(S, DOMAIN t)
      BY <3>5 DEF ExistsBijection
    <3>7. IsFiniteSet(db.syms)
      BY <2>1 DEF Sound, Keyed
    <3>8. IsFiniteSet(S)
      BY <3>2, <3>7, FS_Subset
    <3>9. Cardinality(S) = Cardinality(DOMAIN t)
      BY <3>6, <3>8, FS_Bijection
    <3> QED
      BY <3>1, <3>9 DEF S
  <2>3. TypeOK
    BY <1>1, TypesOK
  <2> QED
    BY <2>2, <2>3 DEF SymbolsOfTheHashedText
<1> QED
  BY <1>1, Invariance, PTL

\* A stored call edge joins two stored symbols, and is a call of the stored
\* text; a call inside a file is linked once its scan is through
\* (filterCallTargets(), resolveAndInsertEdges(), the foreign keys).
THEOREM EdgesAreOfTheText == Spec => []EdgesAreCalls
<1>1. ASSUME IInv PROVE EdgesAreCalls
  <2>1. ASSUME NEW e \in db.edges PROVE {e[1], e[2]} \subseteq Ids(db) /\ e[1] # e[2]
    <3>1. e[1] \in Ids(db) /\ e[2] \in Ids(db) /\ e[1] # e[2]
      BY <1>1 DEF IInv, Sound, Linked
    <3> QED
      BY <3>1
  <2>2. ASSUME NEW f \in Files, NEW t \in db.hash[f], Settled(f),
               NEW s \in SymsOf(db, f), NEW d \in db.syms, <<s.id, d.id>> \in db.edges
        PROVE  d.name \in t[s.name]
    <3>1. Truthful(f) /\ Steady(f)
      BY <1>1, <2>2, SettledIs DEF IInv
    <3> QED
      BY <2>2, <3>1 DEF Truthful
  <2>3. ASSUME NEW f \in Files, NEW t \in db.hash[f], Settled(f),
               NEW s \in SymsOf(db, f), NEW d \in db.syms,
               f \notin unbound, \A p \in Procs : ~(pc[p] = "resolve" /\ job[p].file = {f}),
               d.file = f, d # s, d.name \in t[s.name], Few(d.name)
        PROVE  <<s.id, d.id>> \in db.edges
    <3>1. Bound(f)
      BY <1>1 DEF IInv
    <3>2. d \in SymsOf(db, f)
      BY <2>3 DEF SymsOf
    <3> QED
      BY <2>3, <3>1, <3>2 DEF Bound
  <2> QED
    BY <2>1, <2>2, <2>3 DEF EdgesAreCalls, Few
<1> QED
  BY <1>1, Invariance, PTL
=============================================================================
