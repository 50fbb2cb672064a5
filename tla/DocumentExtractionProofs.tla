----------------------- MODULE DocumentExtractionProofs -----------------------
(***************************************************************************)
(* Proofs about DocumentExtraction for every plan, every set of pages, any *)
(* number of re-extractions and every bound.                               *)
(***************************************************************************)
EXTENDS DocumentExtraction, FiniteSetTheorems, SequenceTheorems, NaturalsInduction,
        WellFoundedInduction, TLAPS

-----------------------------------------------------------------------------
(***************************************************************************)
(* The inductive invariant                                                 *)
(***************************************************************************)
Actors == {Run} \cup Passes

Grounded(row) ==
  /\ row.capture \in Captures
  /\ \E e \in DOMAIN Extractors :
       /\ row.table = Extractors[e]
       /\ ShouldExtract(e, captures[row.capture].page)
       /\ row.kind \in Declared[row.table] \/ OpenVocabulary(row.table)
  /\ row.by \in Passes \/ faults = 0 => row.capture \in documents

\* What is in the store, or was before the clean-up took it, fits together.
StoreInv ==
  /\ \A n \in Captures : captures[n].recipe \in recipes
  /\ \A row \in rows \cup cull.culled : Grounded(row)
  /\ IsFiniteSet(rows \cup cull.culled)

\* An extraction is about a page that is there, with drafts its extractor may have.
WorkOK(p, a) ==
  IF a.pc = "extract"
    THEN /\ a.capture \in Captures
         /\ a.todo \subseteq Calls(p, captures[a.capture].page)
         /\ a.left # {} => a.todo # {}
         /\ a.left # {} => LET table == Extractors[Least(a.todo)]
                           IN  \A k \in a.left : k \in Declared[table] \/ OpenVocabulary(table)
         /\ p \in Passes \/ faults = 0 => a.capture \in documents
    ELSE a.todo = {} /\ a.left = {}

\* What a re-extraction has read covers what was stored when it began.
ReadOK(a) ==
  /\ a.pc \in {"idle", "ids", "records"} => a.report = NoReport
  /\ a.pc \in {"ids", "records"} => a.known \subseteq recipes /\ a.before \subseteq HtmlDocuments(a.known)
  /\ a.pc = "records" => a.known \subseteq a.ids
  /\ a.pc \in {"next", "extract"} =>
       /\ a.docs \subseteq documents /\ a.report.considered \subseteq documents
       /\ a.report.unrouted \subseteq a.report.considered
       /\ a.before \subseteq a.docs \cup a.report.considered
       /\ \A n \in a.before : Routed(n, a.known)
       /\ \A n \in a.report.unrouted : ~Routed(n, a.known)
  /\ a.pc = "done" => a.before \subseteq a.report.considered /\ a.before \cap a.report.unrouted = {}

\* What p has stored, also what the clean-up took since.
By(p) == {row \in rows \cup cull.culled : row.by = p}

\* The counters of a re-extraction agree with the store, and no draft it has left
\* is stored already.
CountOK(p, a) ==
  a.pc # "failed" =>
    /\ a.report.extracted = a.report.persisted + a.report.failed + Cardinality(a.left)
    /\ a.report.persisted = Cardinality(By(p))
    /\ \A row \in By(p) : row.capture \in a.report.considered
    /\ a.docs \cap a.report.considered = {}
    /\ a.pc = "extract" =>
         /\ a.capture \in a.report.considered
         /\ \A row \in By(p) :
              row.capture = a.capture => row.kind \notin a.left /\ (a.left = {} => a.todo = {})

\* The clean-up has only read what is there, takes only rows of listings, and misses
\* none of them as long as nothing is stored.
CullInv ==
  /\ cull.pc \in {"idle", "records"} => cull.culled = {} /\ cull.todo = {}
  /\ cull.todo \subseteq rows \cup cull.culled
  /\ \A row \in cull.culled : captures[row.capture].recipe \in ListingUrls
  /\ cull.docs \subseteq documents
  /\ cull.undisturbed =>
       /\ cull.pc = "records" => /\ \A row \in rows : Routed(row.capture, cull.ids)
                                 /\ \A n \in documents : Routed(n, cull.ids)
       /\ cull.pc = "scan" =>
            /\ cull.docs = documents
            /\ cull.failed = 0 =>
                 \A row \in Assertions : row \in cull.todo \/ ~ScoresIndex(documents, row)
  /\ CullIsFinal

Inv ==
  /\ TypeOK /\ StoreInv /\ CullInv
  /\ \A p \in Actors : WorkOK(p, actor[p]) /\ ReadOK(actor[p])
  /\ \A p \in Passes : CountOK(p, actor[p])

USE ExtractionAssumption

-----------------------------------------------------------------------------
(***************************************************************************)
(* Choices: the next extractor, the latest page, and what the records are  *)
(* made of.                                                                *)
(***************************************************************************)
LEMMA ExtractorsAre ==
  /\ DOMAIN Extractors = 1..5
  /\ {Extractors[e] : e \in DOMAIN Extractors}
       = {"assertions", "events", "observations", "attributes", "entities"}
<1>1. DOMAIN Extractors = 1..5
  BY DEF Extractors
<1>2. /\ Extractors[1] = "assertions" /\ Extractors[2] = "events" /\ Extractors[3] = "observations"
      /\ Extractors[4] = "attributes" /\ Extractors[5] = "entities"
  BY DEF Extractors
<1>3. 1..5 = {1, 2, 3, 4, 5}
  OBVIOUS
<1>. HIDE DEF Extractors
<1>. QED
  BY <1>1, <1>2, <1>3

\* Every non-empty set of numbers has a least one.
LEMMA LeastIs ==
  ASSUME NEW S, S \subseteq Nat, S # {}
  PROVE  Least(S) \in S /\ \A m \in S : Least(S) <= m
<1>. DEFINE Before == {ss \in Nat \X Nat : ss[1] < ss[2]}
<1>1. IsWellFoundedOn(Before, Nat)
  BY NatLessThanWellFounded, Zenon DEF OpToRel
<1>. HIDE DEF Before
<1>2. PICK t \in S : \A u \in S : ~(<<u, t>> \in Before)
  BY <1>1, WFMin, Zenon
<1>3. ASSUME NEW u \in S PROVE t <= u
  <2>1. <<u, t>> \notin Before
    BY <1>2
  <2>. QED
    BY <2>1 DEF Before
<1>. QED
  BY <1>3 DEF Least

\* Every non-empty set of pages has a latest one.
LEMMA NewestIs ==
  ASSUME NEW S, NEW b \in Nat, S \subseteq 1..b, S # {}
  PROVE  Newest(S) \in S /\ \A m \in S : m <= Newest(S)
<1>. DEFINE T == {b - n : n \in S}
<1>1. T \subseteq Nat /\ T # {}
  <2>1. \A n \in S : b - n \in Nat
    OBVIOUS
  <2>2. PICK n \in S : TRUE
    OBVIOUS
  <2>3. b - n \in T
    BY <2>2
  <2>. QED
    BY <2>1, <2>3
<1>2. Least(T) \in T /\ \A m \in T : Least(T) <= m
  <2>. HIDE DEF T
  <2>. QED
    BY <1>1, LeastIs
<1>3. PICK x \in S : Least(T) = b - x
  BY <1>2
<1>4. \A m \in S : m <= x
  <2>1. ASSUME NEW m \in S PROVE m <= x
    <3>1. b - m \in T
      OBVIOUS
    <3>2. b - x <= b - m
      BY <1>2, <1>3, <3>1
    <3>. QED
      BY <3>2
  <2>. QED
    BY <2>1
<1>. QED
  BY <1>4 DEF Newest

LEMMA IdleType == Idle \in Actor /\ NoReport \in Report
  BY DEF Idle, Actor, NoReport, Report, None

LEMMA NoCullType == NoCull \in Cull
  BY DEF NoCull, Cull

LEMMA ActorFields ==
  ASSUME NEW a \in Actor
  PROVE  /\ a.pc \in {"idle", "ids", "records", "next", "extract", "done", "failed"}
         /\ a.known \subseteq Recipes /\ a.ids \subseteq Recipes /\ a.docs \subseteq Nat /\ a.capture \in Nat
         /\ a.todo \subseteq DOMAIN Extractors /\ a.left \subseteq Kinds /\ a.before \subseteq Nat
         /\ a.report \in Report
  BY DEF Actor

LEMMA ReportFields ==
  ASSUME NEW r \in Report
  PROVE  /\ r.considered \subseteq Nat /\ r.unrouted \subseteq Nat
         /\ r.extracted \in Nat /\ r.persisted \in Nat /\ r.failed \in Nat
  BY DEF Report

LEMMA CullFields ==
  ASSUME NEW c \in Cull
  PROVE  /\ c.pc \in {"idle", "records", "scan", "done", "failed"} /\ c.ids \subseteq Recipes
         /\ c.todo \subseteq StoredRow /\ c.docs \subseteq Nat /\ c.culled \subseteq StoredRow
         /\ c.failed \in Nat /\ c.undisturbed \in BOOLEAN
  BY DEF Cull

LEMMA CaptureFields ==
  ASSUME TypeOK
  PROVE  /\ Len(captures) \in Nat /\ Captures = 1..Len(captures)
         /\ \A n \in Captures : captures[n] \in [recipe : Recipes, page : Pages, listing : BOOLEAN]
         /\ documents \subseteq Captures
<1>. DEFINE Page == [recipe : Recipes, page : Pages, listing : BOOLEAN]
<1>1. captures \in Seq(Page) /\ documents \subseteq Captures
  BY DEF TypeOK
<1>. HIDE DEF Page
<1>2. Len(captures) \in Nat /\ captures \in [1..Len(captures) -> Page] /\ DOMAIN captures = 1..Len(captures)
  BY <1>1, LenProperties
<1>. QED
  BY <1>1, <1>2 DEF Captures, Page

\* What an extractor may return is finite and among the kinds there are.
LEMMA DraftsAre ==
  ASSUME NEW kinds, kinds \subseteq Kinds, NEW e
  PROVE  /\ validate(e, kinds) \subseteq Kinds /\ IsFiniteSet(validate(e, kinds))
         /\ \A k \in validate(e, kinds) : k \in Declared[e] \/ OpenVocabulary(e)
<1>1. validate(e, kinds) \subseteq Kinds
  BY DEF validate
<1>2. IsFiniteSet(validate(e, kinds))
  BY <1>1, FS_Subset
<1>. QED
  BY <1>1, <1>2 DEF validate

-----------------------------------------------------------------------------
(***************************************************************************)
(* The store only grows, but for rows that the clean-up takes: a page is   *)
(* never another page, and no recipe and no document goes away.            *)
(***************************************************************************)
Grows ==
  /\ Captures \subseteq Captures'
  /\ \A n \in Captures : captures'[n].recipe = captures[n].recipe /\ captures'[n].page = captures[n].page
  /\ recipes \subseteq recipes'
  /\ documents \subseteq documents'
  /\ faults' = 0 => faults = 0

LEMMA GroundedStays ==
  ASSUME Grows, NEW row, Grounded(row)
  PROVE  Grounded(row)'
  BY DEF Grows, Grounded

LEMMA WorkStays ==
  ASSUME Grows, NEW p, actor'[p] = actor[p], WorkOK(p, actor[p])
  PROVE  WorkOK(p, actor[p])'
  BY DEF Grows, WorkOK, Calls

LEMMA ReadStays ==
  ASSUME TypeOK, Grows, NEW p, actor'[p] = actor[p], ReadOK(actor[p])
  PROVE  ReadOK(actor[p])'
<1>1. documents \subseteq Captures
  BY DEF TypeOK
<1>. QED
  BY <1>1 DEF Grows, ReadOK, Routed, HtmlDocuments

LEMMA CountStays ==
  ASSUME NEW p, actor'[p] = actor[p], By(p)' = By(p), CountOK(p, actor[p])
  PROVE  CountOK(p, actor[p])'
  BY DEF CountOK

LEMMA CullStays ==
  ASSUME TypeOK, StoreInv, CullInv, Grows, UNCHANGED <<documents, rows, cull>>
  PROVE  CullInv'
<1>1. documents \subseteq Captures
  BY DEF TypeOK
<1>2. \A row \in rows \cup cull.culled : row.capture \in Captures
  BY DEF StoreInv, Grounded
<1>3. ASSUME NEW docs, docs \subseteq documents, NEW row \in rows, ~ScoresIndex(docs, row)
      PROVE  ~ScoresIndex(docs, row)'
  BY <1>1, <1>2, <1>3 DEF ScoresIndex, latest_document_per_source_id, classify_document, Grows
<1>. QED
  BY <1>1, <1>2, <1>3 DEF CullInv, CullIsFinal, Assertions, Routed, Grows

\* A step of one actor that stores nothing for the others.
LEMMA OneActor ==
  ASSUME Inv, Grows, NEW p \in Actors,
         \A q \in Actors \ {p} : actor'[q] = actor[q],
         \A q \in Passes \ {p} : By(q)' = By(q),
         WorkOK(p, actor[p])', ReadOK(actor[p])', p \in Passes => CountOK(p, actor[p])'
  PROVE  /\ \A q \in Actors : WorkOK(q, actor[q])' /\ ReadOK(actor[q])'
         /\ \A q \in Passes : CountOK(q, actor[q])'
<1>1. ASSUME NEW q \in Actors \ {p} PROVE WorkOK(q, actor[q])' /\ ReadOK(actor[q])'
  BY <1>1, WorkStays, ReadStays DEF Inv
<1>2. ASSUME NEW q \in Passes \ {p} PROVE CountOK(q, actor[q])'
  BY <1>2, CountStays DEF Inv, Actors
<1>. QED
  BY <1>1, <1>2

-----------------------------------------------------------------------------
(***************************************************************************)
(* Steps of the run.                                                       *)
(***************************************************************************)
LEMMA BecomeIs ==
  ASSUME TypeOK, NEW p \in Actors, NEW a \in Actor, Become(p, a)
  PROVE  /\ actor' \in [Actors -> Actor]
         /\ actor'[p] = a
         /\ \A q \in Actors \ {p} : actor'[q] = actor[q]
  BY DEF TypeOK, Become, Actors

LEMMA ActorType ==
  ASSUME TypeOK, NEW p \in Actors
  PROVE  actor[p] \in Actor /\ actor[p].report \in Report
  BY ActorFields DEF TypeOK, Actors

\* A row says nothing of who holds a step back: By(q) depends on rows and culled only.
LEMMA BySame ==
  ASSUME UNCHANGED <<rows, cull>>, NEW q
  PROVE  By(q)' = By(q)
  BY DEF By

LEMMA BySameCulled ==
  ASSUME UNCHANGED rows, cull'.culled = cull.culled, NEW q
  PROVE  By(q)' = By(q)
  BY DEF By

LEMMA GrowsSame ==
  ASSUME UNCHANGED <<recipes, captures, documents>>, faults' = faults \/ Fault, TypeOK
  PROVE  Grows
  BY DEF Grows, Captures, Fault, TypeOK

LEMMA StoreSame ==
  ASSUME StoreInv, Grows, UNCHANGED <<recipes, captures>>,
         rows' \cup cull'.culled = rows \cup cull.culled
  PROVE  StoreInv'
<1>1. \A row \in rows \cup cull.culled : Grounded(row)'
  BY GroundedStays DEF StoreInv
<1>. QED
  BY <1>1 DEF StoreInv, Captures

LEMMA FaultsType ==
  ASSUME TypeOK, faults' = faults \/ Fault
  PROVE  faults' \in 0..MaxFaults
  BY DEF TypeOK, Fault

LEMMA author_recipe_Inv ==
  ASSUME Inv, author_recipe
  PROVE  Inv'
<1>. USE DEF author_recipe
<1>1. TypeOK'
  BY DEF Inv, TypeOK, Captures
<1>2. Grows
  BY DEF Grows, Captures
<1>3. StoreInv'
  <2>1. \A row \in rows \cup cull.culled : Grounded(row)'
    BY <1>2, GroundedStays DEF Inv, StoreInv
  <2>. QED
    BY <2>1 DEF Inv, StoreInv, Captures
<1>4. CullInv'
  BY <1>2, CullStays DEF Inv
<1>5. WorkOK(Run, actor[Run])' /\ ReadOK(actor[Run])'
  BY <1>2, WorkStays, ReadStays DEF Inv, Actors
<1>6. \A q \in Passes : By(q)' = By(q)
  BY BySame
<1>7. Run \in Actors /\ Run \notin Passes
  BY DEF Actors
<1>8. /\ \A q \in Actors : WorkOK(q, actor[q])' /\ ReadOK(actor[q])'
      /\ \A q \in Passes : CountOK(q, actor[q])'
  BY <1>2, <1>5, <1>6, <1>7, OneActor
<1>. QED
  BY <1>1, <1>3, <1>4, <1>8 DEF Inv

LEMMA insert_fetch_document_Inv ==
  ASSUME Inv, insert_fetch_document
  PROVE  Inv'
<1>. DEFINE Page == [recipe : Recipes, page : Pages, listing : BOOLEAN]
<1>. TypeOK /\ StoreInv /\ CullInv
  BY DEF Inv
<1>1. PICK r \in recipes, page \in Pages :
        LET n == Len(captures) + 1
        IN  /\ captures' = Append(captures, [recipe |-> r, page |-> page, listing |-> FALSE])
            /\ Become(Run, [Idle EXCEPT !.pc = "extract", !.capture = n, !.todo = Calls(Run, page)])
            /\ \/ documents' = documents \cup {n} /\ cull' = Disturbed /\ UNCHANGED faults
               \/ Fault /\ UNCHANGED <<documents, cull>>
  BY DEF insert_fetch_document
<1>. DEFINE n == Len(captures) + 1
            new == [recipe |-> r, page |-> page, listing |-> FALSE]
            a == [Idle EXCEPT !.pc = "extract", !.capture = n, !.todo = Calls(Run, page)]
<1>2. UNCHANGED <<recipes, rows>>
  BY DEF insert_fetch_document
<1>3. /\ captures \in Seq(Page) /\ new \in Page /\ Len(captures) \in Nat
      /\ DOMAIN captures = 1..Len(captures)
  BY CaptureFields DEF TypeOK, Captures
<1>4. captures' = Append(captures, new)
  BY <1>1
<1>5. /\ captures' \in Seq(Page) /\ Captures' = 1..n /\ captures'[n] = new
      /\ \A m \in Captures : captures'[m] = captures[m]
  <2>. HIDE DEF Page, new
  <2>1. captures' \in Seq(Page) /\ Len(captures') = n
    BY <1>3, <1>4, AppendProperties
  <2>2. captures'[n] = new /\ \A m \in 1..Len(captures) : captures'[m] = captures[m]
    BY <1>3, <1>4, AppendProperties
  <2>3. DOMAIN captures' = 1..n
    BY <2>1, LenProperties
  <2>. QED
    BY <1>3, <2>1, <2>2, <2>3 DEF Captures
<1>6. documents' \subseteq documents \cup {n} /\ documents \subseteq documents' /\ (n \in documents' \/ Fault)
  BY <1>1
<1>7. faults' = faults \/ Fault
  BY <1>1
<1>8. Grows
  <2>1. Captures \subseteq Captures'
    BY <1>3, <1>5 DEF Captures
  <2>2. faults' = 0 => faults = 0
    BY <1>7 DEF Fault, TypeOK
  <2>. HIDE DEF n
  <2>. QED
    BY <1>2, <1>5, <1>6, <2>1, <2>2 DEF Grows
<1>9. a \in Actor
  <2>1. Calls(Run, page) \subseteq DOMAIN Extractors
    BY DEF Calls
  <2>2. n \in Nat
    BY <1>3
  <2>. HIDE DEF n
  <2>. QED
    BY <2>1, <2>2, IdleType DEF Actor
<1>10. Become(Run, a)
  BY <1>1
<1>11. /\ actor' \in [Actors -> Actor] /\ actor'[Run] = a
       /\ \A q \in Actors \ {Run} : actor'[q] = actor[q]
  <2>. HIDE DEF a
  <2>. QED
    BY <1>9, <1>10, BecomeIs DEF Actors
<1>12. cull' \in Cull /\ cull'.culled = cull.culled
  <2>1. cull \in Cull /\ Disturbed \in Cull /\ Disturbed.culled = cull.culled
    BY DEF TypeOK, Cull, Disturbed
  <2>. QED
    BY <1>1, <2>1
<1>13. TypeOK'
  <2>1. documents' \subseteq Captures'
    BY <1>3, <1>5, <1>6, CaptureFields
  <2>2. faults' \in 0..MaxFaults
    BY <1>7, FaultsType
  <2>. QED
    BY <1>2, <1>5, <1>11, <1>12, <2>1, <2>2 DEF TypeOK, Actors
<1>14. StoreInv'
  <2>1. \A row \in rows \cup cull.culled : Grounded(row)'
    BY <1>8, GroundedStays DEF StoreInv
  <2>2. \A m \in Captures' : captures'[m].recipe \in recipes'
    <3>1. Captures' = Captures \cup {n}
      BY <1>3, <1>5 DEF Captures
    <3>. QED
      BY <1>2, <1>5, <3>1 DEF StoreInv
  <2>. QED
    BY <1>2, <1>12, <2>1, <2>2 DEF StoreInv
<1>15. CullInv'
  <2>1. CASE UNCHANGED <<documents, cull>>
    BY <1>2, <1>8, <2>1, CullStays
  <2>2. CASE cull' = Disturbed
    <3>1. /\ cull'.pc = cull.pc /\ cull'.todo = cull.todo /\ cull'.culled = cull.culled
          /\ cull'.docs = cull.docs /\ cull'.undisturbed = FALSE
      BY <2>2 DEF Disturbed, TypeOK, Cull
    <3>2. \A row \in cull.culled : captures'[row.capture].recipe = captures[row.capture].recipe
      BY <1>8 DEF Grows, StoreInv, Grounded
    <3>. QED
      BY <1>2, <1>6, <3>1, <3>2 DEF CullInv, CullIsFinal
  <2>. QED
    BY <1>1, <2>1, <2>2
<1>16. WorkOK(Run, actor[Run])' /\ ReadOK(actor[Run])'
  <2>. DEFINE b == actor'[Run]
  <2>1. /\ b.pc = "extract" /\ b.capture = n /\ b.todo = Calls(Run, page) /\ b.left = {}
        /\ b.docs = {} /\ b.before = {} /\ b.report = NoReport
    BY <1>11 DEF Idle
  <2>2. n \in Captures' /\ captures'[n].page = page
    BY <1>3, <1>5
  <2>3. Run \in Passes \/ faults' = 0 => n \in documents'
    BY <1>6, <1>7 DEF Fault, TypeOK
  <2>. HIDE DEF a, n
  <2>4. WorkOK(Run, actor[Run])'
    BY <2>1, <2>2, <2>3 DEF WorkOK, Calls
  <2>5. ReadOK(actor[Run])'
    BY <2>1 DEF ReadOK, NoReport
  <2>. QED
    BY <2>4, <2>5
<1>17. \A q \in Passes : By(q)' = By(q)
  BY <1>2, <1>12, BySameCulled
<1>18. Run \in Actors /\ Run \notin Passes
  BY DEF Actors
<1>19. /\ \A q \in Actors : WorkOK(q, actor[q])' /\ ReadOK(actor[q])'
       /\ \A q \in Passes : CountOK(q, actor[q])'
  BY <1>8, <1>11, <1>16, <1>17, <1>18, OneActor
<1>. QED
  BY <1>13, <1>14, <1>15, <1>19 DEF Inv

LEMMA run_css_recipe_Inv ==
  ASSUME Inv, run_css_recipe
  PROVE  Inv'
<1>. DEFINE Page == [recipe : Recipes, page : Pages, listing : BOOLEAN]
            n == actor[Run].capture
            flag == check_index_page(captures[n].recipe, captures[n].page)
            new == [captures[n] EXCEPT !.listing = flag]
<1>. TypeOK /\ StoreInv /\ CullInv
  BY DEF Inv
<1>0. Run \in Actors /\ Run \notin Passes
  BY DEF Actors
<1>1. /\ captures' = [captures EXCEPT ![n].listing = flag] /\ Become(Run, Idle)
      /\ UNCHANGED <<recipes, documents, rows, cull, faults>>
  BY DEF run_css_recipe
<1>2. n \in Captures
  BY <1>0 DEF run_css_recipe, Inv, WorkOK
<1>3. new \in Page /\ new.recipe = captures[n].recipe /\ new.page = captures[n].page
  <2>1. captures[n] \in Page
    BY <1>2, CaptureFields
  <2>2. flag \in BOOLEAN
    BY DEF check_index_page, classify_fetched_bytes
  <2>. HIDE DEF flag, n
  <2>. QED
    BY <2>1, <2>2
<1>4. captures' \in Seq(Page) /\ Captures' = Captures
      /\ \A m \in Captures : captures'[m] = IF m = n THEN new ELSE captures[m]
  <2>1. captures \in Seq(Page) /\ n \in 1..Len(captures) /\ captures' = [captures EXCEPT ![n] = new]
    BY <1>1, <1>2, CaptureFields DEF TypeOK
  <2>. HIDE DEF Page, new, n
  <2>2. /\ captures' \in Seq(Page) /\ Len(captures') = Len(captures)
        /\ \A m \in 1..Len(captures) : captures'[m] = IF m = n THEN new ELSE captures[m]
    BY <1>3, <2>1, ExceptSeq
  <2>. QED
    BY <2>1, <2>2, LenProperties DEF Captures
<1>5. Grows
  <2>. HIDE DEF new, n
  <2>. QED
    BY <1>1, <1>3, <1>4 DEF Grows
<1>6. /\ actor' \in [Actors -> Actor] /\ actor'[Run] = Idle
      /\ \A q \in Actors \ {Run} : actor'[q] = actor[q]
  BY <1>0, <1>1, IdleType, BecomeIs
<1>7. TypeOK'
  BY <1>1, <1>4, <1>6 DEF TypeOK, Actors
<1>8. StoreInv'
  <2>1. \A row \in rows \cup cull.culled : Grounded(row)'
    BY <1>5, GroundedStays DEF StoreInv
  <2>2. \A m \in Captures : captures'[m].recipe \in recipes
    BY <1>5 DEF Grows, StoreInv
  <2>. QED
    BY <1>1, <1>4, <2>1, <2>2 DEF StoreInv
<1>9. CullInv'
  BY <1>1, <1>5, CullStays
<1>10. WorkOK(Run, actor[Run])' /\ ReadOK(actor[Run])'
  BY <1>6 DEF WorkOK, ReadOK, Idle
<1>11. \A q \in Passes : By(q)' = By(q)
  BY <1>1, BySame
<1>12. /\ \A q \in Actors : WorkOK(q, actor[q])' /\ ReadOK(actor[q])'
       /\ \A q \in Passes : CountOK(q, actor[q])'
  BY <1>0, <1>5, <1>6, <1>10, <1>11, OneActor
<1>. QED
  BY <1>7, <1>8, <1>9, <1>12 DEF Inv

-----------------------------------------------------------------------------
(***************************************************************************)
(* Steps of one extraction.                                                *)
(***************************************************************************)

\* A step that changes the locals of one actor and nothing in the store.
LEMMA LocalStep ==
  ASSUME Inv, NEW p \in Actors, NEW a \in Actor, Become(p, a),
         UNCHANGED <<recipes, captures, documents, rows, cull>>, faults' = faults \/ Fault,
         WorkOK(p, actor[p])', ReadOK(actor[p])', p \in Passes => CountOK(p, actor[p])'
  PROVE  Inv'
<1>. TypeOK /\ StoreInv /\ CullInv
  BY DEF Inv
<1>1. actor' \in [Actors -> Actor] /\ \A q \in Actors \ {p} : actor'[q] = actor[q]
  BY BecomeIs
<1>2. Grows
  BY GrowsSame
<1>3. TypeOK'
  BY <1>1, FaultsType DEF TypeOK, Captures, Actors
<1>4. StoreInv'
  BY <1>2, StoreSame
<1>5. CullInv'
  BY <1>2, CullStays
<1>6. \A q \in Passes : By(q)' = By(q)
  BY BySame
<1>7. /\ \A q \in Actors : WorkOK(q, actor[q])' /\ ReadOK(actor[q])'
      /\ \A q \in Passes : CountOK(q, actor[q])'
  BY <1>1, <1>2, <1>6, OneActor
<1>. QED
  BY <1>3, <1>4, <1>5, <1>7 DEF Inv

\* The extractor whose turn it is.
LEMMA TurnIs ==
  ASSUME Inv, NEW p \in Actors, actor[p].pc = "extract", actor[p].todo # {}
  PROVE  /\ Least(actor[p].todo) \in actor[p].todo
         /\ Least(actor[p].todo) \in DOMAIN Extractors
         /\ ShouldExtract(Least(actor[p].todo), captures[actor[p].capture].page)
         /\ p \in Passes => actor[p].todo = {1}
<1>1. actor[p].todo \subseteq DOMAIN Extractors /\ DOMAIN Extractors \subseteq Nat
  BY ActorType, ActorFields, ExtractorsAre DEF Inv
<1>2. actor[p].todo \subseteq Calls(p, captures[actor[p].capture].page)
  BY DEF Inv, WorkOK
<1>3. Least(actor[p].todo) \in actor[p].todo
  BY <1>1, LeastIs
<1>4. p \in Passes => p # Run
  OBVIOUS
<1>. QED
  BY <1>1, <1>2, <1>3, <1>4 DEF Calls, Called

LEMMA extract_from_document_Inv ==
  ASSUME Inv, NEW p \in Actors, extract_from_document(p)
  PROVE  Inv'
<1>. DEFINE a == actor[p]
            e == Least(a.todo)
<1>. TypeOK /\ StoreInv /\ CullInv
  BY DEF Inv
<1>1. /\ a.pc = "extract" /\ a.left = {} /\ a.todo # {}
      /\ UNCHANGED <<recipes, captures, documents, rows, cull, faults>>
  BY DEF extract_from_document
<1>2. /\ a \in Actor /\ a.report \in Report /\ e \in DOMAIN Extractors /\ e \in a.todo
      /\ p \in Passes => a.todo = {1}
  BY <1>1, ActorType, TurnIs
<1>3. WorkOK(p, a) /\ ReadOK(a) /\ (p \in Passes => CountOK(p, a))
  BY DEF Inv
<1>4. p \in Passes => \A row \in By(p) : row.capture # a.capture
  BY <1>1, <1>3 DEF CountOK
<1>5. CASE Become(p, [a EXCEPT !.todo = @ \ {e}])
  <2>. DEFINE b == [a EXCEPT !.todo = @ \ {e}]
  <2>1. b \in Actor
    BY <1>2 DEF Actor
  <2>2. actor'[p] = b
    BY <1>5, <2>1, BecomeIs
  <2>3. /\ b.pc = "extract" /\ b.capture = a.capture /\ b.todo = a.todo \ {e} /\ b.left = {}
        /\ b.docs = a.docs /\ b.before = a.before /\ b.report = a.report /\ b.known = a.known /\ b.ids = a.ids
    BY <1>1, <1>2 DEF Actor
  <2>. HIDE DEF b, a
  <2>4. WorkOK(p, actor[p])'
    BY <1>1, <1>3, <2>2, <2>3 DEF WorkOK, Calls, Captures
  <2>5. ReadOK(actor[p])'
    BY <1>1, <1>3, <2>2, <2>3 DEF ReadOK, Routed
  <2>6. p \in Passes => CountOK(p, actor[p])'
    BY <1>1, <1>3, <1>4, <2>2, <2>3 DEF CountOK, By
  <2>. QED
    BY <1>1, <1>5, <2>1, <2>4, <2>5, <2>6, LocalStep DEF b
<1>6. CASE \E kinds \in SUBSET Kinds :
             LET drafts == validate(Extractors[e], kinds)
             IN  Become(p, [a EXCEPT !.left = drafts,
                                     !.todo = IF drafts = {} THEN @ \ {e} ELSE @,
                                     !.report.extracted = @ + Cardinality(drafts)])
  <2>1. PICK kinds \in SUBSET Kinds :
          LET drafts == validate(Extractors[e], kinds)
          IN  Become(p, [a EXCEPT !.left = drafts,
                                  !.todo = IF drafts = {} THEN @ \ {e} ELSE @,
                                  !.report.extracted = @ + Cardinality(drafts)])
    BY <1>6
  <2>. DEFINE drafts == validate(Extractors[e], kinds)
              rep == [a.report EXCEPT !.extracted = @ + Cardinality(drafts)]
              b == [a EXCEPT !.left = drafts, !.todo = IF drafts = {} THEN @ \ {e} ELSE @, !.report = rep]
  <2>2. /\ drafts \subseteq Kinds /\ IsFiniteSet(drafts)
        /\ \A k \in drafts : k \in Declared[Extractors[e]] \/ OpenVocabulary(Extractors[e])
    BY DraftsAre
  <2>3. Become(p, b)
    BY <2>1
  <2>. HIDE DEF drafts
  <2>4. Cardinality(drafts) \in Nat /\ (drafts = {} => Cardinality(drafts) = 0)
    BY <2>2, FS_CardinalityType, FS_EmptySet
  <2>5. /\ rep \in Report /\ rep.extracted = a.report.extracted + Cardinality(drafts)
        /\ rep.persisted = a.report.persisted /\ rep.failed = a.report.failed
        /\ rep.considered = a.report.considered /\ rep.unrouted = a.report.unrouted
    BY <1>2, <2>4 DEF Report
  <2>. HIDE DEF rep
  <2>6. b \in Actor
    BY <1>2, <2>2, <2>5 DEF Actor
  <2>7. actor'[p] = b
    BY <2>3, <2>6, BecomeIs
  <2>8. /\ b.pc = "extract" /\ b.capture = a.capture /\ b.left = drafts
        /\ b.todo = (IF drafts = {} THEN a.todo \ {e} ELSE a.todo)
        /\ b.docs = a.docs /\ b.before = a.before /\ b.report = rep /\ b.known = a.known /\ b.ids = a.ids
    BY <1>1, <1>2 DEF Actor
  <2>. HIDE DEF b
  <2>9. WorkOK(p, actor[p])'
    BY <1>1, <1>2, <1>3, <2>2, <2>7, <2>8 DEF WorkOK, Calls, Captures
  <2>10. ReadOK(actor[p])'
    BY <1>1, <1>3, <2>5, <2>7, <2>8 DEF ReadOK, Routed
  <2>11. p \in Passes => CountOK(p, actor[p])'
    <3>1. a.report.extracted \in Nat /\ a.report.persisted \in Nat /\ a.report.failed \in Nat
      BY <1>2, ReportFields
    <3>2. Cardinality(a.left) = 0
      BY <1>1, FS_EmptySet
    <3>3. By(p)' = By(p)
      BY <1>1, BySame
    <3>. HIDE DEF a
    <3>4. CASE p \in Passes
      <4>1. rep.extracted = rep.persisted + rep.failed + Cardinality(drafts)
        BY <1>1, <1>3, <2>4, <2>5, <3>1, <3>2, <3>4 DEF CountOK
      <4>. QED
        BY <1>1, <1>3, <1>4, <2>5, <2>7, <2>8, <3>3, <3>4, <4>1 DEF CountOK
    <3>. QED
      BY <3>4
  <2>. QED
    BY <1>1, <2>3, <2>6, <2>9, <2>10, <2>11, LocalStep
<1>. QED
  BY <1>5, <1>6 DEF extract_from_document

\* What is left of an extraction when a draft is off its list.
LEMMA WithoutIs ==
  ASSUME Inv, NEW p \in Actors, actor[p].pc = "extract", actor[p].left # {}
  PROVE  LET a == actor[p]
             k == Draft(p)
             b == Without(a, k)
         IN  /\ k \in a.left /\ a.todo # {}
             /\ b \in Actor /\ b.pc = "extract" /\ b.capture = a.capture /\ b.left = a.left \ {k}
             /\ b.todo \subseteq a.todo /\ (b.left # {} => b.todo = a.todo)
             /\ p \in Passes /\ b.left = {} => b.todo = {}
             /\ b.docs = a.docs /\ b.before = a.before /\ b.report = a.report
             /\ b.known = a.known /\ b.ids = a.ids
<1>. DEFINE a == actor[p]
            k == Draft(p)
            b == Without(a, k)
<1>1. k \in a.left
  BY DEF Draft
<1>2. a.todo # {}
  BY DEF Inv, WorkOK
<1>3. a \in Actor /\ Least(a.todo) \in a.todo /\ (p \in Passes => a.todo = {1})
  BY <1>2, ActorType, TurnIs DEF Inv
<1>4. b \in Actor
  BY <1>3 DEF Without, Actor
<1>5. /\ b.pc = "extract" /\ b.capture = a.capture /\ b.left = a.left \ {k}
      /\ b.todo = (IF a.left = {k} THEN a.todo \ {Least(a.todo)} ELSE a.todo)
      /\ b.docs = a.docs /\ b.before = a.before /\ b.report = a.report
      /\ b.known = a.known /\ b.ids = a.ids
  BY <1>3 DEF Without, Actor
<1>. HIDE DEF a, b, k
<1>6. b.left = {} <=> a.left = {k}
  BY <1>1, <1>5
<1>7. b.todo \subseteq a.todo /\ (b.left # {} => b.todo = a.todo)
  BY <1>5, <1>6
<1>8. p \in Passes /\ b.left = {} => b.todo = {}
  BY <1>3, <1>5, <1>6
<1>. QED
  BY <1>1, <1>2, <1>4, <1>5, <1>7, <1>8 DEF a, b, k

\* The row of a draft is grounded, and p has not stored it before.
LEMMA RowIs ==
  ASSUME Inv, NEW p \in Actors, actor[p].pc = "extract", actor[p].left # {}
  PROVE  /\ Row(p) \in StoredRow /\ Grounded(Row(p))
         /\ Row(p).by = p /\ Row(p).capture = actor[p].capture /\ Row(p).kind = Draft(p)
         /\ p \in Passes => Row(p) \notin By(p)
<1>. DEFINE a == actor[p]
            e == Least(a.todo)
            k == Draft(p)
            row == Row(p)
<1>1. /\ row.capture = a.capture /\ row.by = p /\ row.table = Extractors[e] /\ row.kind = k
      /\ row = [capture |-> a.capture, by |-> p, table |-> Extractors[e], kind |-> k]
  BY DEF Row
<1>2. k \in a.left /\ a.todo # {}
  BY WithoutIs
<1>3. /\ a.capture \in Nat /\ a.left \subseteq Kinds /\ e \in DOMAIN Extractors
      /\ ShouldExtract(e, captures[a.capture].page)
  BY <1>2, ActorType, ActorFields, TurnIs DEF Inv
<1>4. /\ a.capture \in Captures /\ (p \in Passes \/ faults = 0 => a.capture \in documents)
      /\ k \in Declared[Extractors[e]] \/ OpenVocabulary(Extractors[e])
  BY <1>2 DEF Inv, WorkOK
<1>. HIDE DEF a, e, k, row
<1>5. row \in StoredRow
  BY <1>1, <1>2, <1>3 DEF StoredRow, Actors
<1>6. Grounded(row)
  BY <1>1, <1>3, <1>4 DEF Grounded
<1>7. p \in Passes => row \notin By(p)
  <2>1. CASE p \in Passes
    <3>1. \A x \in By(p) : x.capture = a.capture => x.kind \notin a.left
      BY <2>1 DEF Inv, CountOK, a
    <3>. QED
      BY <1>1, <1>2, <3>1
  <2>. QED
    BY <2>1
<1>. QED
  BY <1>1, <1>5, <1>6, <1>7 DEF row, a, k

LEMMA insert_Inv ==
  ASSUME Inv, NEW p \in Actors, insert(p)
  PROVE  Inv'
<1>. DEFINE a == actor[p]
            k == Draft(p)
            w == Without(a, k)
            row == Row(p)
<1>. TypeOK /\ StoreInv /\ CullInv
  BY DEF Inv
<1>1. /\ a.pc = "extract" /\ a.left # {}
      /\ UNCHANGED <<recipes, captures, documents>>
  BY DEF insert
<1>2. /\ a \in Actor /\ k \in a.left /\ a.todo # {} /\ w \in Actor /\ w.pc = "extract"
      /\ w.capture = a.capture /\ w.left = a.left \ {k}
      /\ w.todo \subseteq a.todo /\ (w.left # {} => w.todo = a.todo)
      /\ p \in Passes /\ w.left = {} => w.todo = {}
      /\ w.docs = a.docs /\ w.before = a.before /\ w.report = a.report
      /\ w.known = a.known /\ w.ids = a.ids
  BY <1>1, WithoutIs, ActorType
<1>3. WorkOK(p, a) /\ ReadOK(a) /\ (p \in Passes => CountOK(p, a))
  BY DEF Inv
<1>4. a.report \in Report
  BY ActorType
<1>5. Cardinality(w.left) = Cardinality(a.left) - 1 /\ Cardinality(a.left) \in Nat /\ Cardinality(w.left) \in Nat
  <2>1. IsFiniteSet(a.left) /\ IsFiniteSet(w.left)
    BY <1>2, ActorFields, FS_Subset
  <2>. QED
    BY <1>2, <2>1, FS_RemoveElement, FS_CardinalityType
<1>. HIDE DEF w
<1>6. CASE /\ Become(p, [w EXCEPT !.report.persisted = @ + 1])
           /\ rows' = rows \cup {row}
           /\ cull' = Disturbed
           /\ UNCHANGED faults
  <2>. DEFINE rep == [w.report EXCEPT !.persisted = @ + 1]
              b == [w EXCEPT !.report = rep]
  <2>1. Become(p, b)
    BY <1>6
  <2>2. /\ rep \in Report /\ rep.persisted = a.report.persisted + 1
        /\ rep.extracted = a.report.extracted /\ rep.failed = a.report.failed
        /\ rep.considered = a.report.considered /\ rep.unrouted = a.report.unrouted
    BY <1>2, <1>4 DEF Report
  <2>. HIDE DEF rep
  <2>3. b \in Actor
    BY <1>2, <2>2 DEF Actor
  <2>4. actor' \in [Actors -> Actor] /\ actor'[p] = b /\ \A q \in Actors \ {p} : actor'[q] = actor[q]
    <3>. HIDE DEF b
    <3>. QED
      BY <2>1, <2>3, BecomeIs
  <2>5. /\ b.pc = "extract" /\ b.capture = a.capture /\ b.left = a.left \ {k}
        /\ b.todo = w.todo /\ b.report = rep
        /\ b.docs = a.docs /\ b.before = a.before /\ b.known = a.known /\ b.ids = a.ids
    BY <1>2 DEF Actor
  <2>. HIDE DEF b
  <2>6. /\ row \in StoredRow /\ Grounded(row) /\ row.by = p /\ row.capture = a.capture /\ row.kind = k
        /\ p \in Passes => row \notin By(p)
    BY <1>1, RowIs
  <2>. HIDE DEF row
  <2>7. /\ cull' \in Cull /\ cull'.culled = cull.culled /\ cull'.undisturbed = FALSE
        /\ cull'.pc = cull.pc /\ cull'.todo = cull.todo /\ cull'.docs = cull.docs
    BY <1>6 DEF TypeOK, Cull, Disturbed
  <2>8. Grows
    BY <1>1, <1>6, GrowsSame
  <2>9. TypeOK'
    BY <1>1, <1>6, <2>4, <2>6, <2>7 DEF TypeOK, Captures, Actors
  <2>10. StoreInv'
    <3>1. \A x \in rows \cup cull.culled \cup {row} : Grounded(x)'
      BY <2>6, <2>8, GroundedStays DEF StoreInv
    <3>2. rows' \cup cull'.culled = (rows \cup cull.culled) \cup {row}
      BY <1>6, <2>7
    <3>3. IsFiniteSet(rows' \cup cull'.culled)
      BY <3>2, FS_AddElement DEF StoreInv
    <3>. QED
      BY <1>1, <3>1, <3>2, <3>3 DEF StoreInv, Captures
  <2>11. CullInv'
    BY <1>1, <1>6, <2>7 DEF CullInv, CullIsFinal
  <2>12. By(p)' = By(p) \cup {row} /\ \A q \in Passes \ {p} : By(q)' = By(q)
    BY <1>6, <2>6, <2>7 DEF By
  <2>13. WorkOK(p, actor[p])'
    BY <1>1, <1>2, <1>3, <1>6, <2>4, <2>5 DEF WorkOK, Calls, Captures
  <2>14. ReadOK(actor[p])'
    BY <1>1, <1>3, <2>2, <2>4, <2>5 DEF ReadOK, Routed
  <2>15. p \in Passes => CountOK(p, actor[p])'
    <3>1. CASE p \in Passes
      <4>1. a.report.extracted \in Nat /\ a.report.persisted \in Nat /\ a.report.failed \in Nat
        BY <1>4, ReportFields
      <4>2. IsFiniteSet(By(p))
        BY FS_Subset DEF StoreInv, By
      <4>3. Cardinality(By(p)') = Cardinality(By(p)) + 1
        BY <2>6, <2>12, <3>1, <4>2, FS_AddElement
      <4>4. CountOK(p, a)
        BY <1>3, <3>1
      <4>5. a.report.extracted = rep.persisted + rep.failed + Cardinality(w.left)
        BY <1>1, <1>5, <2>2, <4>1, <4>4 DEF CountOK
      <4>6. rep.persisted = Cardinality(By(p)')
        BY <1>1, <2>2, <4>3, <4>4 DEF CountOK
      <4>7. \A x \in By(p)' : x.capture \in rep.considered
        BY <1>1, <2>2, <2>6, <2>12, <4>4 DEF CountOK
      <4>8. \A x \in By(p)' : x.capture = a.capture => x.kind \notin w.left /\ (w.left = {} => w.todo = {})
        BY <1>1, <1>2, <2>6, <2>12, <3>1, <4>4 DEF CountOK
      <4>. HIDE DEF a
      <4>. QED
        BY <1>1, <1>2, <2>2, <2>4, <2>5, <4>4, <4>5, <4>6, <4>7, <4>8 DEF CountOK
    <3>. QED
      BY <3>1
  <2>16. /\ \A q \in Actors : WorkOK(q, actor[q])' /\ ReadOK(actor[q])'
         /\ \A q \in Passes : CountOK(q, actor[q])'
    BY <2>4, <2>8, <2>12, <2>13, <2>14, <2>15, OneActor
  <2>. QED
    BY <2>9, <2>10, <2>11, <2>16 DEF Inv
<1>7. CASE /\ Fault
           /\ Become(p, [w EXCEPT !.report.failed = @ + 1])
           /\ UNCHANGED <<rows, cull>>
  <2>. DEFINE rep == [w.report EXCEPT !.failed = @ + 1]
              b == [w EXCEPT !.report = rep]
  <2>1. Become(p, b)
    BY <1>7
  <2>2. /\ rep \in Report /\ rep.failed = a.report.failed + 1
        /\ rep.extracted = a.report.extracted /\ rep.persisted = a.report.persisted
        /\ rep.considered = a.report.considered /\ rep.unrouted = a.report.unrouted
    BY <1>2, <1>4 DEF Report
  <2>. HIDE DEF rep
  <2>3. b \in Actor
    BY <1>2, <2>2 DEF Actor
  <2>4. actor'[p] = b
    <3>. HIDE DEF b
    <3>. QED
      BY <2>1, <2>3, BecomeIs
  <2>5. /\ b.pc = "extract" /\ b.capture = a.capture /\ b.left = a.left \ {k}
        /\ b.todo = w.todo /\ b.report = rep
        /\ b.docs = a.docs /\ b.before = a.before /\ b.known = a.known /\ b.ids = a.ids
    BY <1>2 DEF Actor
  <2>. HIDE DEF b, row
  <2>6. faults' = 0 => faults = 0
    BY <1>7 DEF Fault, TypeOK
  <2>7. WorkOK(p, actor[p])'
    BY <1>1, <1>2, <1>3, <2>4, <2>5, <2>6 DEF WorkOK, Calls, Captures
  <2>8. ReadOK(actor[p])'
    BY <1>1, <1>3, <2>2, <2>4, <2>5 DEF ReadOK, Routed
  <2>9. p \in Passes => CountOK(p, actor[p])'
    <3>1. CASE p \in Passes
      <4>1. a.report.extracted \in Nat /\ a.report.persisted \in Nat /\ a.report.failed \in Nat
        BY <1>4, ReportFields
      <4>2. By(p)' = By(p)
        BY <1>7, BySame
      <4>3. CountOK(p, a)
        BY <1>3, <3>1
      <4>4. a.report.extracted = rep.persisted + rep.failed + Cardinality(w.left)
        BY <1>1, <1>5, <2>2, <4>1, <4>3 DEF CountOK
      <4>5. \A x \in By(p) : x.capture = a.capture => x.kind \notin w.left /\ (w.left = {} => w.todo = {})
        BY <1>1, <1>2, <3>1, <4>3 DEF CountOK
      <4>. HIDE DEF a
      <4>. QED
        BY <1>1, <1>2, <2>2, <2>4, <2>5, <4>2, <4>3, <4>4, <4>5 DEF CountOK
    <3>. QED
      BY <3>1
  <2>. QED
    BY <1>1, <1>7, <2>1, <2>3, <2>7, <2>8, <2>9, LocalStep
<1>. QED
  BY <1>6, <1>7 DEF insert, w

-----------------------------------------------------------------------------
(***************************************************************************)
(* Steps of a re-extraction.                                               *)
(***************************************************************************)
LEMMA PassFacts ==
  ASSUME Inv, NEW p \in Passes
  PROVE  /\ p \in Actors /\ actor[p] \in Actor /\ actor[p].report \in Report
         /\ WorkOK(p, actor[p]) /\ ReadOK(actor[p]) /\ CountOK(p, actor[p])
  BY ActorType DEF Inv, Actors

LEMMA load_recipes_for_plan_Inv ==
  ASSUME Inv, NEW p \in Passes, load_recipes_for_plan(p)
  PROVE  Inv'
<1>. DEFINE a == actor[p]
            b == [Idle EXCEPT !.pc = "ids", !.known = recipes, !.before = HtmlDocuments(Recipes)]
<1>1. /\ a.pc = "idle" /\ Become(p, b)
      /\ UNCHANGED <<recipes, captures, documents, rows, cull, faults>>
  BY DEF load_recipes_for_plan
<1>2. p \in Actors /\ ReadOK(a) /\ CountOK(p, a) /\ WorkOK(p, a)
  BY PassFacts
<1>3. HtmlDocuments(Recipes) \subseteq HtmlDocuments(recipes) /\ HtmlDocuments(Recipes) \subseteq Nat
  BY CaptureFields DEF Inv, TypeOK, StoreInv, HtmlDocuments, Routed
<1>4. b \in Actor
  BY <1>3, IdleType DEF Actor, Inv, TypeOK
<1>5. actor'[p] = b
  <2>. HIDE DEF b
  <2>. QED
    BY <1>1, <1>2, <1>4, BecomeIs DEF Inv
<1>6. /\ b.pc = "ids" /\ b.known = recipes /\ b.before = HtmlDocuments(Recipes) /\ b.todo = {}
      /\ b.left = {} /\ b.docs = {} /\ b.report = NoReport
  BY DEF Idle
<1>. HIDE DEF b
<1>7. WorkOK(p, actor[p])'
  BY <1>5, <1>6 DEF WorkOK
<1>8. ReadOK(actor[p])'
  BY <1>1, <1>3, <1>5, <1>6 DEF ReadOK, HtmlDocuments, Routed
<1>9. CountOK(p, actor[p])'
  <2>1. a.report = NoReport /\ a.left = {}
    BY <1>1, <1>2 DEF ReadOK, WorkOK
  <2>2. By(p)' = By(p)
    BY <1>1, BySame
  <2>. QED
    BY <1>1, <1>2, <1>5, <1>6, <2>1, <2>2 DEF CountOK
<1>. QED
  BY <1>1, <1>2, <1>4, <1>7, <1>8, <1>9, LocalStep

LEMMA recipes_for_plan_Inv ==
  ASSUME Inv, NEW p \in Passes, recipes_for_plan(p)
  PROVE  Inv'
<1>. DEFINE a == actor[p]
            b == [a EXCEPT !.pc = "records", !.ids = recipes]
<1>1. /\ a.pc = "ids" /\ Become(p, b)
      /\ UNCHANGED <<recipes, captures, documents, rows, cull, faults>>
  BY DEF recipes_for_plan
<1>2. p \in Actors /\ a \in Actor /\ ReadOK(a) /\ CountOK(p, a) /\ WorkOK(p, a)
  BY PassFacts
<1>3. b \in Actor
  BY <1>2 DEF Actor, Inv, TypeOK
<1>4. actor'[p] = b
  <2>. HIDE DEF b
  <2>. QED
    BY <1>1, <1>2, <1>3, BecomeIs DEF Inv
<1>5. /\ b.pc = "records" /\ b.ids = recipes /\ b.known = a.known /\ b.before = a.before
      /\ b.todo = a.todo /\ b.left = a.left /\ b.docs = a.docs /\ b.report = a.report
  BY <1>2 DEF Actor
<1>. HIDE DEF a, b
<1>6. WorkOK(p, actor[p])'
  BY <1>1, <1>2, <1>4, <1>5 DEF WorkOK
<1>7. ReadOK(actor[p])'
  BY <1>1, <1>2, <1>4, <1>5 DEF ReadOK, HtmlDocuments, Routed
<1>8. CountOK(p, actor[p])'
  <2>1. By(p)' = By(p)
    BY <1>1, BySame
  <2>. QED
    BY <1>1, <1>2, <1>4, <1>5, <2>1 DEF CountOK
<1>. QED
  BY <1>1, <1>2, <1>3, <1>6, <1>7, <1>8, LocalStep

\* The two lists of a pass agree on what was stored before it began.
LEMMA records_for_plan_Inv ==
  ASSUME Inv, NEW p \in Passes, records_for_plan(p)
  PROVE  Inv'
<1>. DEFINE a == actor[p]
            html == HtmlDocuments(a.ids)
            b == [a EXCEPT !.pc = "next", !.ids = {}]
<1>1. /\ a.pc = "records"
      /\ Become(p, [b EXCEPT !.docs = html])
         \/ \E n \in documents : Become(p, [b EXCEPT !.docs = html \cap {n}, !.before = @ \cap {n}])
      /\ UNCHANGED <<recipes, captures, documents, rows, cull, faults>>
  BY DEF records_for_plan
<1>2. p \in Actors /\ a \in Actor /\ ReadOK(a) /\ CountOK(p, a) /\ WorkOK(p, a)
  BY PassFacts
<1>3. PICK S : Become(p, [b EXCEPT !.docs = html \cap S, !.before = @ \cap S])
  <2>1. CASE Become(p, [b EXCEPT !.docs = html])
    <3>1. a.before \subseteq Nat
      BY <1>2, ActorFields
    <3>2. html \subseteq Nat
      BY CaptureFields DEF HtmlDocuments, Inv
    <3>3. html \cap Nat = html /\ b.before \cap Nat = b.before
      BY <1>2, <3>1, <3>2 DEF Actor
    <3>4. [b EXCEPT !.docs = html \cap Nat, !.before = @ \cap Nat] = [b EXCEPT !.docs = html]
      <4>. HIDE DEF html
      <4>. QED
        BY <1>2, <3>3 DEF Actor
    <3>. QED
      BY <2>1, <3>4
  <2>2. CASE \E n \in documents : Become(p, [b EXCEPT !.docs = html \cap {n}, !.before = @ \cap {n}])
    BY <2>2
  <2>. QED
    BY <1>1, <2>1, <2>2
<1>. DEFINE c == [b EXCEPT !.docs = html \cap S, !.before = @ \cap S]
<1>4. html \subseteq documents /\ documents \subseteq Nat
  BY CaptureFields DEF HtmlDocuments, Inv
<1>. HIDE DEF html
<1>5. c \in Actor
  BY <1>2, <1>4 DEF Actor
<1>6. actor'[p] = c
  <2>. HIDE DEF c
  <2>. QED
    BY <1>2, <1>3, <1>5, BecomeIs DEF Inv, c
<1>7. /\ c.pc = "next" /\ c.known = a.known /\ c.before = a.before \cap S
      /\ c.todo = a.todo /\ c.left = a.left /\ c.docs = html \cap S /\ c.report = a.report
  BY <1>2 DEF Actor
<1>8. Become(p, c)
  BY <1>3
<1>. HIDE DEF a, b, c
<1>9. a.report = NoReport /\ a.todo = {} /\ a.left = {}
  BY <1>1, <1>2 DEF ReadOK, WorkOK
<1>10. a.report.considered = {} /\ a.report.unrouted = {}
  BY <1>9 DEF NoReport
<1>11. WorkOK(p, actor[p])'
  BY <1>6, <1>7, <1>9 DEF WorkOK
<1>12. ReadOK(actor[p])'
  <2>1. a.before \subseteq html
    BY <1>1, <1>2 DEF ReadOK, HtmlDocuments, Routed, html
  <2>2. \A n \in a.before : Routed(n, a.known)
    BY <1>1, <1>2 DEF ReadOK, HtmlDocuments
  <2>3. \A n \in c.before : captures'[n].recipe \in c.known
    BY <1>1, <1>7, <2>2 DEF Routed
  <2>4. c.before \subseteq c.docs /\ c.docs \subseteq documents'
    BY <1>1, <1>4, <1>7, <2>1
  <2>5. c.pc = "next" /\ c.report.considered = {} /\ c.report.unrouted = {}
    BY <1>7, <1>10
  <2>. QED
    BY <1>6, <2>3, <2>4, <2>5 DEF ReadOK, Routed
<1>13. CountOK(p, actor[p])'
  <2>1. By(p)' = By(p)
    BY <1>1, BySame
  <2>2. c.pc = "next" /\ c.left = a.left /\ c.report = a.report
    BY <1>7
  <2>3. a.pc = "records" /\ CountOK(p, a)
    BY <1>1, <1>2
  <2>. QED
    BY <1>6, <1>10, <2>1, <2>2, <2>3 DEF CountOK
<1>. QED
  BY <1>1, <1>2, <1>5, <1>8, <1>11, <1>12, <1>13, LocalStep

LEMMA next_document_Inv ==
  ASSUME Inv, NEW p \in Passes, next_document(p)
  PROVE  Inv'
<1>. DEFINE a == actor[p]
            n == Newest(a.docs)
            rep == [a.report EXCEPT !.considered = @ \cup {n}]
            repu == [rep EXCEPT !.unrouted = @ \cup {n}]
            b == [a EXCEPT !.docs = @ \ {n}, !.report = rep]
            read == [b EXCEPT !.pc = "extract", !.capture = n, !.todo = Calls(p, captures[n].page)]
            skip == [b EXCEPT !.report = repu]
<1>. TypeOK /\ StoreInv /\ CullInv
  BY DEF Inv
<1>1. /\ a.pc = "next" /\ a.docs # {}
      /\ Become(p, IF Routed(n, a.known) THEN read ELSE skip)
      /\ UNCHANGED <<recipes, captures, documents, rows, cull, faults>>
  BY DEF next_document
<1>2. /\ p \in Actors /\ a \in Actor /\ a.report \in Report /\ ReadOK(a) /\ CountOK(p, a) /\ WorkOK(p, a)
  BY PassFacts
<1>3. a.docs \subseteq documents /\ documents \subseteq Captures
  BY <1>1, <1>2 DEF ReadOK, TypeOK
<1>4. n \in a.docs
  BY <1>1, <1>3, CaptureFields, NewestIs
<1>5. n \in Nat /\ n \in Captures /\ n \in documents
  BY <1>2, <1>3, <1>4, ActorFields
<1>6. By(p)' = By(p)
  BY <1>1, BySame
<1>. HIDE DEF n
<1>7. /\ rep \in Report /\ rep.considered = a.report.considered \cup {n} /\ rep.unrouted = a.report.unrouted
      /\ rep.extracted = a.report.extracted /\ rep.persisted = a.report.persisted /\ rep.failed = a.report.failed
      /\ repu \in Report /\ repu.considered = a.report.considered \cup {n}
      /\ repu.unrouted = a.report.unrouted \cup {n}
      /\ repu.extracted = a.report.extracted /\ repu.persisted = a.report.persisted
      /\ repu.failed = a.report.failed
  BY <1>2, <1>5 DEF Report
<1>. HIDE DEF rep, repu
<1>8. Calls(p, captures[n].page) \subseteq DOMAIN Extractors
  BY ExtractorsAre DEF Calls
<1>9. /\ a.todo = {} /\ a.left = {} /\ a.docs \cap a.report.considered = {}
      /\ \A row \in By(p) : row.capture \in a.report.considered
  BY <1>1, <1>2 DEF WorkOK, CountOK
<1>10. CASE Routed(n, a.known)
  <2>1. read \in Actor
    BY <1>2, <1>5, <1>7, <1>8 DEF Actor
  <2>2. actor'[p] = read
    <3>. HIDE DEF read
    <3>. QED
      BY <1>1, <1>2, <1>10, <2>1, BecomeIs
  <2>3. /\ read.pc = "extract" /\ read.capture = n /\ read.todo = Calls(p, captures[n].page)
        /\ read.left = a.left /\ read.docs = a.docs \ {n} /\ read.report = rep
        /\ read.before = a.before /\ read.known = a.known
    BY <1>2 DEF Actor
  <2>. HIDE DEF read, a
  <2>4. WorkOK(p, actor[p])'
    BY <1>1, <1>5, <1>9, <2>2, <2>3 DEF WorkOK, Captures, Calls
  <2>5. ReadOK(actor[p])'
    BY <1>1, <1>2, <1>4, <1>5, <1>7, <2>2, <2>3 DEF ReadOK, Routed
  <2>6. CountOK(p, actor[p])'
    <3>1. \A row \in By(p) : row.capture # n
      BY <1>4, <1>9
    <3>. QED
      BY <1>1, <1>2, <1>6, <1>7, <1>9, <2>2, <2>3, <3>1 DEF CountOK
  <2>. QED
    BY <1>1, <1>2, <1>10, <2>1, <2>4, <2>5, <2>6, LocalStep
<1>11. CASE ~Routed(n, a.known)
  <2>1. skip \in Actor
    BY <1>2, <1>5, <1>7 DEF Actor
  <2>2. actor'[p] = skip
    <3>. HIDE DEF skip
    <3>. QED
      BY <1>1, <1>2, <1>11, <2>1, BecomeIs
  <2>3. /\ skip.pc = "next" /\ skip.capture = a.capture /\ skip.todo = a.todo
        /\ skip.left = a.left /\ skip.docs = a.docs \ {n} /\ skip.report = repu
        /\ skip.before = a.before /\ skip.known = a.known
    BY <1>1, <1>2 DEF Actor
  <2>. HIDE DEF skip, a
  <2>4. WorkOK(p, actor[p])'
    BY <1>9, <2>2, <2>3 DEF WorkOK
  <2>5. ReadOK(actor[p])'
    BY <1>1, <1>2, <1>4, <1>5, <1>7, <1>11, <2>2, <2>3 DEF ReadOK, Routed
  <2>6. CountOK(p, actor[p])'
    BY <1>1, <1>2, <1>6, <1>7, <1>9, <2>2, <2>3 DEF CountOK
  <2>. QED
    BY <1>1, <1>2, <1>11, <2>1, <2>4, <2>5, <2>6, LocalStep
<1>. QED
  BY <1>10, <1>11

LEMMA document_done_Inv ==
  ASSUME Inv, NEW p \in Passes, document_done(p)
  PROVE  Inv'
<1>. DEFINE a == actor[p]
            b == [a EXCEPT !.pc = "next", !.capture = None]
<1>1. /\ a.pc = "extract" /\ a.todo = {} /\ Become(p, b)
      /\ UNCHANGED <<recipes, captures, documents, rows, cull, faults>>
  BY DEF document_done
<1>2. p \in Actors /\ a \in Actor /\ ReadOK(a) /\ CountOK(p, a) /\ WorkOK(p, a)
  BY PassFacts
<1>3. b \in Actor
  BY <1>2 DEF Actor, None
<1>4. actor'[p] = b
  <2>. HIDE DEF b
  <2>. QED
    BY <1>1, <1>2, <1>3, BecomeIs DEF Inv
<1>5. /\ b.pc = "next" /\ b.known = a.known /\ b.before = a.before
      /\ b.todo = a.todo /\ b.left = a.left /\ b.docs = a.docs /\ b.report = a.report
  BY <1>2 DEF Actor
<1>. HIDE DEF a, b
<1>6. WorkOK(p, actor[p])'
  BY <1>1, <1>2, <1>4, <1>5 DEF WorkOK
<1>7. ReadOK(actor[p])'
  BY <1>1, <1>2, <1>4, <1>5 DEF ReadOK, Routed
<1>8. CountOK(p, actor[p])'
  <2>1. By(p)' = By(p)
    BY <1>1, BySame
  <2>. QED
    BY <1>1, <1>2, <1>4, <1>5, <2>1 DEF CountOK
<1>. QED
  BY <1>1, <1>2, <1>3, <1>6, <1>7, <1>8, LocalStep

LEMMA reextract_done_Inv ==
  ASSUME Inv, NEW p \in Passes, reextract_done(p)
  PROVE  Inv'
<1>. DEFINE a == actor[p]
            b == [Idle EXCEPT !.pc = "done", !.before = a.before, !.report = a.report]
<1>1. /\ a.pc = "next" /\ a.docs = {} /\ Become(p, b)
      /\ UNCHANGED <<recipes, captures, documents, rows, cull, faults>>
  BY DEF reextract_done
<1>2. p \in Actors /\ a \in Actor /\ a.report \in Report /\ ReadOK(a) /\ CountOK(p, a) /\ WorkOK(p, a)
  BY PassFacts
<1>3. b \in Actor
  BY <1>2, IdleType, ActorFields DEF Actor
<1>4. actor'[p] = b
  <2>. HIDE DEF b
  <2>. QED
    BY <1>1, <1>2, <1>3, BecomeIs DEF Inv
<1>5. /\ b.pc = "done" /\ b.before = a.before /\ b.todo = {} /\ b.left = {} /\ b.docs = {}
      /\ b.report = a.report
  BY DEF Idle
<1>. HIDE DEF a, b
<1>6. WorkOK(p, actor[p])'
  BY <1>4, <1>5 DEF WorkOK
<1>7. ReadOK(actor[p])'
  BY <1>1, <1>2, <1>4, <1>5 DEF ReadOK
<1>8. CountOK(p, actor[p])'
  <2>1. By(p)' = By(p)
    BY <1>1, BySame
  <2>2. a.left = {}
    BY <1>1, <1>2 DEF WorkOK
  <2>. QED
    BY <1>1, <1>2, <1>4, <1>5, <2>1, <2>2 DEF CountOK
<1>. QED
  BY <1>1, <1>2, <1>3, <1>6, <1>7, <1>8, LocalStep

LEMMA reextract_fails_Inv ==
  ASSUME Inv, NEW p \in Passes, reextract_fails(p)
  PROVE  Inv'
<1>. DEFINE b == [Idle EXCEPT !.pc = "failed"]
<1>1. Fault /\ Become(p, b) /\ UNCHANGED <<recipes, captures, documents, rows, cull>>
  BY DEF reextract_fails
<1>2. p \in Actors
  BY DEF Actors
<1>3. b \in Actor /\ b.pc = "failed" /\ b.todo = {} /\ b.left = {}
  BY IdleType DEF Actor, Idle
<1>. HIDE DEF b
<1>4. actor'[p] = b
  BY <1>1, <1>2, <1>3, BecomeIs DEF Inv
<1>5. WorkOK(p, actor[p])' /\ ReadOK(actor[p])' /\ CountOK(p, actor[p])'
  BY <1>3, <1>4 DEF WorkOK, ReadOK, CountOK
<1>. QED
  BY <1>1, <1>2, <1>3, <1>5, LocalStep

-----------------------------------------------------------------------------
(***************************************************************************)
(* Steps of the clean-up.                                                  *)
(***************************************************************************)
LEMMA CullStep ==
  ASSUME Inv, UNCHANGED <<recipes, captures, documents, actor>>, faults' = faults \/ Fault,
         rows' \subseteq rows, rows' \cup cull'.culled = rows \cup cull.culled,
         cull' \in Cull, CullInv'
  PROVE  Inv'
<1>. TypeOK /\ StoreInv
  BY DEF Inv
<1>1. Grows
  BY GrowsSame
<1>2. TypeOK'
  BY FaultsType DEF TypeOK, Captures
<1>3. StoreInv'
  BY <1>1, StoreSame
<1>4. \A q \in Passes : By(q)' = By(q)
  BY DEF By
<1>5. Run \in Actors /\ Run \notin Passes
  BY DEF Actors
<1>6. WorkOK(Run, actor[Run])' /\ ReadOK(actor[Run])'
  BY <1>1, <1>5, WorkStays, ReadStays DEF Inv
<1>7. /\ \A q \in Actors : WorkOK(q, actor[q])' /\ ReadOK(actor[q])'
      /\ \A q \in Passes : CountOK(q, actor[q])'
  BY <1>1, <1>4, <1>5, <1>6, OneActor
<1>. QED
  BY <1>2, <1>3, <1>7 DEF Inv

LEMMA cull_recipes_for_plan_Inv ==
  ASSUME Inv, cull_recipes_for_plan
  PROVE  Inv'
<1>. DEFINE c == [NoCull EXCEPT !.pc = "records", !.ids = recipes, !.undisturbed = TRUE]
<1>. TypeOK /\ StoreInv /\ CullInv
  BY DEF Inv
<1>1. /\ cull.pc = "idle" /\ cull' = c
      /\ UNCHANGED <<recipes, captures, documents, rows, actor, faults>>
  BY DEF cull_recipes_for_plan
<1>2. c \in Cull
  BY NoCullType DEF Cull, TypeOK
<1>3. /\ c.pc = "records" /\ c.ids = recipes /\ c.todo = {} /\ c.docs = {} /\ c.culled = {}
  BY DEF NoCull
<1>. HIDE DEF c
<1>4. cull.culled = {}
  BY <1>1 DEF CullInv
<1>5. /\ \A row \in rows : captures[row.capture].recipe \in recipes
      /\ \A n \in documents : captures[n].recipe \in recipes
  BY DEF StoreInv, Grounded, TypeOK
<1>6. CullInv'
  BY <1>1, <1>3, <1>5 DEF CullInv, CullIsFinal, Routed
<1>. QED
  BY <1>1, <1>2, <1>3, <1>4, <1>6, CullStep

LEMMA cull_records_for_plan_Inv ==
  ASSUME Inv, cull_records_for_plan
  PROVE  Inv'
<1>. DEFINE todo == {row \in Assertions : Routed(row.capture, cull.ids)}
            docs == {n \in documents : Routed(n, cull.ids)}
            c == [cull EXCEPT !.pc = "scan", !.ids = {}, !.todo = todo, !.docs = docs]
<1>. TypeOK /\ StoreInv /\ CullInv
  BY DEF Inv
<1>1. /\ cull.pc = "records" /\ cull' = c
      /\ UNCHANGED <<recipes, captures, documents, rows, actor, faults>>
  BY DEF cull_records_for_plan
<1>2. todo \subseteq rows /\ docs \subseteq documents /\ rows \subseteq StoredRow /\ documents \subseteq Nat
  BY CaptureFields DEF Assertions, TypeOK
<1>3. cull.undisturbed => todo = Assertions /\ docs = documents
  BY <1>1 DEF CullInv, Assertions
<1>. HIDE DEF todo, docs
<1>4. c \in Cull
  BY <1>2 DEF Cull, TypeOK
<1>5. /\ c.pc = "scan" /\ c.todo = todo /\ c.docs = docs /\ c.culled = cull.culled
      /\ c.undisturbed = cull.undisturbed /\ c.failed = cull.failed
  BY DEF TypeOK, Cull
<1>. HIDE DEF c
<1>6. cull.culled = {}
  BY <1>1 DEF CullInv
<1>7. Assertions' = Assertions
  BY <1>1 DEF Assertions
<1>8. CullInv'
  BY <1>1, <1>2, <1>3, <1>5, <1>6, <1>7 DEF CullInv, CullIsFinal
<1>. QED
  BY <1>1, <1>4, <1>5, <1>8, CullStep

LEMMA cull_fails_Inv ==
  ASSUME Inv, cull_fails
  PROVE  Inv'
<1>. DEFINE c == [NoCull EXCEPT !.pc = "failed"]
<1>1. /\ cull.pc = "records" /\ Fault /\ cull' = c
      /\ UNCHANGED <<recipes, captures, documents, rows, actor>>
  BY DEF cull_fails
<1>2. c \in Cull
  BY NoCullType DEF Cull
<1>3. c.pc = "failed" /\ c.todo = {} /\ c.docs = {} /\ c.culled = {} /\ c.undisturbed = FALSE
  BY DEF NoCull
<1>. HIDE DEF c
<1>4. cull.culled = {}
  BY <1>1 DEF Inv, CullInv
<1>5. CullInv'
  BY <1>1, <1>3 DEF CullInv, CullIsFinal
<1>. QED
  BY <1>1, <1>2, <1>3, <1>4, <1>5, CullStep

\* Only a recipe whose path says so makes a row score as one of a listing.
LEMMA ScoresListing ==
  ASSUME NEW docs, NEW row, ScoresIndex(docs, row)
  PROVE  captures[row.capture].recipe \in ListingUrls
  BY DEF ScoresIndex, latest_document_per_source_id, classify_document

LEMMA ScoresSame ==
  ASSUME UNCHANGED captures, NEW docs, NEW row
  PROVE  ScoresIndex(docs, row)' <=> ScoresIndex(docs, row)
  BY DEF ScoresIndex, latest_document_per_source_id

LEMMA cull_next_Inv ==
  ASSUME Inv, cull_next
  PROVE  Inv'
<1>. DEFINE row  == CHOOSE x \in cull.todo : TRUE
            next == [cull EXCEPT !.todo = @ \ {row}]
<1>. TypeOK /\ StoreInv /\ CullInv
  BY DEF Inv
<1>1. cull.pc = "scan" /\ UNCHANGED <<recipes, captures, documents, actor>>
  BY DEF cull_next
<1>2. row \in cull.todo /\ row \in rows \cup cull.culled
  BY DEF cull_next, CullInv
<1>3. cull \in Cull /\ row \in StoredRow
  BY <1>2, CullFields DEF TypeOK
<1>4. \/ ~ScoresIndex(cull.docs, row) /\ cull' = next /\ UNCHANGED <<rows, faults>>
      \/ /\ ScoresIndex(cull.docs, row)
         /\ rows' = rows \ {row} /\ cull' = [next EXCEPT !.culled = @ \cup {row}] /\ UNCHANGED faults
      \/ Fault /\ cull' = [next EXCEPT !.failed = @ + 1] /\ UNCHANGED rows
  BY DEF cull_next
<1>. HIDE DEF row
<1>5. /\ next \in Cull /\ next.pc = "scan" /\ next.todo = cull.todo \ {row} /\ next.docs = cull.docs
      /\ next.culled = cull.culled /\ next.failed = cull.failed /\ next.undisturbed = cull.undisturbed
  BY <1>1, <1>3 DEF Cull
<1>. HIDE DEF next
<1>6. /\ cull.undisturbed => cull.docs = documents
      /\ cull.undisturbed /\ cull.failed = 0 =>
           \A x \in Assertions : x \in cull.todo \/ ~ScoresIndex(documents, x)
  BY <1>1 DEF CullInv
<1>7. CASE ~ScoresIndex(cull.docs, row) /\ cull' = next /\ UNCHANGED <<rows, faults>>
  <2>1. Assertions' = Assertions
    BY <1>7 DEF Assertions
  <2>2. cull.undisturbed /\ cull.failed = 0 =>
          \A x \in Assertions : x \in next.todo \/ ~ScoresIndex(documents, x)'
    BY <1>1, <1>5, <1>6, <1>7, ScoresSame
  <2>3. CullInv'
    BY <1>1, <1>5, <1>6, <1>7, <2>1, <2>2 DEF CullInv, CullIsFinal
  <2>. QED
    BY <1>1, <1>5, <1>7, <2>3, CullStep
<1>8. CASE /\ ScoresIndex(cull.docs, row)
           /\ rows' = rows \ {row} /\ cull' = [next EXCEPT !.culled = @ \cup {row}] /\ UNCHANGED faults
  <2>. DEFINE c == cull'
  <2>1. c \in Cull /\ c.pc = "scan" /\ c.todo = cull.todo \ {row} /\ c.docs = cull.docs
        /\ c.culled = cull.culled \cup {row} /\ c.failed = cull.failed /\ c.undisturbed = cull.undisturbed
    BY <1>3, <1>5, <1>8 DEF Cull
  <2>. HIDE DEF c
  <2>2. c = cull'
    BY DEF c
  <2>3. Assertions' = Assertions \ {row}
    BY <1>8 DEF Assertions
  <2>4. cull.undisturbed /\ cull.failed = 0 =>
          \A x \in Assertions' : x \in c.todo \/ ~ScoresIndex(documents, x)'
    BY <1>1, <1>6, <2>1, <2>3, ScoresSame
  <2>5. \A x \in c.culled : captures[x.capture].recipe \in ListingUrls
    BY <1>8, <2>1, ScoresListing DEF CullInv
  <2>6. c.todo \subseteq rows' \cup c.culled /\ rows' \cup c.culled = rows \cup cull.culled
    BY <1>2, <1>8, <2>1 DEF CullInv
  <2>7. CullInv'
    BY <1>1, <1>6, <2>1, <2>2, <2>4, <2>5, <2>6 DEF CullInv, CullIsFinal
  <2>. QED
    BY <1>1, <1>8, <2>1, <2>2, <2>6, <2>7, CullStep
<1>9. CASE Fault /\ cull' = [next EXCEPT !.failed = @ + 1] /\ UNCHANGED rows
  <2>. DEFINE c == cull'
  <2>1. c \in Cull /\ c.pc = "scan" /\ c.todo = cull.todo \ {row} /\ c.docs = cull.docs
        /\ c.culled = cull.culled /\ c.failed # 0 /\ c.undisturbed = cull.undisturbed
    BY <1>3, <1>5, <1>9 DEF Cull
  <2>. HIDE DEF c
  <2>2. c = cull'
    BY DEF c
  <2>3. CullInv'
    BY <1>1, <1>6, <1>9, <2>1, <2>2 DEF CullInv, CullIsFinal
  <2>. QED
    BY <1>1, <1>9, <2>1, <2>2, <2>3, CullStep
<1>. QED
  BY <1>4, <1>7, <1>8, <1>9

LEMMA cull_done_Inv ==
  ASSUME Inv, cull_done
  PROVE  Inv'
<1>. DEFINE c == [cull EXCEPT !.pc = "done", !.docs = {}]
<1>. TypeOK /\ StoreInv /\ CullInv
  BY DEF Inv
<1>1. /\ cull.pc = "scan" /\ cull.todo = {} /\ cull' = c
      /\ UNCHANGED <<recipes, captures, documents, rows, actor, faults>>
  BY DEF cull_done
<1>2. c \in Cull /\ c.pc = "done" /\ c.todo = cull.todo /\ c.docs = {} /\ c.culled = cull.culled
      /\ c.undisturbed = cull.undisturbed /\ c.failed = cull.failed
  BY DEF TypeOK, Cull
<1>. HIDE DEF c
<1>3. cull.undisturbed /\ cull.failed = 0 => \A row \in Assertions' : ~ScoresIndex(documents, row)'
  BY <1>1, ScoresSame DEF CullInv, Assertions
<1>4. CullInv'
  BY <1>1, <1>2, <1>3 DEF CullInv, CullIsFinal
<1>. QED
  BY <1>1, <1>2, <1>4, CullStep

LEMMA Kill_Inv ==
  ASSUME Inv, Kill
  PROVE  Inv'
<1>. DEFINE down == [Idle EXCEPT !.pc = "failed"]
            c == [NoCull EXCEPT !.pc = "failed", !.culled = cull.culled]
<1>. TypeOK /\ StoreInv /\ CullInv
  BY DEF Inv
<1>1. /\ Fault /\ UNCHANGED <<recipes, captures, documents, rows>>
      /\ actor' = [p \in Actors |-> IF p \in Passes /\ actor[p].pc # "idle" THEN down ELSE Idle]
      /\ cull' = IF cull.pc = "idle" THEN cull ELSE c
  BY DEF Kill, Actors
<1>2. down \in Actor /\ down.pc = "failed" /\ down.todo = {} /\ down.left = {} /\ down.docs = {}
  BY IdleType DEF Actor, Idle
<1>3. c \in Cull /\ c.pc = "failed" /\ c.todo = {} /\ c.docs = {} /\ c.culled = cull.culled
      /\ c.undisturbed = FALSE
  BY NoCullType, CullFields DEF TypeOK, Cull, NoCull
<1>. HIDE DEF down, c
<1>4. cull' \in Cull /\ cull'.culled = cull.culled
  BY <1>1, <1>3 DEF TypeOK
<1>5. Grows
  BY <1>1, GrowsSame
<1>6. TypeOK'
  <2>1. actor' \in [Actors -> Actor]
    BY <1>1, <1>2, IdleType
  <2>2. faults' \in 0..MaxFaults
    BY <1>1, FaultsType
  <2>. QED
    BY <1>1, <1>4, <2>1, <2>2 DEF TypeOK, Captures, Actors
<1>7. StoreInv'
  BY <1>1, <1>4, <1>5, StoreSame
<1>8. CullInv'
  <2>1. CASE cull.pc = "idle"
    BY <1>1, <1>5, <2>1, CullStays
  <2>2. CASE cull.pc # "idle"
    BY <1>1, <1>3, <2>2 DEF CullInv, CullIsFinal
  <2>. QED
    BY <2>1, <2>2
<1>9. ASSUME NEW q \in Actors PROVE WorkOK(q, actor[q])' /\ ReadOK(actor[q])'
  <2>1. actor'[q] = Idle \/ actor'[q] = down
    BY <1>1
  <2>2. Idle.pc = "idle" /\ Idle.todo = {} /\ Idle.left = {} /\ Idle.report = NoReport
    BY DEF Idle
  <2>. QED
    BY <1>2, <2>1, <2>2 DEF WorkOK, ReadOK
<1>10. ASSUME NEW q \in Passes PROVE CountOK(q, actor[q])'
  <2>1. CASE actor[q].pc = "idle"
    <3>1. actor'[q] = Idle
      BY <1>1, <2>1 DEF Actors
    <3>2. By(q)' = By(q)
      BY <1>1, <1>4, BySameCulled
    <3>3. CountOK(q, actor[q]) /\ actor[q].report = NoReport
      BY <2>1, PassFacts DEF ReadOK
    <3>4. By(q) = {}
      BY <2>1, <3>3 DEF CountOK, NoReport
    <3>5. /\ Idle.pc = "idle" /\ Idle.left = {} /\ Idle.docs = {} /\ Idle.report = NoReport
          /\ NoReport.extracted = 0 /\ NoReport.persisted = 0 /\ NoReport.failed = 0
      BY DEF Idle, NoReport
    <3>6. Cardinality({}) = 0
      BY FS_EmptySet
    <3>. QED
      BY <3>1, <3>2, <3>4, <3>5, <3>6 DEF CountOK
  <2>2. CASE actor[q].pc # "idle"
    <3>1. actor'[q] = down
      BY <1>1, <2>2 DEF Actors
    <3>. QED
      BY <1>2, <3>1 DEF CountOK
  <2>. QED
    BY <2>1, <2>2
<1>. QED
  BY <1>6, <1>7, <1>8, <1>9, <1>10 DEF Inv

-----------------------------------------------------------------------------
(***************************************************************************)
(* The invariant holds, and what it says.                                  *)
(***************************************************************************)
LEMMA InitInv == Init => Inv
<1>. SUFFICES ASSUME Init PROVE Inv
  OBVIOUS
<1>1. captures = << >> /\ Captures = {} /\ documents = {} /\ rows = {} /\ recipes = {} /\ faults = 0
  BY DEF Init, Captures
<1>2. \A p \in Actors : actor[p] = Idle
  BY DEF Init, Actors
<1>3. cull = NoCull /\ NoCull.pc = "idle" /\ NoCull.culled = {} /\ NoCull.todo = {} /\ NoCull.docs = {}
      /\ NoCull.undisturbed = FALSE
  BY DEF Init, NoCull
<1>4. /\ Idle.pc = "idle" /\ Idle.left = {} /\ Idle.todo = {} /\ Idle.docs = {} /\ Idle.report = NoReport
      /\ NoReport.extracted = 0 /\ NoReport.persisted = 0 /\ NoReport.failed = 0
  BY DEF Idle, NoReport
<1>5. TypeOK
  <2>1. captures \in Seq([recipe : Recipes, page : Pages, listing : BOOLEAN])
    BY <1>1, EmptySeq
  <2>2. actor \in [Actors -> Actor]
    BY IdleType DEF Init, Actors
  <2>. QED
    BY <1>1, <1>3, <2>1, <2>2, NoCullType DEF TypeOK, Actors
<1>6. StoreInv
  <2>1. rows \cup cull.culled = {}
    BY <1>1, <1>3
  <2>. QED
    BY <1>1, <2>1, FS_EmptySet DEF StoreInv
<1>7. CullInv
  BY <1>1, <1>3 DEF CullInv, CullIsFinal
<1>8. ASSUME NEW p \in Actors PROVE WorkOK(p, actor[p]) /\ ReadOK(actor[p])
  BY <1>2, <1>4 DEF WorkOK, ReadOK
<1>9. ASSUME NEW p \in Passes PROVE CountOK(p, actor[p])
  <2>1. actor[p] = Idle
    BY <1>2 DEF Actors
  <2>2. By(p) = {} /\ Cardinality({}) = 0
    BY <1>1, <1>3, FS_EmptySet DEF By
  <2>. QED
    BY <1>4, <2>1, <2>2 DEF CountOK
<1>. QED
  BY <1>5, <1>6, <1>7, <1>8, <1>9 DEF Inv

LEMMA NextInv == Inv /\ [Next]_vars => Inv'
<1>. SUFFICES ASSUME Inv, [Next]_vars PROVE Inv'
  OBVIOUS
<1>1. CASE UNCHANGED vars
  <2>1. UNCHANGED <<recipes, captures, documents, rows, actor, cull, faults>>
    BY <1>1 DEF vars
  <2>2. TypeOK /\ StoreInv /\ CullInv /\ cull \in Cull
    BY DEF Inv, TypeOK
  <2>3. CullInv'
    BY <2>1, <2>2, GrowsSame, CullStays
  <2>. QED
    BY <2>1, <2>2, <2>3, CullStep
<1>2. CASE author_recipe \/ insert_fetch_document \/ run_css_recipe
  BY <1>2, author_recipe_Inv, insert_fetch_document_Inv, run_css_recipe_Inv
<1>3. CASE \E p \in Actors : extract_from_document(p) \/ insert(p)
  BY <1>3, extract_from_document_Inv, insert_Inv
<1>4. CASE \E p \in Passes :
             \/ load_recipes_for_plan(p) \/ recipes_for_plan(p) \/ records_for_plan(p)
             \/ next_document(p) \/ document_done(p) \/ reextract_done(p) \/ reextract_fails(p)
  BY <1>4, load_recipes_for_plan_Inv, recipes_for_plan_Inv, records_for_plan_Inv, next_document_Inv,
     document_done_Inv, reextract_done_Inv, reextract_fails_Inv
<1>5. CASE cull_recipes_for_plan \/ cull_records_for_plan \/ cull_fails \/ cull_next \/ cull_done
  BY <1>5, cull_recipes_for_plan_Inv, cull_records_for_plan_Inv, cull_fails_Inv, cull_next_Inv,
     cull_done_Inv
<1>6. CASE Kill
  BY <1>6, Kill_Inv
<1>. QED
  BY <1>1, <1>2, <1>3, <1>4, <1>5, <1>6 DEF Next, Actors

LEMMA Invariant == Spec => []Inv
  BY InitInv, NextInv, PTL DEF Spec

\* The tables and the locals of a run, of every re-extraction and of the clean-up
\* keep their types.
THEOREM ExtractionTypes == Spec => []TypeOK
<1>1. Inv => TypeOK
  BY DEF Inv
<1>. QED
  BY <1>1, Invariant, PTL

\* extract.rs, reextract.rs: whatever the model answers, every stored row comes from
\* a page its extractor takes and has a kind the plan declares for it, if any.
THEOREM StoredRowsGrounded == Spec => []RowsGrounded
<1>1. Inv => RowsGrounded
  BY DEF Inv, StoreInv, Grounded, RowsGrounded
<1>. QED
  BY <1>1, Invariant, PTL

\* reextract.rs: the counters of a report agree with what the store got from it,
\* with store errors, other passes and a clean-up in between.
THEOREM ReportsCount == Spec => []ReportCountsRows
<1>1. Inv => ReportCountsRows
  BY DEF Inv, CountOK, By, ReportCountsRows
<1>. QED
  BY <1>1, Invariant, PTL

\* reextract.rs: a pass that ends has read every html document that was stored
\* when it began.
THEOREM PassReadsEarlier == Spec => []EarlierDocumentsRead
<1>1. Inv => EarlierDocumentsRead
  BY DEF Inv, Actors, ReadOK, EarlierDocumentsRead
<1>. QED
  BY <1>1, Invariant, PTL

\* cull.rs: only assertions of recipes that read a listing are ever deleted.
THEOREM ProseIsSpared == Spec => []CullSparesProse
<1>1. Inv => CullSparesProse
  BY DEF Inv, CullInv, CullSparesProse
<1>. QED
  BY <1>1, Invariant, PTL

\* cull.rs: a clean-up that nothing disturbed leaves nothing for the next.
THEOREM CleanUpIsFinal == Spec => []CullIsFinal
<1>1. Inv => CullIsFinal
  BY DEF Inv, CullInv
<1>. QED
  BY <1>1, Invariant, PTL

=============================================================================
