-------------------------- MODULE EvaluationProofs --------------------------
(***************************************************************************)
(* Proofs about Evaluation, for any dataset, any number of draws and any   *)
(* table of them, any evaluations one after the other, and whatever a      *)
(* language model proposes.                                                *)
(***************************************************************************)
EXTENDS Evaluation, SumLemmas

-----------------------------------------------------------------------------
(***************************************************************************)
(* The inductive invariant: types, and what is true of every evaluation    *)
(* after every case of it.                                                 *)
(***************************************************************************)
Proposed == [category : Categories, policy : Policies, amount : Int, currency : Currencies]

Record ==
  [proposed : Proposed, policy : Policies, approved : BOOLEAN, aged : BOOLEAN,
   recovered : SUBSET Seeds]

Run ==
  [status : {"idle", "running", "done", "failed"}, records : Seq(Record), overall : Books,
   category : [Categories -> Books]]

Types == luck \in Lucks /\ aged \in BOOLEAN /\ run \in [Evaluations -> Run]

WithinDataset(r) ==
  /\ Len(r.records) <= Len(Dataset)
  /\ r.status = "done" => Len(r.records) = Len(Dataset)

OfCategory(records, c) == {i \in DOMAIN records : Dataset[i].category = c}

FieldSum(category, field) == SumFunction([c \in Categories |-> category[c][field]])

(* The revenue of a category is bounded draw by draw: of each case of it,   *)
(* at most all draws recover the amount.                                    *)
Balanced(r) ==
  /\ \A field \in DOMAIN NoBooks : FieldSum(r.category, field) = r.overall[field]
  /\ \A c \in Categories :
       /\ r.category[c].recovered <= r.category[c].draws
       /\ r.category[c].revenue <= Draws * r.category[c].opportunity
       /\ r.category[c].cases = Cardinality(OfCategory(r.records, c))

(* A record holds the draws that its policy recovers.                       *)
Drawn(r) ==
  \A i \in DOMAIN r.records : r.records[i].recovered = Recovered(i, r.records[i].policy)

(* The eligibility engine, told the category that the proposal named, finds *)
(* the case eligible at the moment of the record.                           *)
ThenEligible(i, rec) ==
  Evaluate([amount |-> Dataset[i].amount, currency |-> Dataset[i].currency,
            category |-> rec.proposed.category, link |-> Dataset[i].attempted,
            stale |-> rec.aged], TRUE, Dataset[i].failed) = "ELIGIBLE"

Deserved(i, rec) ==
  rec.policy \in LinkPolicies =>
    /\ rec.approved
    /\ rec.proposed.amount = Dataset[i].amount
    /\ SameCurrency(rec.proposed.currency, Dataset[i].currency)
    /\ ThenEligible(i, rec)

Granted(r) == \A i \in DOMAIN r.records : Deserved(i, r.records[i])

Sound(r) == WithinDataset(r) /\ Balanced(r) /\ Drawn(r) /\ Granted(r)

(* The proposals call every case what the dataset calls it.                 *)
Owned(r) == \A i \in DOMAIN r.records : r.records[i].proposed.category = Dataset[i].category

Kept(e) == Sound(run[e]) /\ (Decider[e] # "model" => Owned(run[e]))

Inv == Types /\ \A e \in Evaluations : Kept(e)

-----------------------------------------------------------------------------
(***************************************************************************)
(* The operators.                                                          *)
(***************************************************************************)

(* A case of the dataset is what it is declared to be.                      *)
LEMMA CaseTyped ==
  ASSUME NEW i \in Ids
  PROVE  /\ Dataset[i] \in EvaluationCases
         /\ Dataset[i].amount \in Nat \ {0} /\ Dataset[i].currency \in Currencies
         /\ Dataset[i].category \in Categories
         /\ Dataset[i].chance \in [Policies -> Nat]
         /\ i \in Nat \ {0} /\ i <= Len(Dataset) /\ Len(Dataset) \in Nat
<1>1. Dataset \in Seq(EvaluationCases)
  BY EvaluationAssumption
<1>2. Ids = 1 .. Len(Dataset) /\ Len(Dataset) \in Nat
  BY <1>1 DEF Ids
<1>3. Dataset[i] \in EvaluationCases
  BY <1>1 DEF Ids
<1> QED
  BY <1>2, <1>3 DEF EvaluationCases

LEMMA SeedsFinite == IsFiniteSet(Seeds) /\ Cardinality(Seeds) = Draws
BY FS_Interval, EvaluationAssumption DEF Seeds

LEMMA CategoriesFinite == IsFiniteSet(Categories) /\ Cardinality(Categories) = 5
<1> DEFINE S1 == {} \cup {"C1"}
           S2 == S1 \cup {"C2"}
           S3 == S2 \cup {"C3"}
           S4 == S3 \cup {"C4"}
           S5 == S4 \cup {"C5"}
<1>0. IsFiniteSet({}) /\ Cardinality({}) = 0
  BY FS_EmptySet
<1>1. IsFiniteSet(S1) /\ Cardinality(S1) = 1
  BY <1>0, FS_AddElement
<1>2. IsFiniteSet(S2) /\ Cardinality(S2) = 2
  BY <1>1, FS_AddElement
<1>3. IsFiniteSet(S3) /\ Cardinality(S3) = 3
  BY <1>2, FS_AddElement
<1>4. IsFiniteSet(S4) /\ Cardinality(S4) = 4
  BY <1>3, FS_AddElement
<1>5. IsFiniteSet(S5) /\ Cardinality(S5) = 5
  BY <1>4, FS_AddElement
<1>6. S5 = Categories
  BY DEF Categories
<1> QED
  BY <1>5, <1>6

(* At most all draws recover a case.                                        *)
LEMMA RecoveredTyped ==
  ASSUME NEW i, NEW policy
  PROVE  /\ Recovered(i, policy) \in SUBSET Seeds
         /\ Cardinality(Recovered(i, policy)) \in 0 .. Draws
<1>1. Recovered(i, policy) \in SUBSET Seeds
  BY DEF Recovered
<1> QED
  BY <1>1, SeedsFinite, FS_Subset, FS_CardinalityType, EvaluationAssumption

(* Of the rulings of the guardrails only an approval grants a link, and it  *)
(* is one that the eligibility engine allows.                               *)
LEMMA ValidateTyped ==
  ASSUME NEW x, NEW requested, NEW amount, NEW currency, NEW known, NEW attempts,
         NEW v, v = Validate(x, requested, amount, currency, known, attempts)
  PROVE  /\ v.policy \in Policies
         /\ requested \notin LinkPolicies => v.policy \notin LinkPolicies
BY DEF Validate, Ruling, Policies, LinkPolicies

Contexts ==
  [amount : Nat \ {0}, currency : Currencies, category : Categories, link : BOOLEAN, stale : BOOLEAN]

LEMMA LinksAreDeserved ==
  ASSUME NEW x, NEW requested, NEW amount, NEW currency, NEW known, NEW attempts,
         NEW v, v = Validate(x, requested, amount, currency, known, attempts),
         x \in Contexts, v.policy \in LinkPolicies
  PROVE  /\ v.decision = "APPROVE"
         /\ amount = x.amount
         /\ SameCurrency(currency, x.currency)
         /\ Evaluate(x, known, attempts) = "ELIGIBLE"
<1>0. \A decision, policy : v = Ruling(decision, policy) => policy \in LinkPolicies
  BY DEF Ruling
<1>1. /\ \A decision : v # Ruling(decision, "P_NO_ACTION")
      /\ \A decision : v # Ruling(decision, "P_ESCALATE_ONLY")
  BY <1>0 DEF LinkPolicies
<1>2. /\ amount = x.amount /\ SameCurrency(currency, x.currency)
      /\ x.currency \in GuardrailCurrencies
  BY <1>1 DEF Validate
<1>3. requested \in LinkPolicies
  BY ValidateTyped
<1>4. /\ ~(x.amount > HighValue)
      /\ ~(x.link \/ CooldownReached(known, attempts))
      /\ x.category # "C4" /\ x.category # "C5" /\ ~x.stale
  BY <1>1, <1>2, <1>3 DEF Validate
<1>5. v.decision = "APPROVE"
  BY <1>2, <1>3, <1>4 DEF Validate, Ruling, Policies
<1>6. Evaluate(x, known, attempts) = "ELIGIBLE"
  <2>1. ~(x.amount <= 0 \/ x.link \/ x.currency \notin EligibleCurrencies)
    <3>1. ~(x.amount <= 0)
      BY DEF Contexts
    <3>2. x.currency \in EligibleCurrencies
      BY <1>2 DEF GuardrailCurrencies, EligibleCurrencies
    <3> QED
      BY <1>4, <3>1, <3>2
  <2>2. ~(CooldownReached(known, attempts) \/ x.category \in {"C4", "C5"} \/ x.stale)
    BY <1>4
  <2> QED
    BY <1>4, <2>1, <2>2, Zenon DEF Evaluate
<1> QED
  BY <1>2, <1>5, <1>6

(* What the providers propose.                                              *)
LEMMA ProposalsTyped ==
  ASSUME NEW i \in Ids
  PROVE  /\ \A policy \in Policies : Propose(i, policy) \in Proposed
         /\ MockDecision(i) \in Proposed
         /\ SafeFallback(i) \in Proposed
         /\ \A answer \in Answers : Completed(i, answer) \in Proposed
<1>1. /\ Dataset[i].amount \in Nat \ {0} /\ Dataset[i].currency \in Currencies
      /\ Dataset[i].category \in Categories
  BY CaseTyped
<1>2. \A policy \in Policies : Propose(i, policy) \in Proposed
  BY <1>1 DEF Propose, Proposed
<1>3. MockDecision(i) \in Proposed
  <2> DEFINE policy == IF Dataset[i].amount > HighValue THEN "P_ESCALATE_ONLY"
             ELSE CASE Dataset[i].category \in {"C1", "C3"} -> "P_CREATE_LINK_DELAYED"
                    [] Dataset[i].category = "C2" -> "P_CREATE_LINK_IMMEDIATE"
                    [] Dataset[i].category = "C4" -> "P_ESCALATE_ONLY"
                    [] Dataset[i].category = "C5" -> "P_NO_ACTION"
  <2>1. policy \in Policies
    BY <1>1 DEF Categories, Policies, LinkPolicies
  <2>2. MockDecision(i) = Propose(i, policy)
    BY DEF MockDecision
  <2> HIDE DEF policy
  <2> QED
    BY <1>2, <2>1, <2>2
<1>4. SafeFallback(i) \in Proposed
  <2> DEFINE policy == IF Dataset[i].amount > HighValue THEN "P_ESCALATE_ONLY" ELSE "P_NO_ACTION"
  <2>1. policy \in Policies
    BY DEF Policies
  <2>2. SafeFallback(i) = Propose(i, policy)
    BY DEF SafeFallback
  <2> HIDE DEF policy
  <2> QED
    BY <1>2, <2>1, <2>2
<1>5. ASSUME NEW answer \in Answers PROVE Completed(i, answer) \in Proposed
  <2>1. answer \in Proposals
    BY EvaluationAssumption
  <2> DEFINE a == CASE answer.amount = "less" -> Dataset[i].amount - 1
                    [] answer.amount \in {"same", "absent"} -> Dataset[i].amount
             c == CASE answer.currency = "other" -> "USD"
                    [] answer.currency \in {"same", "absent"} -> Dataset[i].currency
  <2>2. a \in Int
    BY <1>1, <2>1 DEF Proposals
  <2>3. c \in Currencies
    <3>1. c \in {"USD", Dataset[i].currency}
      BY <2>1 DEF Proposals
    <3>2. "USD" \in Currencies
      BY DEF Currencies
    <3> QED
      BY <1>1, <3>1, <3>2
  <2>4. Completed(i, answer) = [answer EXCEPT !.amount = a, !.currency = c]
    BY DEF Completed
  <2> HIDE DEF a, c
  <2>5. Completed(i, answer) = [category |-> answer.category, policy |-> answer.policy,
                                amount |-> a, currency |-> c]
    BY <2>1, <2>4 DEF Proposals
  <2> QED
    BY <2>1, <2>2, <2>3, <2>5 DEF Proposals, Proposed
<1> QED
  BY <1>2, <1>3, <1>4, <1>5

(* A case moves every counter by an amount that is the same in all books.   *)
Moved(i, policy) ==
  LET won == Cardinality(Recovered(i, policy))
  IN  [cases |-> 1, draws |-> Draws, recovered |-> won,
       opportunity |-> Dataset[i].amount, revenue |-> won * Dataset[i].amount]

LEMMA MovedTyped ==
  ASSUME NEW i \in Ids, NEW policy
  PROVE  /\ Moved(i, policy) \in Books
         /\ Moved(i, policy).cases = 1
         /\ Moved(i, policy).recovered <= Moved(i, policy).draws
         /\ Moved(i, policy).revenue <= Draws * Moved(i, policy).opportunity
<1>1. PICK won \in 0 .. Draws : won = Cardinality(Recovered(i, policy))
  BY RecoveredTyped
<1>2. PICK a \in Nat : a = Dataset[i].amount
  BY CaseTyped
<1>3. Draws \in Nat /\ won \in Nat
  BY EvaluationAssumption
<1>4. won * a \in Nat /\ won * a <= Draws * a
  BY <1>3
<1> QED
  BY <1>1, <1>2, <1>3, <1>4 DEF Moved, Books

LEMMA BookedMoves ==
  ASSUME NEW b \in Books, NEW i \in Ids, NEW policy
  PROVE  /\ Booked(b, i, policy) \in Books
         /\ \A field \in DOMAIN NoBooks :
              Booked(b, i, policy)[field] = b[field] + Moved(i, policy)[field]
<1>1. \A field \in DOMAIN NoBooks :
        Booked(b, i, policy)[field] = b[field] + Moved(i, policy)[field]
  BY DEF NoBooks, Booked, Moved
<1>2. Moved(i, policy) \in Books
  BY MovedTyped
<1>3. Booked(b, i, policy) = [cases |-> b.cases + Moved(i, policy).cases,
                              draws |-> b.draws + Moved(i, policy).draws,
                              recovered |-> b.recovered + Moved(i, policy).recovered,
                              opportunity |-> b.opportunity + Moved(i, policy).opportunity,
                              revenue |-> b.revenue + Moved(i, policy).revenue]
  BY DEF Booked, Moved
<1> QED
  BY <1>1, <1>2, <1>3 DEF Books

-----------------------------------------------------------------------------
(***************************************************************************)
(* One turn of the loop, whoever decides.                                  *)
(***************************************************************************)
NewRecord(i, p, policy, approved) ==
  [proposed |-> p, policy |-> policy, approved |-> approved, aged |-> aged,
   recovered |-> Recovered(i, policy)]

LEMMA NewRecordIs ==
  ASSUME NEW i, NEW p \in Proposed, NEW policy \in Policies, NEW approved, approved \in BOOLEAN,
         aged \in BOOLEAN, NEW new, new = NewRecord(i, p, policy, approved)
  PROVE  /\ new \in Record
         /\ new.proposed = p /\ new.policy = policy /\ new.aged = aged
         /\ new.approved = approved /\ new.recovered = Recovered(i, policy)
BY RecoveredTyped DEF NewRecord, Record

(* The books and the records after a case, given the record that is new.    *)
LEMMA EnteredTyped ==
  ASSUME NEW r \in Run, NEW i \in Ids, i = Len(r.records) + 1, NEW policy \in Policies,
         NEW new \in Record, NEW s,
         s.status = r.status,
         s.overall = Booked(r.overall, i, policy),
         s.category = [r.category EXCEPT ![Dataset[i].category] = Booked(@, i, policy)],
         s.records = Append(r.records, new),
         s = [status |-> s.status, records |-> s.records, overall |-> s.overall,
              category |-> s.category]
  PROVE  /\ s \in Run
         /\ Len(s.records) = i /\ DOMAIN s.records = 1 .. i /\ DOMAIN r.records = 1 .. i - 1
         /\ s.records[i] = new
         /\ \A k \in 1 .. i - 1 : s.records[k] = r.records[k]
<1> DEFINE c == Dataset[i].category
<1>1. c \in Categories /\ i \in Nat
  BY CaseTyped
<1>2. r.records \in Seq(Record) /\ r.overall \in Books /\ r.category \in [Categories -> Books]
  BY DEF Run
<1> HIDE DEF c
<1>3. Booked(r.overall, i, policy) \in Books /\ Booked(r.category[c], i, policy) \in Books
  BY <1>1, <1>2, BookedMoves
<1>4. /\ Append(r.records, new) \in Seq(Record)
      /\ Len(Append(r.records, new)) = i
      /\ Append(r.records, new)[i] = new
      /\ \A k \in 1 .. i - 1 : Append(r.records, new)[k] = r.records[k]
      /\ DOMAIN r.records = 1 .. i - 1
  BY <1>1, <1>2
<1>5. DOMAIN s.records = 1 .. i
  BY <1>4
<1>6. s.category \in [Categories -> Books]
  BY <1>1, <1>2, <1>3 DEF c
<1>7. /\ s.status \in {"idle", "running", "done", "failed"} /\ s.records \in Seq(Record)
      /\ s.overall \in Books
  BY <1>3, <1>4 DEF Run
<1>8. s \in Run
  BY <1>6, <1>7 DEF Run
<1> QED
  BY <1>4, <1>5, <1>8

(* Counting the members of an initial part of a sequence.                   *)
LEMMA CountOneMore ==
  ASSUME NEW i \in Nat \ {0}, NEW A \in SUBSET (1 .. i - 1), NEW B \in SUBSET (1 .. i),
         \A k \in 1 .. i - 1 : k \in A <=> k \in B
  PROVE  Cardinality(B) = Cardinality(A) + (IF i \in B THEN 1 ELSE 0) /\ Cardinality(A) \in Nat
<1>1. IsFiniteSet(A)
  <2>1. 1 \in Int /\ i - 1 \in Int
    OBVIOUS
  <2>2. IsFiniteSet(1 .. i - 1)
    BY <2>1, FS_Interval
  <2> QED
    BY <2>2, FS_Subset
<1>2. i \notin A
  OBVIOUS
<1>3. \A k \in 1 .. i : k = i \/ k \in 1 .. i - 1
  OBVIOUS
<1>4. \A k : k \in A => k \in B /\ k # i
  BY <1>2
<1>5. \A k : k \in B => k = i \/ k \in A
  BY <1>3
<1>6. ASSUME i \in B PROVE B = A \cup {i}
  BY <1>4, <1>5, <1>6
<1>7. ASSUME i \notin B PROVE B = A
  BY <1>4, <1>5, <1>7
<1>8. Cardinality(A) \in Nat /\ Cardinality(A \cup {i}) = Cardinality(A) + 1
  BY <1>1, <1>2, FS_AddElement, FS_CardinalityType
<1>9. CASE i \in B
  BY <1>6, <1>8, <1>9
<1>10. CASE i \notin B
  BY <1>7, <1>8, <1>10
<1> QED
  BY <1>9, <1>10

(* The sum over the categories moves with the one that moves.               *)
LEMMA FieldMoves ==
  ASSUME NEW before \in [Categories -> Books], NEW after \in [Categories -> Books],
         NEW field \in DOMAIN NoBooks, NEW c \in Categories, NEW d \in Int,
         after[c][field] = before[c][field] + d,
         \A x \in Categories \ {c} : after[x] = before[x]
  PROVE  FieldSum(after, field) = FieldSum(before, field) + d
<1> DEFINE f == [x \in Categories |-> before[x][field]]
           g == [x \in Categories |-> after[x][field]]
<1>1. \A b \in Books : b[field] \in Int
  BY DEF Books, NoBooks
<1>2. f \in [Categories -> Int] /\ g \in [Categories -> Int]
  BY <1>1
<1>3. g[c] = f[c] + d /\ \A x \in Categories \ {c} : g[x] = f[x]
  OBVIOUS
<1>4. IsFiniteSet(Categories)
  BY CategoriesFinite
<1> HIDE DEF f, g
<1>5. SumFunction(g) = SumFunction(f) + d
  BY <1>2, <1>3, <1>4, SumUpdate
<1> QED
  BY <1>5 DEF f, g, FieldSum

LEMMA EnteredBalanced ==
  ASSUME NEW r \in Run, Balanced(r), NEW i \in Ids, NEW policy \in Policies, NEW s \in Run,
         s.overall = Booked(r.overall, i, policy),
         s.category = [r.category EXCEPT ![Dataset[i].category] = Booked(@, i, policy)],
         DOMAIN s.records = 1 .. i, DOMAIN r.records = 1 .. i - 1
  PROVE  Balanced(s)
<1> DEFINE c == Dataset[i].category
           m == Moved(i, policy)
<1>1. /\ s \in Run
      /\ s.overall = Booked(r.overall, i, policy)
      /\ s.category = [r.category EXCEPT ![c] = Booked(@, i, policy)]
      /\ DOMAIN s.records = 1 .. i /\ DOMAIN r.records = 1 .. i - 1
  BY DEF c
<1>2. c \in Categories /\ i \in Nat \ {0}
  BY CaseTyped
<1>3. r.overall \in Books /\ r.category \in [Categories -> Books]
  BY DEF Run
<1>4. /\ m \in Books /\ m.cases = 1 /\ m.recovered <= m.draws
      /\ m.revenue <= Draws * m.opportunity
  BY MovedTyped
<1>5. \A b \in Books : \A field \in DOMAIN NoBooks :
        Booked(b, i, policy)[field] = b[field] + m[field]
  BY BookedMoves
<1>6. \A b \in Books : \A field \in DOMAIN NoBooks : b[field] \in Nat
  BY DEF Books, NoBooks
<1> HIDE DEF m, c
<1>8. ASSUME NEW field \in DOMAIN NoBooks
      PROVE  FieldSum(s.category, field) = s.overall[field]
  <2>1. PICK d \in Int : d = m[field]
    BY <1>4, <1>6
  <2>2. s.category[c][field] = r.category[c][field] + d
    BY <1>1, <1>2, <1>3, <1>5, <2>1
  <2>3. \A x \in Categories \ {c} : s.category[x] = r.category[x]
    BY <1>1, <1>3
  <2>4. s.category \in [Categories -> Books]
    BY DEF Run
  <2>5. FieldSum(s.category, field) = FieldSum(r.category, field) + d
    BY <1>2, <1>3, <2>2, <2>3, <2>4, FieldMoves
  <2>6. FieldSum(r.category, field) = r.overall[field]
    BY DEF Balanced
  <2>7. s.overall[field] = r.overall[field] + d
    BY <1>1, <1>3, <1>5, <2>1
  <2> QED
    BY <2>5, <2>6, <2>7
<1>9. ASSUME NEW d \in Categories
      PROVE  /\ s.category[d].recovered <= s.category[d].draws
             /\ s.category[d].revenue <= Draws * s.category[d].opportunity
             /\ s.category[d].cases = Cardinality(OfCategory(s.records, d))
  <2> DEFINE b == r.category[d]
  <2>1. /\ b.recovered <= b.draws /\ b.revenue <= Draws * b.opportunity
        /\ b.cases = Cardinality(OfCategory(r.records, d))
    BY DEF Balanced
  <2>2. /\ OfCategory(r.records, d) \in SUBSET (1 .. i - 1)
        /\ OfCategory(s.records, d) \in SUBSET (1 .. i)
        /\ \A k \in 1 .. i - 1 : k \in OfCategory(r.records, d) <=> k \in OfCategory(s.records, d)
        /\ i \in OfCategory(s.records, d) <=> d = c
    BY <1>1, <1>2 DEF OfCategory, c
  <2>3. Cardinality(OfCategory(s.records, d))
          = Cardinality(OfCategory(r.records, d)) + (IF d = c THEN 1 ELSE 0)
    BY <1>2, <2>2, CountOneMore
  <2>4. Cardinality(OfCategory(r.records, d)) \in Nat
    BY <1>2, <2>2, CountOneMore
  <2>5. CASE d # c
    BY <1>1, <1>3, <2>1, <2>3, <2>4, <2>5
  <2>6. CASE d = c
    <3>1. b \in Books /\ s.category[d] = Booked(b, i, policy)
      BY <1>1, <1>2, <1>3, <2>6
    <3> DEFINE e == s.category[d]
    <3>2. /\ e.recovered = b.recovered + m.recovered /\ e.draws = b.draws + m.draws
          /\ e.revenue = b.revenue + m.revenue /\ e.opportunity = b.opportunity + m.opportunity
          /\ e.cases = b.cases + m.cases
      BY <1>5, <3>1 DEF NoBooks
    <3>3. /\ b.recovered \in Nat /\ b.draws \in Nat /\ b.revenue \in Nat
          /\ b.opportunity \in Nat /\ b.cases \in Nat
          /\ m.recovered \in Nat /\ m.draws \in Nat /\ m.revenue \in Nat
          /\ m.opportunity \in Nat
      BY <1>4, <3>1 DEF Books
    <3> HIDE DEF b, e
    <3>4. Draws * (b.opportunity + m.opportunity) = Draws * b.opportunity + Draws * m.opportunity
      BY <3>3, EvaluationAssumption
    <3>5. Draws * b.opportunity \in Nat /\ Draws * m.opportunity \in Nat
      BY <3>3, EvaluationAssumption
    <3>6. e.revenue <= Draws * e.opportunity
      BY <1>4, <2>1, <3>2, <3>3, <3>4, <3>5
    <3>7. e.recovered <= e.draws
      BY <1>4, <2>1, <3>2, <3>3
    <3>8. e.cases = Cardinality(OfCategory(s.records, d))
      BY <1>4, <2>1, <2>3, <2>6, <3>2
    <3> QED
      BY <3>6, <3>7, <3>8 DEF e
  <2> QED
    BY <2>5, <2>6
<1> QED
  BY <1>8, <1>9 DEF Balanced

LEMMA EnteredSound ==
  ASSUME NEW r \in Run, Sound(r), r.status = "running",
         NEW i \in Ids, i = Len(r.records) + 1, NEW p \in Proposed,
         NEW policy \in Policies, NEW approved, approved \in BOOLEAN, aged \in BOOLEAN,
         NEW new, new = NewRecord(i, p, policy, approved), Deserved(i, new),
         NEW s, s = Entered(r, i, p, policy, approved)
  PROVE  /\ s \in Run /\ Sound(s)
         /\ Owned(r) /\ p.category = Dataset[i].category => Owned(s)
<1>1. /\ s.status = r.status
      /\ s.overall = Booked(r.overall, i, policy)
      /\ s.category = [r.category EXCEPT ![Dataset[i].category] = Booked(@, i, policy)]
      /\ s.records = Append(r.records, new)
      /\ s = [status |-> s.status, records |-> s.records, overall |-> s.overall,
              category |-> s.category]
  <2>1. /\ s.status = r.status
        /\ s.overall = Booked(r.overall, i, policy)
        /\ s.category = [r.category EXCEPT ![Dataset[i].category] = Booked(@, i, policy)]
        /\ s.records = Append(r.records, new)
    BY DEF Entered, NewRecord, CategoryOf, Run
  <2>2. s = [status |-> s.status, records |-> s.records, overall |-> s.overall,
             category |-> s.category]
    BY DEF Entered, Run
  <2> QED
    BY <2>1, <2>2, Zenon
<1>3. new \in Record
  BY NewRecordIs
<1>10. new.proposed = p /\ new.policy = policy /\ new.recovered = Recovered(i, policy)
  BY NewRecordIs
<1>11. /\ s \in Run
       /\ Len(s.records) = i /\ DOMAIN s.records = 1 .. i /\ DOMAIN r.records = 1 .. i - 1
       /\ s.records[i] = new
       /\ \A k \in 1 .. i - 1 : s.records[k] = r.records[k]
  BY <1>1, <1>3, EnteredTyped
<1>2. i \in Nat \ {0} /\ i <= Len(Dataset)
  BY CaseTyped
<1>4. \A k \in 1 .. i : k = i \/ k \in 1 .. i - 1
  BY <1>2
<1>5. WithinDataset(s)
  BY <1>1, <1>2, <1>11 DEF WithinDataset, Sound
<1>6. Balanced(s)
  BY <1>1, <1>11, EnteredBalanced DEF Sound
<1>7. Drawn(s)
  <2> SUFFICES ASSUME NEW k \in 1 .. i
               PROVE  s.records[k].recovered = Recovered(k, s.records[k].policy)
    BY <1>11 DEF Drawn
  <2>1. CASE k = i
    BY <1>10, <1>11, <2>1
  <2>2. CASE k \in 1 .. i - 1
    BY <1>11, <2>2 DEF Drawn, Sound
  <2> QED
    BY <1>4, <2>1, <2>2
<1>8. Granted(s)
  <2> SUFFICES ASSUME NEW k \in 1 .. i
               PROVE  Deserved(k, s.records[k])
    BY <1>11 DEF Granted
  <2>1. CASE k = i
    BY <1>11, <2>1
  <2>2. CASE k \in 1 .. i - 1
    BY <1>11, <2>2 DEF Granted, Sound
  <2> QED
    BY <1>4, <2>1, <2>2
<1>9. ASSUME Owned(r), p.category = Dataset[i].category PROVE Owned(s)
  <2> SUFFICES ASSUME NEW k \in 1 .. i
               PROVE  s.records[k].proposed.category = Dataset[k].category
    BY <1>11 DEF Owned
  <2>1. CASE k = i
    BY <1>9, <1>10, <1>11, <2>1
  <2>2. CASE k \in 1 .. i - 1
    BY <1>9, <1>11, <2>2 DEF Owned
  <2> QED
    BY <1>4, <2>1, <2>2
<1> QED
  BY <1>1, <1>5, <1>6, <1>7, <1>8, <1>9, <1>11 DEF Sound

(* A proposal is ruled on by the guardrails: what they let pass is deserved. *)
LEMMA VerdictDeserved ==
  ASSUME NEW i \in Ids, NEW p \in Proposed, aged \in BOOLEAN,
         NEW v, v = Verdict(i, p)
  PROVE  /\ v.policy \in Policies
         /\ Deserved(i, NewRecord(i, p, v.policy, v.decision = "APPROVE"))
<1>1. PICK known : known = TRUE
  OBVIOUS
<1> DEFINE x == Context(i, p.category)
<1>2. v = Validate(x, p.policy, p.amount, p.currency, known, Dataset[i].failed)
  BY <1>1, Zenon DEF Verdict
<1>3. x = [amount |-> Dataset[i].amount, currency |-> Dataset[i].currency,
           category |-> p.category, link |-> Dataset[i].attempted, stale |-> aged]
  BY DEF Context
<1>4. x \in Contexts
  <2>1. Dataset[i] \in EvaluationCases /\ p.category \in Categories
    BY CaseTyped DEF Proposed
  <2> QED
    BY <1>3, <2>1 DEF EvaluationCases, Contexts
<1>5. x.amount = Dataset[i].amount /\ x.currency = Dataset[i].currency
  BY <1>3
<1> DEFINE new == NewRecord(i, p, v.policy, v.decision = "APPROVE")
<1>6. /\ new.policy = v.policy /\ new.proposed = p /\ new.aged = aged
      /\ new.approved <=> v.decision = "APPROVE"
  BY DEF NewRecord
<1>7. x = [amount |-> Dataset[i].amount, currency |-> Dataset[i].currency,
           category |-> new.proposed.category, link |-> Dataset[i].attempted,
           stale |-> new.aged]
  BY <1>3, <1>6
<1> HIDE DEF x, new
<1>8. v.policy \in Policies
  BY <1>2, ValidateTyped
<1>9. ASSUME v.policy \in LinkPolicies
      PROVE  /\ v.decision = "APPROVE" /\ p.amount = Dataset[i].amount
             /\ SameCurrency(p.currency, Dataset[i].currency)
             /\ Evaluate(x, known, Dataset[i].failed) = "ELIGIBLE"
  BY <1>2, <1>4, <1>5, <1>9, LinksAreDeserved
<1>10. Evaluate(x, known, Dataset[i].failed) = "ELIGIBLE" => ThenEligible(i, new)
  BY <1>1, <1>7, Zenon DEF ThenEligible
<1>11. Deserved(i, new)
  BY <1>6, <1>9, <1>10 DEF Deserved
<1> QED
  BY <1>8, <1>11 DEF new

-----------------------------------------------------------------------------
(***************************************************************************)
(* The invariant.                                                          *)
(***************************************************************************)

(* A step of one evaluation keeps the invariant if its books keep it: the   *)
(* others, the draws and the clock are as they were.                        *)
LEMMA StepKeeps ==
  ASSUME Inv, NEW e \in Evaluations, NEW s \in Run, Sound(s), Decider[e] # "model" => Owned(s),
         run' = [run EXCEPT ![e] = s], UNCHANGED <<luck, aged>>
  PROVE  Inv'
<1>1. Types'
  BY DEF Inv, Types
<1>2. run'[e] = s /\ \A f \in Evaluations \ {e} : run'[f] = run[f]
  BY DEF Inv, Types
<1>3. ASSUME NEW r, Sound(r)
      PROVE  /\ WithinDataset(r) /\ Balanced(r) /\ Granted(r)
             /\ \A i \in DOMAIN r.records :
                   r.records[i].recovered
                     = {d \in Seeds : luck'[<<i, d>>] < Dataset[i].chance[r.records[i].policy]}
  BY <1>3 DEF Sound, Drawn, Recovered, Simulate
<1>4. ASSUME NEW f \in Evaluations PROVE Kept(f)'
  <2>1. Sound(run'[f]) /\ (Decider[f] # "model" => Owned(run'[f]))
    BY <1>2 DEF Inv, Kept
  <2> QED
    BY <1>3, <2>1 DEF Kept, Owned, Sound, Drawn, Recovered, Simulate
<1> QED
  BY <1>1, <1>4 DEF Inv

LEMMA InvInit == ASSUME Init PROVE Inv
<1> DEFINE r0 == [status |-> "idle", records |-> <<>>, overall |-> NoBooks,
                  category |-> [c \in Categories |-> NoBooks]]
<1>1. NoBooks \in Books /\ \A field \in DOMAIN NoBooks : NoBooks[field] = 0
  BY DEF NoBooks, Books
<1>2. [c \in Categories |-> NoBooks] \in [Categories -> Books]
  BY <1>1
<1>3. <<>> \in Seq(Record) /\ Len(<<>>) = 0 /\ DOMAIN <<>> = {}
  OBVIOUS
<1>4. r0 \in Run
  BY <1>1, <1>2, <1>3 DEF Run
<1>5. Types
  BY <1>4 DEF Init, Types
<1>6. /\ r0.records = <<>> /\ r0.overall = NoBooks
      /\ r0.status = "idle" /\ r0.category = [c \in Categories |-> NoBooks]
  OBVIOUS
<1> HIDE DEF r0
<1>7. WithinDataset(r0)
  BY <1>3, <1>6, EvaluationAssumption DEF WithinDataset
<1>8. \A c \in Categories : OfCategory(r0.records, c) = {}
  BY <1>3, <1>6 DEF OfCategory
<1>10. Cardinality({}) = 0
  BY FS_EmptySet
<1>11. ASSUME NEW field \in DOMAIN NoBooks PROVE FieldSum(r0.category, field) = 0
  <2> DEFINE f == [c \in Categories |-> r0.category[c][field]]
  <2>1. DOMAIN f = Categories /\ \A c \in Categories : f[c] = 0
    BY <1>1, <1>6
  <2>2. FieldSum(r0.category, field) = SumFunctionOnSet(f, Categories)
    BY <2>1 DEF FieldSum, SumFunction
  <2> HIDE DEF f
  <2> QED
    BY <2>1, <2>2, CategoriesFinite, SumZero
<1>12. Balanced(r0)
  <2>1. \A c \in Categories : r0.category[c] = NoBooks
    BY <1>6
  <2>2. NoBooks.recovered = 0 /\ NoBooks.draws = 0 /\ NoBooks.revenue = 0
        /\ NoBooks.opportunity = 0 /\ NoBooks.cases = 0
    BY DEF NoBooks
  <2>3. \A field \in DOMAIN NoBooks : FieldSum(r0.category, field) = r0.overall[field]
    BY <1>1, <1>6, <1>11
  <2>4. ASSUME NEW c \in Categories
        PROVE  /\ r0.category[c].recovered <= r0.category[c].draws
               /\ r0.category[c].revenue <= Draws * r0.category[c].opportunity
               /\ r0.category[c].cases = Cardinality(OfCategory(r0.records, c))
    <3>1. Draws * 0 = 0
      BY EvaluationAssumption
    <3> QED
      BY <1>8, <1>10, <2>1, <2>2, <3>1
  <2> QED
    BY <2>3, <2>4 DEF Balanced
<1>13. Drawn(r0) /\ Granted(r0)
  BY <1>3, <1>6 DEF Drawn, Granted
<1>14. Owned(r0)
  BY <1>3, <1>6 DEF Owned
<1>15. \A e \in Evaluations : run[e] = r0
  BY DEF Init, r0
<1> QED
  BY <1>5, <1>7, <1>12, <1>13, <1>14, <1>15 DEF Inv, Kept, Sound

(* What a turn of the loop starts from.                                     *)
LEMMA TurnStarts ==
  ASSUME Inv, NEW e \in Evaluations, Working(e)
  PROVE  /\ run[e] \in Run /\ Sound(run[e]) /\ run[e].status = "running"
         /\ NextCase(e) \in Ids /\ NextCase(e) = Len(run[e].records) + 1
         /\ Decider[e] # "model" => Owned(run[e])
         /\ aged \in BOOLEAN
BY DEF Inv, Types, Kept, Working, NextCase

(* A turn of an agent, whatever it proposes.                                *)
LEMMA AgentTurn ==
  ASSUME Inv, NEW e \in Evaluations, Working(e), NEW p \in Proposed,
         NEW s, s = AgentCase(run[e], NextCase(e), p)
  PROVE  /\ s \in Run /\ Sound(s)
         /\ Owned(run[e]) /\ p.category = Dataset[NextCase(e)].category => Owned(s)
<1>1. /\ run[e] \in Run /\ Sound(run[e]) /\ run[e].status = "running"
      /\ NextCase(e) \in Ids /\ NextCase(e) = Len(run[e].records) + 1
      /\ aged \in BOOLEAN
  BY TurnStarts
<1>2. PICK r, i, v : r = run[e] /\ i = NextCase(e) /\ v = Verdict(i, p)
  OBVIOUS
<1>3. PICK approved : approved = (v.decision = "APPROVE")
  OBVIOUS
<1>4. approved \in BOOLEAN /\ s = Entered(r, i, p, v.policy, approved)
  BY <1>2, <1>3 DEF AgentCase
<1>5. PICK new : new = NewRecord(i, p, v.policy, approved)
  OBVIOUS
<1>6. v.policy \in Policies /\ Deserved(i, new)
  BY <1>1, <1>2, <1>3, <1>5, VerdictDeserved
<1>7. /\ s \in Run /\ Sound(s)
      /\ Owned(r) /\ p.category = Dataset[i].category => Owned(s)
  BY <1>1, <1>2, <1>4, <1>5, <1>6, EnteredSound
<1> QED
  BY <1>2, <1>7

LEMMA BeginKeeps == ASSUME Inv, NEW e \in Evaluations, Begin(e) PROVE Inv'
<1> DEFINE s == [run[e] EXCEPT !.status = "running"]
<1>1. run[e] \in Run /\ run[e].status = "idle" /\ Kept(e)
  BY DEF Begin, Inv, Types
<1>2. s \in Run
  BY <1>1 DEF Run
<1>3. /\ s.status = "running" /\ s.records = run[e].records /\ s.overall = run[e].overall
      /\ s.category = run[e].category
  BY <1>1 DEF Run
<1>4. run' = [run EXCEPT ![e] = s] /\ UNCHANGED <<luck, aged>>
  BY DEF Begin
<1> HIDE DEF s
<1>5. Sound(s)
  BY <1>1, <1>3 DEF Kept, Sound, WithinDataset, Balanced, Drawn, Granted
<1>6. Decider[e] # "model" => Owned(s)
  BY <1>1, <1>3 DEF Kept, Owned
<1> QED
  BY <1>2, <1>4, <1>5, <1>6, StepKeeps

LEMMA BaselineCaseKeeps == ASSUME Inv, NEW e \in Evaluations, BaselineCase(e) PROVE Inv'
<1>1. PICK r, i, policy, s :
        /\ r = run[e] /\ i = NextCase(e)
        /\ policy = IF Eligible(i) THEN "P_CREATE_LINK_IMMEDIATE" ELSE "P_NO_ACTION"
        /\ s = Entered(r, i, Propose(i, policy), policy, TRUE)
        /\ run' = [run EXCEPT ![e] = s] /\ UNCHANGED <<luck, aged>>
        /\ Working(e) /\ Decider[e] # "model"
  BY DEF BaselineCase
<1>2. /\ r \in Run /\ Sound(r) /\ r.status = "running"
      /\ i \in Ids /\ i = Len(r.records) + 1 /\ aged \in BOOLEAN
      /\ Owned(r)
  BY <1>1, TurnStarts
<1>3. PICK approved : approved = TRUE
  OBVIOUS
<1>4. policy \in Policies /\ (policy \in LinkPolicies => Eligible(i))
  BY <1>1 DEF Policies, LinkPolicies
<1>5. PICK p \in Proposed : p = Propose(i, policy)
  BY <1>2, <1>4, ProposalsTyped
<1>6. /\ p.amount = Dataset[i].amount /\ p.currency = Dataset[i].currency
      /\ p.category = Dataset[i].category
  BY <1>5 DEF Propose
<1>7. PICK new : new = NewRecord(i, p, policy, approved)
  OBVIOUS
<1>8. Deserved(i, new)
  <2>1. /\ new.policy = policy /\ new.approved = approved /\ new.proposed = p
        /\ new.aged = aged
    BY <1>7 DEF NewRecord
  <2>2. Context(i, Dataset[i].category)
          = [amount |-> Dataset[i].amount, currency |-> Dataset[i].currency,
             category |-> new.proposed.category, link |-> Dataset[i].attempted,
             stale |-> new.aged]
    BY <1>6, <2>1 DEF Context
  <2>3. Eligible(i) => ThenEligible(i, new)
    BY <2>2, Zenon DEF Eligible, ThenEligible
  <2>4. SameCurrency(p.currency, Dataset[i].currency)
    BY <1>6 DEF SameCurrency
  <2> QED
    BY <1>3, <1>4, <1>6, <2>1, <2>3, <2>4 DEF Deserved
<1>9. s = Entered(r, i, p, policy, approved)
  BY <1>1, <1>3, <1>5, Zenon
<1>10. s \in Run /\ Sound(s) /\ (Owned(r) /\ p.category = Dataset[i].category => Owned(s))
  <2>1. approved \in BOOLEAN /\ policy \in Policies
    BY <1>3, <1>4
  <2> QED
    BY <1>2, <1>7, <1>8, <1>9, <2>1, EnteredSound
<1> QED
  BY <1>1, <1>2, <1>6, <1>10, StepKeeps

LEMMA MockCaseKeeps == ASSUME Inv, NEW e \in Evaluations, MockCase(e) PROVE Inv'
<1>1. PICK p, s :
        /\ p = MockDecision(NextCase(e)) /\ s = AgentCase(run[e], NextCase(e), p)
        /\ run' = [run EXCEPT ![e] = s] /\ UNCHANGED <<luck, aged>>
        /\ Working(e) /\ Decider[e] # "model"
  BY DEF MockCase
<1>2. p \in Proposed /\ p.category = Dataset[NextCase(e)].category /\ Owned(run[e])
  <2>1. p.category = Dataset[NextCase(e)].category
    BY <1>1, Zenon DEF MockDecision, Propose
  <2> QED
    BY <1>1, <2>1, TurnStarts, ProposalsTyped
<1>3. s \in Run /\ Sound(s) /\ Owned(s)
  BY <1>1, <1>2, AgentTurn
<1> QED
  BY <1>1, <1>3, StepKeeps

LEMMA ModelProposesKeeps == ASSUME Inv, NEW e \in Evaluations, ModelProposes(e) PROVE Inv'
<1>1. PICK answer, p, t :
        /\ answer \in Answers /\ p = Completed(NextCase(e), answer) /\ t = AgentCase(run[e], NextCase(e), p)
        /\ run' = [run EXCEPT ![e] = t] /\ UNCHANGED <<luck, aged>>
        /\ Working(e) /\ Decider[e] = "model"
  BY DEF ModelProposes
<1>2. p \in Proposed
  BY <1>1, TurnStarts, ProposalsTyped
<1>3. t \in Run /\ Sound(t)
  BY <1>1, <1>2, AgentTurn
<1> QED
  BY <1>1, <1>3, StepKeeps

LEMMA ModelFallsBackKeeps == ASSUME Inv, NEW e \in Evaluations, ModelFallsBack(e) PROVE Inv'
<1>1. PICK p, t :
        /\ p = SafeFallback(NextCase(e)) /\ t = AgentCase(run[e], NextCase(e), p)
        /\ run' = [run EXCEPT ![e] = t] /\ UNCHANGED <<luck, aged>>
        /\ Working(e) /\ Decider[e] = "model"
  BY DEF ModelFallsBack
<1>2. p \in Proposed
  BY <1>1, TurnStarts, ProposalsTyped
<1>3. t \in Run /\ Sound(t)
  BY <1>1, <1>2, AgentTurn
<1> QED
  BY <1>1, <1>3, StepKeeps

(* The end of an evaluation, by its own account or not, writes no record.   *)
LEMMA EndKeeps ==
  ASSUME Inv, NEW e \in Evaluations, ModelFails(e) \/ Finish(e)
  PROVE  Inv'
<1>1. PICK status, s :
        /\ s = [run[e] EXCEPT !.status = status]
        /\ run' = [run EXCEPT ![e] = s] /\ UNCHANGED <<luck, aged>>
        /\ \/ status = "failed"
           \/ status = "done" /\ NextCase(e) \notin Ids
  BY DEF ModelFails, Finish, NoneLeft
<1>2. run[e] \in Run /\ Kept(e)
  BY DEF Inv, Types
<1>3. s \in Run
  BY <1>1, <1>2 DEF Run
<1>4. /\ s.status = status /\ s.records = run[e].records /\ s.overall = run[e].overall
      /\ s.category = run[e].category
  BY <1>1, <1>2 DEF Run
<1>5. WithinDataset(s)
  <2>1. Len(run[e].records) \in Nat /\ Len(Dataset) \in Nat /\ Ids = 1 .. Len(Dataset)
    BY <1>2, EvaluationAssumption DEF Run, Ids
  <2> QED
    BY <1>1, <1>2, <1>4, <2>1 DEF Kept, Sound, WithinDataset, NextCase
<1>6. Sound(s)
  BY <1>2, <1>4, <1>5 DEF Kept, Sound, Balanced, Drawn, Granted
<1>7. Decider[e] # "model" => Owned(s)
  BY <1>2, <1>4 DEF Kept, Owned
<1> QED
  BY <1>1, <1>3, <1>6, <1>7, StepKeeps

(* No record speaks of the clock but the one it was written with.           *)
LEMMA AgeKeeps == ASSUME Inv, Age PROVE Inv'
<1>1. Types'
  BY DEF Inv, Types, Age
<1>2. ASSUME NEW e \in Evaluations PROVE Kept(e)'
  <2>1. Kept(e) /\ run' = run /\ luck' = luck
    BY DEF Inv, Age
  <2> QED
    BY <2>1 DEF Kept, Owned, Sound, Drawn, Recovered, Simulate
<1> QED
  BY <1>1, <1>2 DEF Inv

LEMMA InvNext == ASSUME Inv, [Next]_vars PROVE Inv'
<1>1. CASE UNCHANGED vars
  <2>1. Types'
    BY <1>1 DEF Inv, Types, vars
  <2>2. ASSUME NEW e \in Evaluations PROVE Kept(e)'
    <3>1. Kept(e) /\ run' = run /\ luck' = luck
      BY <1>1 DEF Inv, vars
    <3> QED
      BY <3>1 DEF Kept, Owned, Sound, Drawn, Recovered, Simulate
  <2> QED
    BY <2>1, <2>2 DEF Inv
<1>2. CASE Age
  BY <1>2, AgeKeeps
<1>3. ASSUME NEW e \in Evaluations,
             \/ Begin(e) \/ BaselineCase(e) \/ MockCase(e) \/ ModelProposes(e)
             \/ ModelFallsBack(e) \/ ModelFails(e) \/ Finish(e)
      PROVE  Inv'
  BY <1>3, BeginKeeps, BaselineCaseKeeps, MockCaseKeeps, ModelProposesKeeps,
     ModelFallsBackKeeps, EndKeeps
<1> QED
  BY <1>1, <1>2, <1>3 DEF Next

LEMMA InvHolds == Spec => []Inv
BY InvInit, InvNext, PTL DEF Spec

-----------------------------------------------------------------------------
(***************************************************************************)
(* What it implies.                                                        *)
(***************************************************************************)

(* A record is of a case of the dataset.                                    *)
LEMMA RecordsAreCases ==
  ASSUME Inv, NEW e \in Evaluations
  PROVE  /\ run[e] \in Run
         /\ DOMAIN run[e].records \subseteq Ids
         /\ \A i \in DOMAIN run[e].records : run[e].records[i] \in Record
<1>1. run[e] \in Run /\ WithinDataset(run[e])
  BY DEF Inv, Types, Kept, Sound
<1>2. run[e].records \in Seq(Record)
  BY <1>1 DEF Run
<1>3. /\ Len(run[e].records) \in Nat /\ DOMAIN run[e].records = 1 .. Len(run[e].records)
      /\ Len(Dataset) \in Nat /\ Ids = 1 .. Len(Dataset)
  BY <1>2, EvaluationAssumption DEF Ids
<1> QED
  BY <1>1, <1>2, <1>3 DEF WithinDataset

LEMMA InvTypeOK == ASSUME Inv PROVE TypeOK
<1>1. ASSUME NEW e \in Evaluations
      PROVE  /\ run[e].status \in {"idle", "running", "done", "failed"}
             /\ run[e].overall \in Books
             /\ run[e].category \in [Categories -> Books]
             /\ Len(run[e].records) <= Len(Dataset)
             /\ run[e].status = "done" => Len(run[e].records) = Len(Dataset)
             /\ \A i \in DOMAIN run[e].records : run[e].records[i].policy \in Policies
  <2>1. WithinDataset(run[e])
    BY DEF Inv, Kept, Sound
  <2>2. \A i \in DOMAIN run[e].records : run[e].records[i].policy \in Policies
    BY RecordsAreCases DEF Record
  <2> QED
    BY <2>1, <2>2, RecordsAreCases DEF Run, WithinDataset
<1> QED
  BY <1>1 DEF Inv, Types, TypeOK

(* The sum over the five categories, written out.                           *)
LEMMA SumOfFive ==
  ASSUME NEW f \in [Categories -> Int]
  PROVE  SumFunction(f) = f["C1"] + f["C2"] + f["C3"] + f["C4"] + f["C5"]
<1> DEFINE S(x) == SumFunctionOnSet(f, x)
<1>0. /\ Categories = {"C1", "C2", "C3", "C4", "C5"} /\ IsFiniteSet(Categories)
      /\ \A x \in SUBSET Categories : IsFiniteSet(x)
      /\ \A x \in Categories : f[x] \in Int
      /\ SumFunction(f) = S(Categories)
  BY CategoriesFinite, FS_Subset DEF Categories, SumFunction
<1>1. ASSUME NEW x \in SUBSET Categories, NEW c \in x
      PROVE  S(x) = f[c] + S(x \ {c})
  <2>1. IsFiniteSet(x) /\ \A y \in x : f[y] \in Int
    BY <1>0
  <2> QED
    BY <2>1, SumRemove
<1>2. S({}) = 0
  BY SumEmpty
<1> HIDE DEF S
<1>3. S({"C5"}) = f["C5"]
  <2>1. S({"C5"}) = f["C5"] + S({"C5"} \ {"C5"})
    BY <1>0, <1>1
  <2>2. {"C5"} \ {"C5"} = {} /\ f["C5"] \in Int
    BY <1>0
  <2>3. S({"C5"}) = f["C5"] + S({})
    BY <2>1, <2>2
  <2> QED
    BY <1>2, <2>2, <2>3
<1>4. S({"C4", "C5"}) = f["C4"] + S({"C5"})
  <2>1. S({"C4", "C5"}) = f["C4"] + S({"C4", "C5"} \ {"C4"})
    BY <1>0, <1>1
  <2>2. {"C4", "C5"} \ {"C4"} = {"C5"}
    OBVIOUS
  <2> QED
    BY <2>1, <2>2
<1>5. S({"C3", "C4", "C5"}) = f["C3"] + S({"C4", "C5"})
  <2>1. S({"C3", "C4", "C5"}) = f["C3"] + S({"C3", "C4", "C5"} \ {"C3"})
    BY <1>0, <1>1
  <2>2. {"C3", "C4", "C5"} \ {"C3"} = {"C4", "C5"}
    OBVIOUS
  <2> QED
    BY <2>1, <2>2
<1>6. S({"C2", "C3", "C4", "C5"}) = f["C2"] + S({"C3", "C4", "C5"})
  <2>1. S({"C2", "C3", "C4", "C5"}) = f["C2"] + S({"C2", "C3", "C4", "C5"} \ {"C2"})
    BY <1>0, <1>1
  <2>2. {"C2", "C3", "C4", "C5"} \ {"C2"} = {"C3", "C4", "C5"}
    OBVIOUS
  <2> QED
    BY <2>1, <2>2
<1>7. S(Categories) = f["C1"] + S({"C2", "C3", "C4", "C5"})
  <2>1. S(Categories) = f["C1"] + S(Categories \ {"C1"})
    BY <1>0, <1>1
  <2>2. Categories \ {"C1"} = {"C2", "C3", "C4", "C5"}
    BY <1>0
  <2> QED
    BY <2>1, <2>2
<1> QED
  BY <1>0, <1>3, <1>4, <1>5, <1>6, <1>7

(* The floor, as TLA+ defines it.                                           *)
LEMMA FloorIs ==
  ASSUME NEW n \in Nat, NEW d \in Nat \ {0}
  PROVE  \E q \in Nat, m \in 0 .. d - 1 : q = n \div d /\ n = d * q + m
<1>1. n = d * (n \div d) + (n % d) /\ n % d \in 0 .. d - 1 /\ n \div d \in Nat
  OBVIOUS
<1> QED
  BY <1>1

LEMMA FloorBounded ==
  ASSUME NEW n \in Nat, NEW d \in Nat \ {0}, NEW k \in Nat, n <= d * k
  PROVE  n \div d <= k
<1>1. PICK q \in Nat, m \in 0 .. d - 1 : q = n \div d /\ n = d * q + m
  BY FloorIs
<1> SUFFICES ASSUME q >= k + 1 PROVE FALSE
  BY <1>1
<1>2. d * q >= d * (k + 1)
  OBVIOUS
<1>3. d * (k + 1) = d * k + d
  OBVIOUS
<1> QED
  BY <1>1, <1>2, <1>3

(* What five floors lose against the floor of the sum.                      *)
LEMMA FloorsLose ==
  ASSUME NEW d \in Nat \ {0}, NEW Q \in Nat, NEW M \in 0 .. d - 1,
         NEW q1 \in Nat, NEW q2 \in Nat, NEW q3 \in Nat, NEW q4 \in Nat, NEW q5 \in Nat,
         NEW m1 \in 0 .. d - 1, NEW m2 \in 0 .. d - 1, NEW m3 \in 0 .. d - 1,
         NEW m4 \in 0 .. d - 1, NEW m5 \in 0 .. d - 1,
         d * Q + M = (d * q1 + m1) + (d * q2 + m2) + (d * q3 + m3) + (d * q4 + m4) + (d * q5 + m5)
  PROVE  Q - (q1 + q2 + q3 + q4 + q5) \in 0 .. 4
<1>1. PICK z \in Int : z = Q - (q1 + q2 + q3 + q4 + q5)
  OBVIOUS
<1>2. d * z = d * Q - (d * q1 + d * q2 + d * q3 + d * q4 + d * q5)
  BY <1>1
<1>3. PICK dz \in Int : dz = d * z /\ dz = m1 + m2 + m3 + m4 + m5 - M
  BY <1>2
<1>4. -d < dz /\ dz < 5 * d
  BY <1>3
<1>5. z >= 0
  <2> SUFFICES ASSUME z <= -1 PROVE FALSE
    OBVIOUS
  <2>1. d * z <= -d
    OBVIOUS
  <2> QED
    BY <1>3, <1>4, <2>1
<1>6. z <= 4
  <2> SUFFICES ASSUME z >= 5 PROVE FALSE
    OBVIOUS
  <2>1. d * z >= 5 * d
    OBVIOUS
  <2> QED
    BY <1>3, <1>4, <2>1
<1> QED
  BY <1>1, <1>5, <1>6

LEMMA InvBooksBalance == ASSUME Inv PROVE BooksBalance
<1> SUFFICES ASSUME NEW e \in Evaluations
             PROVE  /\ \A field \in DOMAIN NoBooks : Total(e, field) = run[e].overall[field]
                    /\ \A c \in Categories :
                         LET b == run[e].category[c]
                         IN  b.recovered <= b.draws /\ Expected(b) <= b.opportunity
                             /\ b.cases = Cardinality({i \in DOMAIN run[e].records :
                                                          Dataset[i].category = c})
                    /\ LET parts == SumFunction([c \in Categories |-> Expected(run[e].category[c])])
                       IN  Expected(run[e].overall) - parts \in 0 .. Cardinality(Categories) - 1
  BY DEF BooksBalance
<1>1. run[e] \in Run /\ Balanced(run[e])
  BY RecordsAreCases DEF Inv, Kept, Sound
<1>2. run[e].overall \in Books /\ run[e].category \in [Categories -> Books]
  BY <1>1 DEF Run
<1>3. \A field \in DOMAIN NoBooks : FieldSum(run[e].category, field) = run[e].overall[field]
  BY <1>1 DEF Balanced
<1>4. \A field \in DOMAIN NoBooks : Total(e, field) = run[e].overall[field]
  BY <1>3 DEF Total, FieldSum
<1>5. ASSUME NEW b \in Books PROVE Expected(b) \in Int /\ b.revenue \in Nat /\ b.opportunity \in Nat
  BY <1>5, EvaluationAssumption DEF Expected, Books
<1>6. ASSUME NEW c \in Categories
      PROVE  /\ run[e].category[c].recovered <= run[e].category[c].draws
             /\ Expected(run[e].category[c]) <= run[e].category[c].opportunity
             /\ run[e].category[c].cases
                  = Cardinality({i \in DOMAIN run[e].records : Dataset[i].category = c})
  <2>1. PICK b \in Books : b = run[e].category[c]
    BY <1>2
  <2>2. b.revenue <= Draws * b.opportunity /\ b.revenue \in Nat /\ b.opportunity \in Nat
    BY <1>1, <1>5, <2>1 DEF Balanced
  <2>3. b.revenue \div Draws <= b.opportunity
    BY <2>2, EvaluationAssumption, FloorBounded
  <2> QED
    BY <1>1, <2>1, <2>3 DEF Balanced, OfCategory, Expected
<1>7. Expected(run[e].overall) - SumFunction([c \in Categories |-> Expected(run[e].category[c])])
        \in 0 .. 4
  <2> DEFINE revenue == [c \in Categories |-> run[e].category[c]["revenue"]]
             expected == [c \in Categories |-> Expected(run[e].category[c])]
  <2>1. /\ revenue \in [Categories -> Int] /\ expected \in [Categories -> Int]
        /\ \A c \in Categories : revenue[c] \in Nat /\ expected[c] = revenue[c] \div Draws
    BY <1>2, <1>5 DEF Expected
  <2>2. SumFunction(revenue) = run[e].overall.revenue
    <3>1. "revenue" \in DOMAIN NoBooks
      BY DEF NoBooks
    <3> QED
      BY <1>3, <3>1 DEF FieldSum
  <2>3. PICK R \in Nat : R = run[e].overall.revenue /\ Expected(run[e].overall) = R \div Draws
    BY <1>2, <1>5 DEF Expected
  <2> HIDE DEF revenue, expected
  <2>4. PICK Q \in Nat, M \in 0 .. Draws - 1 : Q = R \div Draws /\ R = Draws * Q + M
    BY FloorIs, EvaluationAssumption, Zenon
  <2>5. ASSUME NEW c \in Categories
        PROVE  \E q \in Nat, m \in 0 .. Draws - 1 : expected[c] = q /\ revenue[c] = Draws * q + m
    <3>1. PICK r \in Nat : r = revenue[c] /\ expected[c] = r \div Draws
      BY <2>1
    <3>2. PICK q \in Nat, m \in 0 .. Draws - 1 : q = r \div Draws /\ r = Draws * q + m
      BY FloorIs, EvaluationAssumption, Zenon
    <3> QED
      BY <3>1, <3>2
  <2>6. PICK q1 \in Nat, m1 \in 0 .. Draws - 1 : expected["C1"] = q1 /\ revenue["C1"] = Draws * q1 + m1
    BY <2>5 DEF Categories
  <2>7. PICK q2 \in Nat, m2 \in 0 .. Draws - 1 : expected["C2"] = q2 /\ revenue["C2"] = Draws * q2 + m2
    BY <2>5 DEF Categories
  <2>8. PICK q3 \in Nat, m3 \in 0 .. Draws - 1 : expected["C3"] = q3 /\ revenue["C3"] = Draws * q3 + m3
    BY <2>5 DEF Categories
  <2>9. PICK q4 \in Nat, m4 \in 0 .. Draws - 1 : expected["C4"] = q4 /\ revenue["C4"] = Draws * q4 + m4
    BY <2>5 DEF Categories
  <2>10. PICK q5 \in Nat, m5 \in 0 .. Draws - 1 : expected["C5"] = q5 /\ revenue["C5"] = Draws * q5 + m5
    BY <2>5 DEF Categories
  <2>11. SumFunction(revenue) = revenue["C1"] + revenue["C2"] + revenue["C3"] + revenue["C4"] + revenue["C5"]
    BY <2>1, SumOfFive
  <2>12. SumFunction(expected)
           = expected["C1"] + expected["C2"] + expected["C3"] + expected["C4"] + expected["C5"]
    BY <2>1, SumOfFive
  <2>13. Draws * Q + M = (Draws * q1 + m1) + (Draws * q2 + m2) + (Draws * q3 + m3)
                           + (Draws * q4 + m4) + (Draws * q5 + m5)
    BY <2>2, <2>3, <2>4, <2>6, <2>7, <2>8, <2>9, <2>10, <2>11
  <2>14. Q - (q1 + q2 + q3 + q4 + q5) \in 0 .. 4
    BY <2>13, FloorsLose, EvaluationAssumption
  <2>15. Expected(run[e].overall) - SumFunction(expected) \in 0 .. 4
    BY <2>3, <2>4, <2>6, <2>7, <2>8, <2>9, <2>10, <2>12, <2>14
  <2> QED
    BY <2>15 DEF expected
<1>8. Cardinality(Categories) - 1 = 4
  BY CategoriesFinite
<1> HIDE DEF Expected
<1> QED
  BY <1>4, <1>6, <1>7, <1>8

LEMMA InvSameCustomers == ASSUME Inv PROVE SameCustomers
<1> SUFFICES ASSUME NEW e \in Evaluations, NEW f \in Evaluations,
                    NEW i \in DOMAIN run[e].records \cap DOMAIN run[f].records,
                    Dataset[i].chance[run[e].records[i].policy]
                      <= Dataset[i].chance[run[f].records[i].policy]
             PROVE  run[e].records[i].recovered \subseteq run[f].records[i].recovered
  BY DEF SameCustomers
<1>1. /\ i \in Ids /\ run[e].records[i].policy \in Policies
      /\ run[f].records[i].policy \in Policies
  BY RecordsAreCases DEF Record
<1>2. Dataset[i].chance \in [Policies -> Nat]
  BY <1>1, CaseTyped
<1>3. /\ run[e].records[i].recovered = Recovered(i, run[e].records[i].policy)
      /\ run[f].records[i].recovered = Recovered(i, run[f].records[i].policy)
  BY DEF Inv, Kept, Sound, Drawn
<1>4. PICK a \in Nat, b \in Nat :
        /\ a = Dataset[i].chance[run[e].records[i].policy]
        /\ b = Dataset[i].chance[run[f].records[i].policy]
        /\ a <= b
  BY <1>1, <1>2
<1>5. \A s \in Seeds : luck[<<i, s>>] \in Nat
  BY <1>1, EvaluationAssumption DEF Inv, Types
<1>6. \A s \in Seeds : luck[<<i, s>>] < a => luck[<<i, s>>] < b
  BY <1>4, <1>5
<1> QED
  BY <1>3, <1>4, <1>6 DEF Recovered, Simulate

(* What eligibility and guardrails have let pass is within every limit.     *)
LEMMA EligibleMeans ==
  ASSUME NEW i, NEW rec, ThenEligible(i, rec)
  PROVE  /\ ~(Dataset[i].amount > HighValue) /\ ~Dataset[i].attempted
         /\ ~(Dataset[i].failed >= MaxAttempts) /\ ~rec.aged
<1>1. PICK x :
        x = [amount |-> Dataset[i].amount, currency |-> Dataset[i].currency,
             category |-> rec.proposed.category, link |-> Dataset[i].attempted,
             stale |-> rec.aged]
  OBVIOUS
<1>2. /\ x.amount = Dataset[i].amount /\ x.link = Dataset[i].attempted
      /\ x.stale = rec.aged
  BY <1>1
<1>3. Evaluate(x, TRUE, Dataset[i].failed) = "ELIGIBLE"
  BY <1>1, Zenon DEF ThenEligible
<1>4. ~(x.amount > HighValue) /\ ~x.link /\ ~x.stale /\ ~CooldownReached(TRUE, Dataset[i].failed)
  BY <1>3 DEF Evaluate
<1> QED
  BY <1>2, <1>4 DEF CooldownReached

LEMMA OwnedIsEligible ==
  ASSUME NEW i, NEW rec, ThenEligible(i, rec), rec.proposed.category = Dataset[i].category
  PROVE  EligibleThen(i, rec)
<1>1. [Context(i, Dataset[i].category) EXCEPT !.stale = rec.aged]
        = [amount |-> Dataset[i].amount, currency |-> Dataset[i].currency,
           category |-> rec.proposed.category, link |-> Dataset[i].attempted,
           stale |-> rec.aged]
  BY DEF Context
<1> QED
  BY <1>1, Zenon DEF ThenEligible, EligibleThen

LEMMA InvLimitsBind == ASSUME Inv PROVE LimitsBindProposals
<1> SUFFICES ASSUME NEW e \in Evaluations, NEW i \in DOMAIN run[e].records,
                    NEW r, r = run[e].records[i], r.policy \in LinkPolicies
             PROVE  /\ r.approved
                    /\ r.proposed.amount = Dataset[i].amount
                    /\ SameCurrency(r.proposed.currency, Dataset[i].currency)
                    /\ Dataset[i].amount <= HighValue /\ ~Dataset[i].attempted
                    /\ Dataset[i].failed < MaxAttempts /\ ~r.aged
                    /\ Decider[e] # "model" \/ r.proposed.category = Dataset[i].category
                         => EligibleThen(i, r)
  BY Zenon DEF LimitsBindProposals
<1>1. Deserved(i, r) /\ (Decider[e] # "model" => r.proposed.category = Dataset[i].category)
  BY DEF Inv, Kept, Sound, Granted, Owned
<1>2. /\ r.approved /\ r.proposed.amount = Dataset[i].amount
      /\ SameCurrency(r.proposed.currency, Dataset[i].currency)
      /\ ThenEligible(i, r)
  BY <1>1 DEF Deserved
<1>3. i \in Ids
  BY RecordsAreCases
<1>4. Dataset[i].amount \in Nat /\ Dataset[i].failed \in Nat
  BY <1>3, CaseTyped DEF EvaluationCases
<1>5. /\ ~(Dataset[i].amount > HighValue) /\ ~Dataset[i].attempted
      /\ ~(Dataset[i].failed >= MaxAttempts) /\ ~r.aged
  BY <1>2, EligibleMeans
<1>6. Dataset[i].amount <= HighValue /\ Dataset[i].failed < MaxAttempts
  BY <1>4, <1>5, LimitAssumption
<1>7. Decider[e] # "model" \/ r.proposed.category = Dataset[i].category => EligibleThen(i, r)
  BY <1>1, <1>2, OwnedIsEligible
<1> QED
  BY <1>2, <1>5, <1>6, <1>7

(* Types: whatever a model proposes, every record is of a policy that there *)
(* is, and an evaluation that is done has gone through the whole dataset    *)
(* (eval/agent_evaluator.py evaluate).                                      *)
THEOREM EvaluationTyped == Spec => []TypeOK
BY InvHolds, InvTypeOK, PTL

(* The books balance after every case, for any dataset and any draws: the   *)
(* categories add up to the whole, none recovers more than its opportunity, *)
(* and the floors of the five categories lose less than five paise against  *)
(* the floor of the whole (the report of agent_evaluator.py).               *)
THEOREM BooksAlwaysBalance == Spec => []BooksBalance
BY InvHolds, InvBooksBalance, PTL

(* Of two policies for a case, the one with the better chance recovers      *)
(* every draw that the other recovers, in whatever evaluations they were    *)
(* applied (simulator.py: the draw depends on case and seed alone).         *)
THEOREM CustomersAreTheSame == Spec => []SameCustomers
BY InvHolds, InvSameCustomers, PTL

(* Whatever a model proposes, a link is granted only as approved, for the   *)
(* amount and currency of the case and within every limit of the case       *)
(* itself; and where the proposal names the case's own category, as the     *)
(* baseline and the mock provider always do, only for an eligible case      *)
(* (EvaluationSafetyValidator.validate_proposal).                           *)
THEOREM LimitsAlwaysBind == Spec => []LimitsBindProposals
BY InvHolds, InvLimitsBind, PTL
=============================================================================
