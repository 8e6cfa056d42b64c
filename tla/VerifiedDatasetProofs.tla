------------------------ MODULE VerifiedDatasetProofs ------------------------
(***************************************************************************)
(* Proofs about VerifiedDataset, for every source, toolchain, number of    *)
(* ranks and batch size, and for every number of crashes and changes.      *)
(***************************************************************************)
EXTENDS VerifiedDataset, FiniteSetTheorems, TLAPS

(***************************************************************************)
(* Records: the candidates of a revision are finitely many, and their      *)
(* statements tell them apart.                                             *)
(***************************************************************************)

LEMMA ImageFinite ==
    ASSUME NEW S, NEW f, IsFiniteSet(S)
    PROVE  IsFiniteSet({f[x] : x \in S})
<1> DEFINE g == [x \in S |-> f[x]]
<1>1. g \in Surjection(S, {f[x] : x \in S})
  BY DEF Surjection
<1> QED BY <1>1, FS_Surjection

LEMMA StartsAreRows ==
    ASSUME NEW rows \in Revisions
    PROVE  Starts(rows) \subseteq 1 .. Len(rows) /\ Len(rows) \in Nat
  BY DatasetAssumption DEF Starts

LEMMA CandidatesFinite ==
    ASSUME NEW rows \in Revisions
    PROVE  IsFiniteSet(CandidatesOf(rows))
<1> DEFINE rs == Reconstructed(rows)
<1>1. IsFiniteSet(1 .. Len(rows))
  BY StartsAreRows, FS_Interval
<1>2. Unique(rs) \subseteq 1 .. Len(rows)
  BY StartsAreRows DEF Unique, Reconstructed
<1>3. IsFiniteSet(Unique(rs))
  BY <1>1, <1>2, FS_Subset
<1>4. IsFiniteSet({rs[k] : k \in Unique(rs)})
  BY <1>3, ImageFinite
<1> QED BY <1>4 DEF CandidatesOf

\* _deduplicate_statements keeps one record of a statement.
LEMMA StatementNamesCandidate ==
    ASSUME NEW rows \in Revisions,
           NEW r \in CandidatesOf(rows), NEW s \in CandidatesOf(rows), r.stmt = s.stmt
    PROVE  r = s
<1> DEFINE rs == Reconstructed(rows)
<1>1. PICK k \in Unique(rs) : r = rs[k]
  BY DEF CandidatesOf
<1>2. PICK l \in Unique(rs) : s = rs[l]
  BY DEF CandidatesOf
<1>3. k \in DOMAIN rs /\ l \in DOMAIN rs /\ k \in Nat /\ l \in Nat
  BY StartsAreRows DEF Unique, Reconstructed
<1>4. ~ (k < l) /\ ~ (l < k)
  <2>1. rs[k].reason = "none" /\ rs[l].reason = "none" /\ rs[k].stmt = rs[l].stmt
    BY <1>1, <1>2 DEF Unique
  <2>2. ~ Duplicate(rs, k) /\ ~ Duplicate(rs, l)
    BY DEF Unique
  <2> HIDE DEF rs
  <2> QED BY <1>3, <2>1, <2>2 DEF Duplicate
<1>5. k = l
  BY <1>3, <1>4
<1> QED BY <1>1, <1>2, <1>5

LEMMA VerifiedRow ==
    ASSUME NEW v \in Verified
    PROVE  \E r \in Candidates :
              /\ Succeeded(r) /\ v = Attest(r)
              /\ v.id = r.id /\ v.stmt = r.stmt /\ v.proof = r.proof /\ v.env = env
  BY DEF Verified, Attest

LEMMA VerifiedFinite ==
    ASSUME parquet \in Revisions PROVE IsFiniteSet(Verified)
<1>1. IsFiniteSet(Candidates)
  BY CandidatesFinite DEF Candidates
<1>2. IsFiniteSet({r \in Candidates : Succeeded(r)})
  BY <1>1, FS_Subset
<1> DEFINE S == {r \in Candidates : Succeeded(r)}
           f == [r \in S |-> Attest(r)]
<1>3. IsFiniteSet({f[r] : r \in S})
  BY <1>2, ImageFinite
<1>4. {f[r] : r \in S} = {Attest(r) : r \in S}
  OBVIOUS
<1> QED BY <1>3, <1>4 DEF Verified

LEMMA StatementNamesVerified ==
    ASSUME parquet \in Revisions, NEW v \in Verified, NEW w \in Verified, v.stmt = w.stmt
    PROVE  v = w
<1>1. PICK r \in Candidates : v = Attest(r) /\ v.stmt = r.stmt
  BY VerifiedRow
<1>2. PICK s \in Candidates : w = Attest(s) /\ w.stmt = s.stmt
  BY VerifiedRow
<1>3. r = s
  BY <1>1, <1>2, StatementNamesCandidate DEF Candidates
<1> QED BY <1>1, <1>2, <1>3

(***************************************************************************)
(* Selections: the three roles are apart, and all of them verified.        *)
(***************************************************************************)

Roles == {"train", "eval", "discovery"}

LEMMA SelectionApart ==
    ASSUME NEW s \in Selections
    PROVE  /\ DOMAIN s = Roles
           /\ s["train"] \subseteq Verified
           /\ s["eval"] \subseteq Verified \ s["train"]
           /\ s["discovery"] \subseteq (Verified \ s["train"]) \ s["eval"]
<1>1. PICK t \in TrainSelections : \E e \in Slices(Rest(t), EvalSize) :
         \E d \in Slices(Rest(t) \ e, DiscoverySize) :
            s = [train |-> t, eval |-> e, discovery |-> d]
  BY DEF Selections
<1>1a. PICK e \in Slices(Rest(t), EvalSize) :
         \E d \in Slices(Rest(t) \ e, DiscoverySize) :
            s = [train |-> t, eval |-> e, discovery |-> d]
  BY <1>1
<1>2. PICK d \in Slices(Rest(t) \ e, DiscoverySize) :
         s = [train |-> t, eval |-> e, discovery |-> d]
  BY <1>1a
<1>3. e \subseteq Rest(t) /\ d \subseteq Rest(t) \ e
  BY DEF Slices
<1>4. Rest(t) \subseteq Verified \ t
  BY DEF Rest, Eligible
<1>5. t \subseteq Verified
  <2>1. PICK m \in Taken(Eligible \ Single, TrainCount - SingleLimit) :
          \E u \in Taken(Single, TrainCount - Cardinality(m)) : t = m \cup u
    BY DEF TrainSelections
  <2>2. PICK u \in Taken(Single, TrainCount - Cardinality(m)) : t = m \cup u
    BY <2>1
  <2>3. \A S, n : \A T \in Taken(S, n) : T \subseteq S
    BY DEF Taken
  <2>4. m \subseteq Eligible \ Single /\ u \subseteq Single
    BY <2>3
  <2>5. Single \subseteq Eligible /\ Eligible \subseteq Verified
    BY DEF Single, Eligible
  <2> QED BY <2>2, <2>4, <2>5
<1>6. DOMAIN s = Roles /\ s["train"] = t /\ s["eval"] = e /\ s["discovery"] = d
  BY <1>2 DEF Roles
<1> QED BY <1>3, <1>4, <1>5, <1>6
(***************************************************************************)
(* The build: what holds between its steps whatever the sources are.       *)
(***************************************************************************)

FileNames == {"verified", "quarantined"} \cup Roles

BuildInv ==
    /\ parquet \in Revisions
    /\ pc \in {"down", "verify", "write", "failed", "done"}
    /\ pending \subseteq Candidates
    /\ pc # "verify" => pending = {}
    /\ left \in Seq(FileNames)
    /\ pc # "write" => left = <<>>
    /\ pc = "write" => \A i \in DOMAIN left : left[i] \in DOMAIN outputs

LEMMA AuditDomain ==
    /\ DOMAIN Audit = {"verified", "quarantined"}
    /\ Audit["verified"] = Verified /\ Audit["quarantined"] = Quarantined
  BY DEF Audit

\* What Select puts into the files.
LEMMA SelectedOutputs ==
    ASSUME Select
    PROVE  \/ outputs' = Audit /\ left' = AuditFiles
           \/ /\ left' = AuditFiles \o RoleFiles
              /\ \E s \in Selections :
                    /\ DOMAIN outputs' = FileNames
                    /\ outputs'["verified"] = Verified
                    /\ outputs'["quarantined"] = Quarantined
                    /\ \A f \in Roles : outputs'[f] = s[f]
<1>1. CASE Selections = {}
  BY <1>1 DEF Select
<1>2. CASE Selections # {}
  <2>1. PICK s \in Selections :
           outputs' = [f \in DOMAIN Audit \cup DOMAIN s |->
                         IF f \in DOMAIN s THEN s[f] ELSE Audit[f]]
    BY <1>2 DEF Select
  <2>2. DOMAIN s = Roles
    BY SelectionApart
  <2>3. DOMAIN outputs' = FileNames
    BY <2>1, <2>2, AuditDomain DEF FileNames
  <2>4. outputs'["verified"] = Verified /\ outputs'["quarantined"] = Quarantined
    BY <2>1, <2>2, AuditDomain DEF Roles
  <2>5. \A f \in Roles : outputs'[f] = s[f]
    BY <2>1, <2>2
  <2> QED BY <1>2, <2>3, <2>4, <2>5 DEF Select
<1> QED BY <1>1, <1>2

LEMMA NamesAreFiles ==
    /\ AuditFiles \in Seq(FileNames) /\ RoleFiles \in Seq(FileNames)
    /\ AuditFiles \o RoleFiles \in Seq(FileNames)
    /\ \A i \in DOMAIN AuditFiles : AuditFiles[i] \in {"verified", "quarantined"}
    /\ \A i \in DOMAIN (AuditFiles \o RoleFiles) : (AuditFiles \o RoleFiles)[i] \in FileNames
<1>1. AuditFiles \in Seq(FileNames) /\ RoleFiles \in Seq(FileNames)
  BY DEF AuditFiles, RoleFiles, FileNames, Roles
<1>2. AuditFiles \o RoleFiles \in Seq(FileNames)
  BY <1>1
<1>3. \A i \in DOMAIN (AuditFiles \o RoleFiles) : (AuditFiles \o RoleFiles)[i] \in FileNames
  BY <1>2
<1>4. \A i \in DOMAIN AuditFiles : AuditFiles[i] \in {"verified", "quarantined"}
  BY DEF AuditFiles
<1> QED BY <1>1, <1>2, <1>3, <1>4

LEMMA BuildInvInit == Init => BuildInv
  BY DEF Init, BuildInv

LEMMA BuildInvNext == BuildInv /\ [Next]_vars => BuildInv'
<1> SUFFICES ASSUME BuildInv, [Next]_vars PROVE BuildInv'
  OBVIOUS
<1> USE DEF BuildInv
<1>0. CASE UNCHANGED vars
  BY <1>0 DEF vars, build, training, Candidates
<1>1. CASE Begin
  <2>1. ToVerify \subseteq Candidates
    BY DEF ToVerify
  <2> QED BY <1>1, <2>1 DEF Begin, training, Candidates
<1>2. CASE PoolFails
  BY <1>2 DEF PoolFails, training, Candidates
<1>3. CASE Select
  <2>1. left' \in Seq(FileNames) /\ pc' = "write" /\ pending' = {} /\ parquet' = parquet
    BY <1>3, NamesAreFiles DEF Select
  <2>2. \A i \in DOMAIN left' : left'[i] \in DOMAIN outputs'
    BY <1>3, SelectedOutputs, NamesAreFiles, AuditDomain
  <2> QED BY <2>1, <2>2
<1>4. CASE WriteFile
  <2>1. /\ pc' = pc /\ pending' = pending /\ parquet' = parquet /\ outputs' = outputs
        /\ left # <<>> /\ left' = Tail(left) /\ pc = "write"
    BY <1>4 DEF WriteFile
  <2>2. Tail(left) \in Seq(FileNames)
    BY <2>1
  <2>3. \A i \in DOMAIN Tail(left) : Tail(left)[i] \in DOMAIN outputs
    <3>1. \A i \in DOMAIN Tail(left) : i + 1 \in DOMAIN left /\ Tail(left)[i] = left[i + 1]
      BY <2>1
    <3> QED BY <2>1, <3>1
  <2> QED BY <2>1, <2>2, <2>3 DEF Candidates
<1>5. CASE EndBuild
  BY <1>5 DEF EndBuild, training, Candidates
<1>6. CASE Crash
  BY <1>6 DEF Crash, training, Candidates
<1>7. CASE Change
  BY <1>7 DEF Change, build, training, Candidates
<1>8. ASSUME NEW r \in pending, NEW ok \in BOOLEAN, Persist(r, ok) PROVE BuildInv'
  BY <1>8 DEF Persist, training, Candidates
<1>9. CASE StartTraining
  BY <1>9 DEF StartTraining, build, Candidates
<1>10. CASE TrainStep
  BY <1>10 DEF TrainStep, build, Candidates
<1> QED BY <1>0, <1>1, <1>2, <1>3, <1>4, <1>5, <1>6, <1>7, <1>8, <1>9, <1>10 DEF Next

THEOREM BuildOrdered == Spec => []BuildInv
<1> QED BY BuildInvInit, BuildInvNext, PTL DEF Spec

\* A file that is written, whole or cut, holds rows of this run's outputs, and
\* the others stay.
LEMMA FileWritten ==
    ASSUME BuildInv, WriteFile
    PROVE  /\ Head(left) \in DOMAIN outputs /\ Head(left) \in FileNames
           /\ DOMAIN files' = {Head(left)} \cup DOMAIN files
           /\ files'[Head(left)] = [rows |-> outputs[Head(left)], torn |-> FALSE]
           /\ \A f \in DOMAIN files : f # Head(left) => files'[f] = files[f]
<1>1. /\ pc = "write" /\ left # <<>>
      /\ files' = [g \in DOMAIN files \cup {Head(left)} |->
                     IF g = Head(left) THEN [rows |-> outputs[Head(left)], torn |-> FALSE]
                                       ELSE files[g]]
  BY DEF WriteFile, Put
<1>2. 1 \in DOMAIN left /\ Head(left) = left[1] /\ left[1] \in FileNames
  BY <1>1 DEF BuildInv
<1> QED BY <1>1, <1>2 DEF BuildInv

LEMMA FileCut ==
    ASSUME BuildInv, Crash
    PROVE  \/ files' = files
           \/ /\ pc = "write" /\ Head(left) \in DOMAIN outputs
              /\ DOMAIN files' = {Head(left)} \cup DOMAIN files
              /\ files'[Head(left)].rows \subseteq outputs[Head(left)]
              /\ \A f \in DOMAIN files : f # Head(left) => files'[f] = files[f]
<1>1. CASE left = <<>>
  BY <1>1 DEF Crash
<1>2. CASE left # <<>>
  <2>1. \E part \in SUBSET outputs[Head(left)], t \in BOOLEAN :
           files' = [g \in DOMAIN files \cup {Head(left)} |->
                       IF g = Head(left) THEN [rows |-> part, torn |-> t] ELSE files[g]]
    BY <1>2 DEF Crash, Put
  <2>2. PICK part \in SUBSET outputs[Head(left)], t \in BOOLEAN :
           files' = [g \in DOMAIN files \cup {Head(left)} |->
                       IF g = Head(left) THEN [rows |-> part, torn |-> t] ELSE files[g]]
    BY <2>1
  <2>3. pc = "write" /\ 1 \in DOMAIN left /\ Head(left) = left[1]
    BY <1>2 DEF BuildInv
  <2> QED BY <2>2, <2>3 DEF BuildInv
<1> QED BY <1>1, <1>2
(***************************************************************************)
(* What is trained was compiled.                                           *)
(***************************************************************************)

Compiled(v) == Compiles(Content(v), v.env)

\* A result is the verdict on a candidate of some revision.
OfCandidate(row) ==
    \E p \in Revisions : \E r \in CandidatesOf(p) : row.id = r.id /\ row.of = Content(r)

ResultsInv == \A row \in results : OfCandidate(row)

TruthInv ==
    /\ \A row \in results : row.ok => Compiles(row.of, row.env)
    /\ pc = "write" /\ "train" \in DOMAIN outputs => \A v \in outputs["train"] : Compiled(v)
    /\ "train" \in DOMAIN files => \A v \in files["train"].rows : Compiled(v)
    /\ \A i \in DOMAIN perm : Compiled(perm[i])

LEMMA ResultOfCandidate ==
    ASSUME BuildInv, NEW r \in Candidates, NEW ok
    PROVE  /\ OfCandidate(Result(r, ok))
           /\ Result(r, ok).ok = ok /\ Result(r, ok).of = Content(r)
           /\ Result(r, ok).env = env
  BY DEF BuildInv, Candidates, OfCandidate, Result

\* The record that a successful result is found for is the one it was about.
LEMMA VerifiedCompiled ==
    ASSUME IdsNameContents(Revisions), BuildInv, ResultsInv, TruthInv, NEW v \in Verified
    PROVE  Compiled(v)
<1>1. PICK r \in Candidates :
         /\ Succeeded(r) /\ v.stmt = r.stmt /\ v.proof = r.proof /\ v.env = env
  BY VerifiedRow
<1>2. PICK row \in Existing : row.id = r.id /\ row.ok
  BY <1>1 DEF Succeeded
<1>3. row \in results /\ row.env = env
  BY <1>2 DEF Existing
<1>p. PICK p \in Revisions :
         \E s \in CandidatesOf(p) : row.id = s.id /\ row.of = Content(s)
  BY <1>3 DEF ResultsInv, OfCandidate
<1>4. PICK s \in CandidatesOf(p) : row.id = s.id /\ row.of = Content(s)
  BY <1>p
<1>5. Content(s) = Content(r)
  <2>1. parquet \in Revisions /\ r \in CandidatesOf(parquet)
    BY DEF BuildInv, Candidates
  <2>2. s.id = r.id => Content(s) = Content(r)
    BY <2>1 DEF IdsNameContents
  <2> QED BY <1>2, <1>4, <2>2
<1>6. Compiles(row.of, row.env)
  BY <1>2, <1>3 DEF TruthInv
<1>7. Content(v) = Content(r)
  BY <1>1 DEF Content
<1> QED BY <1>1, <1>3, <1>4, <1>5, <1>6, <1>7 DEF Compiled

\* The lines that a step adds are verdicts on candidates of now.
LEMMA ResultsGrow ==
    ASSUME BuildInv, [Next]_vars, NEW row \in results', row \notin results
    PROVE  \E r \in Candidates, ok \in BOOLEAN :
              row = Result(r, ok) /\ (ok => Compiles(Content(r), env))
<1>1. CASE Begin
  <2>1. PICK waits \in SUBSET ToVerify :
           results' = results \cup {Result(r, FALSE) : r \in ToVerify \ waits}
    BY <1>1 DEF Begin
  <2>2. PICK r \in ToVerify : row = Result(r, FALSE)
    BY <2>1
  <2> QED BY <2>2 DEF ToVerify
<1>2. ASSUME NEW r \in pending, NEW ok \in BOOLEAN, Persist(r, ok)
      PROVE  row = Result(r, ok) /\ (ok => Compiles(Content(r), env)) /\ r \in Candidates
  BY <1>2 DEF Persist, BuildInv
<1>3. ~ Begin /\ (\A r \in pending, ok \in BOOLEAN : ~ Persist(r, ok)) => results' = results
  BY DEF Next, vars, build, PoolFails, Select, WriteFile, EndBuild, Crash, Change,
         StartTraining, TrainStep
<1> QED BY <1>1, <1>2, <1>3

LEMMA ResultsInvNext ==
    ASSUME BuildInv, ResultsInv, [Next]_vars PROVE ResultsInv'
<1> SUFFICES ASSUME NEW row \in results' PROVE OfCandidate(row)
  BY DEF ResultsInv, OfCandidate, CandidatesOf
<1> QED BY ResultsGrow, ResultOfCandidate DEF ResultsInv

LEMMA TruthInvInit == Init => TruthInv
  BY DEF Init, TruthInv, Nothing

LEMMA TruthInvNext ==
    ASSUME IdsNameContents(Revisions), BuildInv, ResultsInv, TruthInv, [Next]_vars
    PROVE  TruthInv'
<1> DEFINE R == \A row \in results : row.ok => Compiles(row.of, row.env)
           O == pc = "write" /\ "train" \in DOMAIN outputs => \A v \in outputs["train"] : Compiled(v)
           F == "train" \in DOMAIN files => \A v \in files["train"].rows : Compiled(v)
           P == \A i \in DOMAIN perm : Compiled(perm[i])
<1>a. R /\ O /\ F /\ P
  BY DEF TruthInv
<1>b. R' /\ O' /\ F' /\ P' => TruthInv'
  BY DEF TruthInv
<1>c. R'
  <2> SUFFICES ASSUME NEW row \in results', row.ok PROVE Compiles(row.of, row.env)
    OBVIOUS
  <2>1. CASE row \in results
    BY <2>1, <1>a
  <2>2. CASE row \notin results
    <3>1. PICK r \in Candidates, ok \in BOOLEAN :
             row = Result(r, ok) /\ (ok => Compiles(Content(r), env))
      BY <2>2, ResultsGrow
    <3> QED BY <3>1, ResultOfCandidate
  <2> QED BY <2>1, <2>2
<1>d. pc' # "write" => O'
  OBVIOUS
<1>e. outputs' = outputs /\ (pc' = "write" => pc = "write") => O'
  BY <1>a DEF Compiled
<1>f. files' = files => F'
  BY <1>a DEF Compiled
<1>g. perm' = perm => P'
  BY <1>a DEF Compiled
<1>0. CASE UNCHANGED vars
  BY <1>0, <1>b, <1>c, <1>e, <1>f, <1>g DEF vars, build, training
<1>1. CASE Begin
  BY <1>1, <1>b, <1>c, <1>d, <1>f, <1>g DEF Begin, training
<1>2. CASE PoolFails
  BY <1>2, <1>b, <1>c, <1>d, <1>f, <1>g DEF PoolFails, training
<1>3. CASE Select
  <2>1. O'
    <3>1. CASE outputs' = Audit
      BY <3>1, AuditDomain
    <3>2. ASSUME NEW s \in Selections, outputs'["train"] = s["train"] PROVE O'
      <4>1. \A v \in s["train"] : Compiled(v)
        BY SelectionApart, VerifiedCompiled
      <4> QED BY <4>1, <3>2 DEF Compiled
    <3> QED BY <1>3, <3>1, <3>2, SelectedOutputs DEF Roles
  <2> QED BY <2>1, <1>3, <1>b, <1>c, <1>f, <1>g DEF Select, training
<1>4. CASE WriteFile
  <2>1. F'
    <3>1. CASE Head(left) = "train"
      BY <3>1, <1>4, <1>a, FileWritten DEF WriteFile, Compiled
    <3>2. CASE Head(left) # "train"
      BY <3>2, <1>4, <1>a, FileWritten DEF Compiled
    <3> QED BY <3>1, <3>2
  <2> QED BY <2>1, <1>4, <1>b, <1>c, <1>e, <1>g DEF WriteFile, training
<1>5. CASE EndBuild
  BY <1>5, <1>b, <1>c, <1>d, <1>f, <1>g DEF EndBuild, training
<1>6. CASE Crash
  <2>1. F'
    <3>1. CASE files' = files
      BY <3>1, <1>f
    <3>2. CASE files' # files /\ Head(left) = "train"
      BY <3>2, <1>6, <1>a, FileCut DEF Compiled
    <3>3. CASE files' # files /\ Head(left) # "train"
      BY <3>3, <1>6, <1>a, FileCut DEF Compiled
    <3> QED BY <3>1, <3>2, <3>3
  <2> QED BY <2>1, <1>6, <1>b, <1>c, <1>d, <1>g DEF Crash, training
<1>7. CASE Change
  BY <1>7, <1>b, <1>c, <1>e, <1>f, <1>g DEF Change, build, training
<1>8. ASSUME NEW r \in pending, NEW ok \in BOOLEAN, Persist(r, ok) PROVE TruthInv'
  BY <1>8, <1>b, <1>c, <1>e, <1>f, <1>g DEF Persist, training
<1>9. CASE StartTraining
  <2>1. P'
    <3>1. "train" \in DOMAIN files /\ perm' \in SetToSeqs(files["train"].rows)
      BY <1>9 DEF StartTraining
    <3>2. \A i \in DOMAIN perm' : perm'[i] \in files["train"].rows
      BY <3>1 DEF SetToSeqs
    <3> QED BY <3>1, <3>2, <1>a DEF Compiled
  <2> QED BY <2>1, <1>9, <1>b, <1>c, <1>e, <1>f DEF StartTraining, build
<1>10. CASE TrainStep
  BY <1>10, <1>b, <1>c, <1>e, <1>f, <1>g DEF TrainStep, build
<1> QED BY <1>0, <1>1, <1>2, <1>3, <1>4, <1>5, <1>6, <1>7, <1>8, <1>9, <1>10 DEF Next

\* AttestedTraining, for every dataset whose ids name one content each: every
\* row the trainer takes has a proof that Lean accepted in the environment the
\* row names, whatever crashed, was upgraded and was run again before.
THEOREM TrainedWasCompiled ==
    ASSUME IdsNameContents(Revisions) PROVE Spec => []AttestedTraining
<1>1. Init => BuildInv /\ ResultsInv /\ TruthInv
  BY BuildInvInit, TruthInvInit DEF Init, ResultsInv
<1>2. BuildInv /\ ResultsInv /\ TruthInv /\ [Next]_vars
         => (BuildInv /\ ResultsInv /\ TruthInv)'
  BY BuildInvNext, ResultsInvNext, TruthInvNext
<1>3. TruthInv => AttestedTraining
  BY DEF TruthInv, AttestedTraining, Compiled
<1> QED BY <1>1, <1>2, <1>3, PTL DEF Spec

\* A record that is to be verified has no result of its environment.
LEMMA AskedOnce ==
    ASSUME ContentsKeepIds(Revisions), BuildInv, ResultsInv, [Next]_vars,
           NEW r \in pending' \ pending, NEW row \in results, row.of = Content(r)
    PROVE  row.env # env
<1>1. CASE Begin
  <2>1. r \in ToVerify
    BY <1>1 DEF Begin
  <2>2. r \in Candidates /\ \A x \in Existing : x.id # r.id
    BY <2>1 DEF ToVerify
  <2>3. PICK p \in Revisions :
           \E s \in CandidatesOf(p) : row.id = s.id /\ row.of = Content(s)
    BY DEF ResultsInv, OfCandidate
  <2>4. PICK s \in CandidatesOf(p) : row.id = s.id /\ row.of = Content(s)
    BY <2>3
  <2>5. s.id = r.id
    <3>1. parquet \in Revisions /\ r \in CandidatesOf(parquet)
      BY <2>2 DEF BuildInv, Candidates
    <3>2. Content(s) = Content(r) => s.id = r.id
      BY <3>1 DEF ContentsKeepIds
    <3> QED BY <2>4, <3>2
  <2> QED BY <2>2, <2>4, <2>5 DEF Existing
<1>2. ~ Begin => pending' \subseteq pending
  BY DEF Next, vars, build, PoolFails, Select, WriteFile, EndBuild, Crash, Change, Persist,
         StartTraining, TrainStep
<1> QED BY <1>1, <1>2

\* VerifiesOnce, for every dataset whose contents keep their ids: a build that is
\* run again asks for no verdict it has already stored for its environment.
THEOREM NeverVerifiedAgain ==
    ASSUME ContentsKeepIds(Revisions) PROVE Spec => VerifiesOnce
<1>1. Init => BuildInv /\ ResultsInv
  BY BuildInvInit DEF Init, ResultsInv
<1>2. BuildInv /\ ResultsInv /\ [Next]_vars => (BuildInv /\ ResultsInv)'
  BY BuildInvNext, ResultsInvNext
<1>3. BuildInv /\ ResultsInv /\ [Next]_vars
         => [\A r \in pending' \ pending, row \in results :
                row.of = Content(r) => row.env # env]_vars
  BY AskedOnce
<1> QED BY <1>1, <1>2, <1>3, PTL DEF Spec, VerifiesOnce

(***************************************************************************)
(* A finished build has given every record one fate.                       *)
(***************************************************************************)

Fate(verified, quarantined) ==
    /\ IsFiniteSet(verified)
    /\ {v.id : v \in verified} \cap quarantined = {}
    /\ \A v, w \in verified : v.stmt = w.stmt => v = w

Apart(verified, train, eval, discovery) ==
    /\ train \subseteq verified
    /\ eval \subseteq verified \ train
    /\ discovery \subseteq (verified \ train) \ eval

\* Every record of these rows is kept or quarantined: none is lost.
Divided(rows, verified, quarantined) ==
    \A k \in Starts(rows) :
        \/ Kept(Reconstructed(rows)[k], verified)
        \/ Reconstructed(rows)[k].id \in quarantined

InLeft(f) == \E i \in DOMAIN left : left[i] = f

FateInv ==
    /\ pc = "write" =>
         /\ {"verified", "quarantined"} \subseteq DOMAIN outputs
         /\ Fate(outputs["verified"], outputs["quarantined"])
         /\ Divided(parquet, outputs["verified"], outputs["quarantined"])
         /\ "train" \in DOMAIN outputs =>
              /\ FileNames \subseteq DOMAIN outputs
              /\ Apart(outputs["verified"], outputs["train"], outputs["eval"],
                       outputs["discovery"])
         /\ \A f \in DOMAIN outputs :
              ~ InLeft(f) => f \in DOMAIN files /\ files[f].rows = outputs[f]
    /\ pc = "done" =>
         /\ Fate(files["verified"].rows, files["quarantined"].rows)
         /\ Divided(parquet, files["verified"].rows, files["quarantined"].rows)
         /\ Apart(files["verified"].rows, files["train"].rows, files["eval"].rows,
                  files["discovery"].rows)

\* A record that is not quarantined is a candidate that succeeded, and Attest
\* changes neither its id nor its content.
LEMMA SelectedDivided == Divided(parquet, Verified, Quarantined)
<1> DEFINE rs == Reconstructed(parquet)
<1>1. SUFFICES ASSUME NEW k \in Starts(parquet), rs[k].id \notin Quarantined
               PROVE  Kept(rs[k], Verified)
  BY DEF Divided
<1>2. k \in DOMAIN rs
  BY DEF Reconstructed
<1>3. k \in Unique(rs)
  BY <1>1, <1>2 DEF Quarantined
<1>4. rs[k] \in Candidates
  BY <1>3 DEF Candidates, CandidatesOf
<1>5. Succeeded(rs[k])
  BY <1>1, <1>4 DEF Quarantined
<1>6. Attest(rs[k]) \in Verified
  BY <1>4, <1>5 DEF Verified
<1>7. Attest(rs[k]).id = rs[k].id /\ Content(Attest(rs[k])) = Content(rs[k])
  BY DEF Attest, Content
<1> QED BY <1>6, <1>7 DEF Kept

LEMMA SelectedFate ==
    ASSUME DistinctIds(Revisions), parquet \in Revisions
    PROVE  Fate(Verified, Quarantined)
<1> DEFINE rs == Reconstructed(parquet)
<1>1. SUFFICES ASSUME NEW v \in Verified, v.id \in Quarantined PROVE FALSE
  BY VerifiedFinite, StatementNamesVerified DEF Fate
<1>2. PICK r \in Candidates : Succeeded(r) /\ v.id = r.id
  BY VerifiedRow
<1>3. PICK k \in Unique(rs) : r = rs[k]
  BY DEF Candidates, CandidatesOf
<1>4. DOMAIN rs = Starts(parquet) /\ Unique(rs) \subseteq DOMAIN rs
  BY DEF Reconstructed, Unique
<1>5. \A j \in DOMAIN rs : rs[j].id = r.id => j = k
  BY <1>3, <1>4 DEF DistinctIds
<1>6. CASE \E j \in DOMAIN rs \ Unique(rs) : r.id = rs[j].id
  BY <1>5, <1>6
<1>7. CASE \E s \in Candidates : ~ Succeeded(s) /\ r.id = s.id
  <2>1. PICK s \in Candidates : ~ Succeeded(s) /\ r.id = s.id
    BY <1>7
  <2>2. PICK j \in Unique(rs) : s = rs[j]
    BY DEF Candidates, CandidatesOf
  <2>3. s = r
    BY <1>3, <1>4, <1>5, <2>1, <2>2
  <2> QED BY <1>2, <2>1, <2>3
<1> QED BY <1>1, <1>2, <1>6, <1>7 DEF Quarantined

LEMMA FateInvInit == Init => FateInv
  BY DEF Init, FateInv

LEMMA FateInvNext ==
    ASSUME DistinctIds(Revisions), BuildInv, FateInv, [Next]_vars PROVE FateInv'
<1> DEFINE W == pc = "write" =>
                 /\ {"verified", "quarantined"} \subseteq DOMAIN outputs
                 /\ Fate(outputs["verified"], outputs["quarantined"])
                 /\ Divided(parquet, outputs["verified"], outputs["quarantined"])
                 /\ "train" \in DOMAIN outputs =>
                      /\ FileNames \subseteq DOMAIN outputs
                      /\ Apart(outputs["verified"], outputs["train"], outputs["eval"],
                               outputs["discovery"])
           L == pc = "write" => \A f \in DOMAIN outputs :
                    ~ InLeft(f) => f \in DOMAIN files /\ files[f].rows = outputs[f]
           D == pc = "done" =>
                 /\ Fate(files["verified"].rows, files["quarantined"].rows)
                 /\ Divided(parquet, files["verified"].rows, files["quarantined"].rows)
                 /\ Apart(files["verified"].rows, files["train"].rows, files["eval"].rows,
                          files["discovery"].rows)
<1>a. W /\ L /\ D
  BY DEF FateInv
<1>b. W' /\ L' /\ D' => FateInv'
  BY DEF FateInv
<1>c. pc' = pc /\ parquet' = parquet /\ outputs' = outputs => W'
  BY <1>a DEF Fate, Apart
<1>d. pc' = pc /\ outputs' = outputs /\ left' = left /\ files' = files => L'
  BY <1>a DEF InLeft
<1>e. pc' = pc /\ parquet' = parquet /\ files' = files => D'
  BY <1>a DEF Fate, Apart
<1>f. pc' \notin {"write", "done"} => W' /\ L' /\ D'
  OBVIOUS
<1>0. CASE UNCHANGED vars
  BY <1>0, <1>b, <1>c, <1>d, <1>e DEF vars, build
<1>1. CASE Begin \/ PoolFails \/ Crash \/ Change
  BY <1>1, <1>b, <1>f DEF Begin, PoolFails, Crash, Change
<1>2. CASE StartTraining \/ TrainStep
  BY <1>2, <1>b, <1>c, <1>d, <1>e DEF StartTraining, TrainStep, build
<1>3. ASSUME NEW r \in pending, NEW ok \in BOOLEAN, Persist(r, ok) PROVE FateInv'
  BY <1>3, <1>b, <1>f DEF Persist
<1>4. CASE Select
  <2>1. Fate(Verified, Quarantined) /\ Divided(parquet, Verified, Quarantined)
        /\ parquet' = parquet
    BY <1>4, SelectedFate, SelectedDivided DEF BuildInv, Select
  <2>2. CASE outputs' = Audit /\ left' = AuditFiles
    <3>1. W'
      BY <2>1, <2>2, AuditDomain
    <3>2. L'
      <4>1. left'[1] = "verified" /\ left'[2] = "quarantined" /\ DOMAIN left' = 1 .. 2
        BY <2>2 DEF AuditFiles
      <4> QED BY <2>2, <4>1, AuditDomain DEF InLeft
    <3> QED BY <1>4, <1>b, <3>1, <3>2 DEF Select
  <2>3. ASSUME NEW s \in Selections, left' = AuditFiles \o RoleFiles,
               DOMAIN outputs' = FileNames, outputs'["verified"] = Verified,
               outputs'["quarantined"] = Quarantined, \A f \in Roles : outputs'[f] = s[f]
        PROVE  FateInv'
    <3>1. W'
      <4>1. Apart(Verified, s["train"], s["eval"], s["discovery"])
        BY SelectionApart DEF Apart
      <4> QED BY <2>1, <2>3, <4>1 DEF FileNames, Roles
    <3>2. L'
      <4>1. /\ left'[1] = "verified" /\ left'[2] = "quarantined" /\ left'[3] = "train"
            /\ left'[4] = "eval" /\ left'[5] = "discovery" /\ DOMAIN left' = 1 .. 5
        BY <2>3 DEF AuditFiles, RoleFiles
      <4> QED BY <2>3, <4>1 DEF InLeft, FileNames, Roles
    <3> QED BY <1>4, <1>b, <3>1, <3>2 DEF Select
  <2> QED BY <1>4, <2>2, <2>3, SelectedOutputs
<1>5. CASE WriteFile
  <2>1. /\ pc = "write" /\ pc' = pc /\ outputs' = outputs /\ left' = Tail(left)
        /\ left # <<>> /\ left \in Seq(FileNames) /\ parquet' = parquet
    BY <1>5 DEF WriteFile, BuildInv
  <2>2. L'
    <3>1. SUFFICES ASSUME NEW f \in DOMAIN outputs, ~ InLeft(f)'
                   PROVE  f \in DOMAIN files' /\ files'[f].rows = outputs[f]
      BY <2>1
    <3>2. CASE f = Head(left)
      BY <3>2, <1>5, FileWritten
    <3>3. CASE f # Head(left)
      <4>1. ~ InLeft(f)
        <5>1. SUFFICES ASSUME NEW i \in DOMAIN left, left[i] = f PROVE FALSE
          BY DEF InLeft
        <5>2. i # 1 /\ i \in 1 .. Len(left)
          BY <5>1, <3>3, <2>1
        <5>3. i - 1 \in DOMAIN left' /\ left'[i - 1] = left[i]
          BY <5>2, <2>1
        <5> QED BY <5>1, <5>3, <3>1 DEF InLeft
      <4> QED BY <4>1, <3>3, <1>5, <1>a, <2>1, FileWritten
    <3> QED BY <3>2, <3>3
  <2> QED BY <2>1, <2>2, <1>b, <1>c
<1>6. CASE EndBuild
  <2>1. CASE "train" \in DOMAIN outputs
    <3>1. /\ pc = "write" /\ pc' = "done" /\ left = <<>> /\ files' = files
          /\ parquet' = parquet
      BY <1>6, <2>1 DEF EndBuild
    <3>2. \A f \in FileNames : files[f].rows = outputs[f]
      BY <3>1, <2>1, <1>a DEF InLeft
    <3>3. D'
      BY <3>1, <3>2, <2>1, <1>a DEF FileNames, Roles
    <3> QED BY <3>1, <3>3, <1>b
  <2>2. CASE "train" \notin DOMAIN outputs
    BY <1>6, <2>2, <1>b, <1>f DEF EndBuild
  <2> QED BY <2>1, <2>2
<1> QED BY <1>0, <1>1, <1>2, <1>3, <1>4, <1>5, <1>6 DEF Next

\* Rows that their statements tell apart have as many statements as rows.
LEMMA StatementsCounted ==
    ASSUME NEW S, IsFiniteSet(S), \A v, w \in S : v.stmt = w.stmt => v = w
    PROVE  Cardinality({v.stmt : v \in S}) = Cardinality(S)
<1> DEFINE f == [v \in S |-> v.stmt]
<1>1. f \in Surjection(S, {v.stmt : v \in S})
  BY DEF Surjection
<1>2. f \in Injection(S, {v.stmt : v \in S})
  BY DEF Injection, IsInjective
<1> QED BY <1>1, <1>2, FS_Surjection

LEMMA FateIsOne == FateInv => OneFate
<1> SUFFICES ASSUME FateInv, pc = "done" PROVE OneFate
  BY DEF OneFate
<1> DEFINE rows(f) == files[f].rows
           stmts(f) == {v.stmt : v \in rows(f)}
<1>1. Fate(rows("verified"), rows("quarantined"))
  BY DEF FateInv
<1>2. Apart(rows("verified"), rows("train"), rows("eval"), rows("discovery"))
  BY DEF FateInv
<1>3. \A f \in Roles : rows(f) \subseteq rows("verified")
  BY <1>2 DEF Apart, Roles
<1>4. \A f, g \in Roles : f # g => rows(f) \cap rows(g) = {}
  BY <1>2 DEF Apart, Roles
<1> HIDE DEF rows
<1>5. \A f, g \in Roles : f # g => stmts(f) \cap stmts(g) = {}
  BY <1>1, <1>3, <1>4 DEF Fate
<1>6. \A f \in Roles : Cardinality(stmts(f)) = Cardinality(rows(f))
  <2> SUFFICES ASSUME NEW f \in Roles PROVE Cardinality(stmts(f)) = Cardinality(rows(f))
    OBVIOUS
  <2>1. IsFiniteSet(rows(f))
    BY <1>1, <1>3, FS_Subset DEF Fate
  <2>2. \A v, w \in rows(f) : v.stmt = w.stmt => v = w
    BY <1>1, <1>3 DEF Fate
  <2> QED BY <2>1, <2>2, StatementsCounted
<1>7. {v.id : v \in rows("verified")} \cap rows("quarantined") = {}
  BY <1>1 DEF Fate
<1>8. ASSUME NEW k \in Starts(parquet)
      PROVE  Kept(Reconstructed(parquet)[k], rows("verified"))
                <=> Reconstructed(parquet)[k].id \notin rows("quarantined")
  <2>1. Divided(parquet, rows("verified"), rows("quarantined"))
    BY DEF FateInv, rows
  <2>2. \A r : Kept(r, rows("verified")) => r.id \notin rows("quarantined")
    BY <1>7 DEF Kept
  <2> QED BY <2>1, <2>2 DEF Divided
<1> QED BY <1>3, <1>5, <1>6, <1>7, <1>8 DEF OneFate, Roles, rows

\* OneFate, for every dataset in which no two records share an id: a finished build
\* has verified or quarantined every record of its parquet, none is lost or in both
\* files, and no statement has two roles, although files of an interrupted build may
\* lie beside its own until they are replaced.
THEOREM EveryRecordOneFate ==
    ASSUME DistinctIds(Revisions) PROVE Spec => []OneFate
<1>1. Init => BuildInv /\ FateInv
  BY BuildInvInit, FateInvInit
<1>2. BuildInv /\ FateInv /\ [Next]_vars => (BuildInv /\ FateInv)'
  BY BuildInvNext, FateInvNext
<1> QED BY <1>1, <1>2, FateIsOne, PTL DEF Spec

(***************************************************************************)
(* One epoch.                                                              *)
(***************************************************************************)

LEMMA MulLess ==
    ASSUME NEW x \in Nat, NEW y \in Nat, NEW d \in Nat \ {0}, x < y
    PROVE  (x * d) + d <= y * d
<1>1. PICK e \in Nat : y = x + 1 + e
  <2>1. y - x - 1 \in Nat
    OBVIOUS
  <2> QED BY <2>1
<1>2. y * d = (x * d) + d + (e * d) /\ e * d \in Nat /\ x * d \in Nat
  BY <1>1
<1> QED BY <1>2

LEMMA MulCancel ==
    ASSUME NEW x \in Nat, NEW y \in Nat, NEW d \in Nat \ {0}, x * d < y * d
    PROVE  x < y
<1>1. CASE x = y
  BY <1>1
<1>2. CASE y < x
  <2>1. (y * d) + d <= x * d
    BY <1>2, MulLess
  <2>2. x * d \in Nat /\ y * d \in Nat
    OBVIOUS
  <2> QED BY <2>1, <2>2
<1> QED BY <1>1, <1>2

LEMMA Quotient ==
    ASSUME NEW d \in Nat \ {0}, NEW x \in Nat
    PROVE  /\ x \div d \in Nat /\ x % d \in 0 .. d - 1
           /\ x = ((x \div d) * d) + (x % d)
<1>1. x = (d * (x \div d)) + (x % d) /\ x \div d \in Int /\ x % d \in 0 .. d - 1
  OBVIOUS
<1>2. x \div d >= 0
  OBVIOUS
<1>3. d * (x \div d) = (x \div d) * d
  BY <1>1
<1> QED BY <1>1, <1>2, <1>3

LEMMA QuotientUnique ==
    ASSUME NEW d \in Nat \ {0}, NEW a \in Nat, NEW b \in Nat,
           NEW s \in 0 .. d - 1, NEW t \in 0 .. d - 1, (a * d) + s = (b * d) + t
    PROVE  a = b /\ s = t
<1>0. a * d \in Nat /\ b * d \in Nat
  OBVIOUS
<1>1. CASE a < b
  BY <1>0, <1>1, MulLess
<1>2. CASE b < a
  BY <1>0, <1>2, MulLess
<1>3. CASE a = b
  <2>1. a * d = b * d
    BY <1>3
  <2> QED BY <1>0, <1>3, <2>1
<1> QED BY <1>1, <1>2, <1>3

\* CeilDiv(n, b) batches hold n rows, one less does not.
LEMMA CeilDivBounds ==
    ASSUME NEW n \in Nat \ {0}, NEW b \in Nat \ {0}
    PROVE  /\ CeilDiv(n, b) \in Nat \ {0}
           /\ n <= CeilDiv(n, b) * b
           /\ (CeilDiv(n, b) - 1) * b < n
<1> DEFINE x == n + b - 1
           q == x \div b
           r == x % b
<1>1. x \in Nat
  OBVIOUS
<1>2. q \in Nat /\ r \in 0 .. b - 1 /\ x = (q * b) + r
  BY <1>1, Quotient
<1> HIDE DEF q, r
<1>3. q * b \in Nat
  BY <1>2
<1>4. n <= q * b
  BY <1>2, <1>3
<1>5. q # 0
  BY <1>4
<1>6. (q - 1) * b = (q * b) - b
  BY <1>2
<1>7. (q - 1) * b < n
  BY <1>2, <1>3, <1>6
<1> QED BY <1>2, <1>4, <1>5, <1>7 DEF CeilDiv, q

\* When the ranks can share the batches evenly, the steps that cover n rows have
\* exactly CeilDiv(n, b) batches, so none of them is empty.
LEMMA StepsAreExact ==
    ASSUME NEW n \in Nat \ {0}, NEW b \in Nat \ {0}, NEW w \in Nat \ {0}, NEW m \in Nat \ {0},
           w = 1 \/ CeilDiv(n, b) % w = 0,
           ((m - 1) * w) * b < n, n <= (m * w) * b
    PROVE  \A q \in 0 .. (m * w) - 1 : q * b < n
<1> DEFINE C == CeilDiv(n, b)
<1>1. C \in Nat \ {0} /\ n <= C * b /\ (C - 1) * b < n /\ C - 1 \in Nat
  BY CeilDivBounds
<1>a. w = 1 \/ C % w = 0
  OBVIOUS
<1> HIDE DEF C
<1>2. PICK c \in Nat : C = c * w
  <2>1. CASE w = 1
    BY <1>1, <2>1
  <2>2. CASE C % w = 0
    <3>1. C \div w \in Nat /\ C = ((C \div w) * w) + (C % w)
      BY <1>1, Quotient
    <3>2. PICK c \in Nat : c = C \div w
      BY <3>1
    <3>3. C = (c * w) + 0
      BY <2>2, <3>1, <3>2
    <3>4. c * w \in Nat
      BY <3>2
    <3>5. C = c * w
      BY <3>3, <3>4
    <3> QED BY <3>2, <3>5
  <2> QED BY <1>a, <2>1, <2>2
<1>3. m * w \in Nat /\ (m - 1) * w \in Nat /\ m - 1 \in Nat
  OBVIOUS
<1>4. ((m - 1) * w) * b \in Nat /\ (m * w) * b \in Nat /\ C * b \in Nat /\ (C - 1) * b \in Nat
  BY <1>1, <1>3
<1>5. (m - 1) * w < C
  BY <1>1, <1>3, <1>4, MulCancel
<1>6. C - 1 < m * w
  BY <1>1, <1>3, <1>4, MulCancel
<1>7. m - 1 < c
  BY <1>2, <1>3, <1>5, MulCancel
<1>8. c < m + 1
  <2>1. (m + 1) * w = (m * w) + w
    OBVIOUS
  <2>2. c * w < (m + 1) * w
    BY <1>1, <1>2, <1>3, <1>6, <2>1
  <2> QED BY <2>2, MulCancel
<1>9. m * w = C
  BY <1>2, <1>7, <1>8
<1>10. ASSUME NEW q \in 0 .. (m * w) - 1 PROVE q * b < n
  <2>1. CASE q = C - 1
    BY <2>1, <1>1
  <2>2. CASE q < C - 1
    <3>1. q \in Nat /\ (q * b) + b <= (C - 1) * b /\ q * b \in Nat
      BY <2>2, <1>1, MulLess
    <3> QED BY <3>1, <1>1, <1>4
  <2>3. q <= C - 1
    BY <1>1, <1>9
  <2> QED BY <1>1, <2>1, <2>2, <2>3
<1> QED BY <1>10
\* The permutation is one of the rows of a file that the ranks can share, and the
\* steps taken are its batches in order, up to the one that reaches its end.
StepStart(k) == (k - 1) * WorldSize
Share(k) == [r \in Ranks |-> Batch(StepStart(k) + r)]

Shuffled ==
    /\ Len(perm) \in Nat \ {0} /\ DOMAIN perm = 1 .. Len(perm)
    /\ perm \in Seq({perm[i] : i \in DOMAIN perm})
    /\ \A i, j \in DOMAIN perm : perm[i] = perm[j] => i = j
    /\ Shardable(Len(perm))

InEpoch ==
    /\ trained \in Seq({Share(k) : k \in Nat \ {0}})
    /\ \A k \in DOMAIN trained : trained[k] = Share(k) /\ StepStart(k) * BatchSize < Len(perm)
    /\ sft = "saved" => (Len(trained) * WorldSize) * BatchSize >= Len(perm)

EpochInv ==
    /\ pc = "write" /\ "train" \in DOMAIN outputs => IsFiniteSet(outputs["train"])
    /\ "train" \in DOMAIN files => IsFiniteSet(files["train"].rows)
    /\ sft # "idle" => Shuffled /\ InEpoch

LEMMA SizesPositive ==
    WorldSize \in Nat \ {0} /\ BatchSize \in Nat \ {0}
  BY DatasetAssumption

LEMMA StartOfEpoch ==
    ASSUME EpochInv, StartTraining PROVE Shuffled' /\ InEpoch'
<1> DEFINE rows == files["train"].rows
           n == Cardinality(rows)
<1>1. /\ rows # {} /\ Shardable(n) /\ perm' \in SetToSeqs(rows) /\ IsFiniteSet(rows)
      /\ sft' = "training" /\ trained' = <<>>
  BY DEF StartTraining, EpochInv
<1>2. n \in Nat \ {0}
  BY <1>1, FS_CardinalityType, FS_EmptySet
<1>3. /\ perm' \in [1 .. n -> rows]
      /\ \A i, j \in 1 .. n : i # j => perm'[i] # perm'[j]
  <2>1. SetToSeqs(rows) = {f \in [1 .. n -> rows] : \A i, j \in 1 .. n : i # j => f[i] # f[j]}
    BY DEF SetToSeqs
  <2> QED BY <1>1, <2>1
<1> HIDE DEF n, rows
<1>4. /\ Len(perm') = n /\ DOMAIN perm' = 1 .. n
      /\ perm' \in Seq({perm'[i] : i \in DOMAIN perm'})
  <2>1. Len(perm') = n /\ DOMAIN perm' = 1 .. n
    BY <1>2, <1>3
  <2>2. perm' \in [1 .. n -> {perm'[i] : i \in 1 .. n}]
    BY <1>3
  <2> QED BY <1>2, <2>1, <2>2
<1>5. Shuffled'
  BY <1>1, <1>2, <1>3, <1>4 DEF Shuffled
<1>6. InEpoch'
  BY <1>1 DEF InEpoch
<1> QED BY <1>5, <1>6

LEMMA StepOfEpoch ==
    ASSUME sft = "training", Shuffled, InEpoch, TrainStep PROVE Shuffled' /\ InEpoch'
<1> DEFINE S == {Share(k) : k \in Nat \ {0}}
<1>1. perm' = perm /\ Len(trained) \in Nat /\ trained \in Seq(S)
  BY DEF TrainStep, InEpoch
<1>2. PICK m \in Nat : m = Len(trained)
  BY <1>1
<1>3. \A k : Share(k)' = Share(k)
  BY <1>1 DEF Share, Batch
<1>4. Shuffled'
  BY <1>1 DEF Shuffled
<1>5. CASE (m * WorldSize) * BatchSize < Len(perm)
  <2>1. trained' = Append(trained, [r \in Ranks |-> Batch((m * WorldSize) + r)]) /\ sft' = sft
    BY <1>2, <1>5 DEF TrainStep
  <2>2. StepStart(m + 1) = m * WorldSize
    BY SizesPositive DEF StepStart
  <2>3. trained' = Append(trained, Share(m + 1))
    BY <2>1, <2>2 DEF Share
  <2>4. Share(m + 1) \in S /\ m + 1 \in Nat \ {0}
    OBVIOUS
  <2> HIDE DEF S
  <2>5. trained' \in Seq(S)
    BY <1>1, <2>3, <2>4
  <2>6. \A k \in DOMAIN trained' : (k \in DOMAIN trained /\ trained'[k] = trained[k])
                                      \/ (k = m + 1 /\ trained'[k] = Share(m + 1))
    BY <1>1, <1>2, <2>3
  <2>7. \A k \in DOMAIN trained' : trained'[k] = Share(k) /\ StepStart(k) * BatchSize < Len(perm)
    BY <2>6, <2>2, <1>5 DEF InEpoch
  <2>8. S' = S
    BY <1>3 DEF S
  <2> QED BY <1>1, <1>3, <1>4, <2>1, <2>5, <2>7, <2>8 DEF InEpoch, S, StepStart
<1>6. CASE ~ ((m * WorldSize) * BatchSize < Len(perm))
  <2>1. trained' = trained /\ sft' = "saved"
    BY <1>2, <1>6 DEF TrainStep
  <2>2. (m * WorldSize) * BatchSize >= Len(perm)
    BY <1>6, SizesPositive DEF Shuffled
  <2>3. S' = S
    BY <1>3
  <2> QED BY <1>1, <1>2, <1>3, <1>4, <2>1, <2>2, <2>3 DEF InEpoch, S, StepStart
<1> QED BY <1>5, <1>6

LEMMA EpochInvInit == Init => EpochInv
  BY DEF Init, EpochInv, Nothing

LEMMA EpochInvNext ==
    ASSUME BuildInv, EpochInv, [Next]_vars PROVE EpochInv'
<1> DEFINE O == pc = "write" /\ "train" \in DOMAIN outputs => IsFiniteSet(outputs["train"])
           F == "train" \in DOMAIN files => IsFiniteSet(files["train"].rows)
           E == sft # "idle" => Shuffled /\ InEpoch
<1>a. O /\ F /\ E
  BY DEF EpochInv
<1>b. O' /\ F' /\ E' => EpochInv'
  BY DEF EpochInv
<1>c. UNCHANGED training => E'
  <2> SUFFICES ASSUME UNCHANGED training PROVE E'
    OBVIOUS
  <2>1. sft' = sft /\ perm' = perm /\ trained' = trained
    BY DEF training
  <2>2. \A k : Share(k)' = Share(k) /\ StepStart(k)' = StepStart(k)
    BY <2>1 DEF Share, Batch, StepStart
  <2>3. {Share(k) : k \in Nat \ {0}}' = {Share(k) : k \in Nat \ {0}}
    BY <2>2
  <2>4. Shuffled => Shuffled'
    BY <2>1 DEF Shuffled
  <2>5. InEpoch => InEpoch'
    BY <2>1, <2>2, <2>3 DEF InEpoch
  <2> QED BY <1>a, <2>1, <2>4, <2>5
<1>d. pc' # "write" \/ (pc' = pc /\ outputs' = outputs) => O'
  BY <1>a
<1>e. files' = files => F'
  BY <1>a
<1>0. CASE UNCHANGED vars
  BY <1>0, <1>b, <1>c, <1>d, <1>e DEF vars, build
<1>1. CASE Begin \/ PoolFails \/ EndBuild
  BY <1>1, <1>b, <1>c, <1>d, <1>e DEF Begin, PoolFails, EndBuild
<1>2. CASE Change
  BY <1>2, <1>b, <1>c, <1>d, <1>e DEF Change, build
<1>3. ASSUME NEW r \in pending, NEW ok \in BOOLEAN, Persist(r, ok) PROVE EpochInv'
  BY <1>3, <1>b, <1>c, <1>d, <1>e DEF Persist
<1>4. CASE Select
  <2>1. O'
    <3>1. CASE outputs' = Audit
      BY <3>1, AuditDomain
    <3>2. ASSUME NEW s \in Selections, outputs'["train"] = s["train"] PROVE O'
      <4>1. IsFiniteSet(s["train"])
        BY SelectionApart, VerifiedFinite, FS_Subset DEF BuildInv
      <4> QED BY <4>1, <3>2
    <3> QED BY <1>4, <3>1, <3>2, SelectedOutputs DEF Roles
  <2> QED BY <2>1, <1>4, <1>b, <1>c, <1>e DEF Select
<1>5. CASE WriteFile
  <2>1. F'
    <3>1. CASE Head(left) = "train"
      BY <3>1, <1>5, <1>a, FileWritten DEF WriteFile
    <3>2. CASE Head(left) # "train"
      BY <3>2, <1>5, <1>a, FileWritten
    <3> QED BY <3>1, <3>2
  <2> QED BY <2>1, <1>5, <1>b, <1>c, <1>d DEF WriteFile
<1>6. CASE Crash
  <2>1. F'
    <3>1. CASE files' = files
      BY <3>1, <1>e
    <3>2. CASE files' # files /\ Head(left) = "train"
      BY <3>2, <1>6, <1>a, FileCut, FS_Subset
    <3>3. CASE files' # files /\ Head(left) # "train"
      BY <3>3, <1>6, <1>a, FileCut
    <3> QED BY <3>1, <3>2, <3>3
  <2> QED BY <2>1, <1>6, <1>b, <1>c, <1>d DEF Crash
<1>7. CASE StartTraining
  BY <1>7, <1>b, <1>d, <1>e, StartOfEpoch DEF StartTraining, build
<1>8. CASE TrainStep
  BY <1>8, <1>a, <1>b, <1>d, <1>e, StepOfEpoch DEF TrainStep, build
<1> QED BY <1>0, <1>1, <1>2, <1>3, <1>4, <1>5, <1>6, <1>7, <1>8 DEF Next
\* Batch k holds the rows k * BatchSize + 1 to (k + 1) * BatchSize, as far as there are.
LEMMA BatchRows ==
    ASSUME Shuffled, NEW k \in Nat
    PROVE  /\ DOMAIN Batch(k) = {j \in 1 .. BatchSize : (k * BatchSize) + j <= Len(perm)}
           /\ \A j \in DOMAIN Batch(k) : Batch(k)[j] = perm[(k * BatchSize) + j]
<1> DEFINE a == k * BatchSize
           n == Len(perm)
           e == Min({(k + 1) * BatchSize, n})
<1>1. a \in Nat /\ n \in Nat /\ BatchSize \in Nat \ {0}
  BY SizesPositive DEF Shuffled
<1>2. (k + 1) * BatchSize = a + BatchSize
  BY <1>1
<1>3. e = IF a + BatchSize <= n THEN a + BatchSize ELSE n
  <2>1. \A x, y \in Nat : Min({x, y}) = IF x <= y THEN x ELSE y
    BY DEF Min
  <2> HIDE DEF a
  <2> QED BY <1>1, <1>2, <2>1
<1>4. Batch(k) = SubSeq(perm, a + 1, e) /\ perm \in Seq({perm[i] : i \in DOMAIN perm})
  BY DEF Batch, Shuffled
<1> HIDE DEF a, e
<1>5. e \in Nat /\ e <= n
  BY <1>1, <1>3
<1>6. CASE a <= e
  <2>1. DOMAIN SubSeq(perm, a + 1, e) = 1 .. (e - a)
    BY <1>1, <1>4, <1>5, <1>6
  <2>2. \A j \in 1 .. (e - a) : SubSeq(perm, a + 1, e)[j] = perm[a + j]
    BY <1>1, <1>4, <1>5, <1>6
  <2>3. 1 .. (e - a) = {j \in 1 .. BatchSize : a + j <= n}
    BY <1>1, <1>3, <1>5, <1>6
  <2> QED BY <1>4, <2>1, <2>2, <2>3 DEF a
<1>7. CASE e < a
  <2>1. DOMAIN SubSeq(perm, a + 1, e) = {}
    BY <1>1, <1>4, <1>5, <1>7
  <2>2. {j \in 1 .. BatchSize : a + j <= n} = {}
    BY <1>1, <1>3, <1>5, <1>7
  <2> QED BY <1>4, <2>1, <2>2 DEF a
<1> QED BY <1>1, <1>5, <1>6, <1>7

LEMMA ProductNat ==
    ASSUME NEW x \in Nat, NEW y \in Nat PROVE x * y \in Nat
  OBVIOUS

\* Row j of the batch that rank r takes in step k.
Place(w, b, k, r, j) == ((((k - 1) * w) + r) * b) + j
Covered(w, b, m) == (m * w) * b

\* The place of row i in an epoch: batch (i - 1) \div BatchSize, and its step and rank.
LEMMA PlaceOfRow ==
    ASSUME NEW m \in Nat \ {0}, NEW w \in Nat \ {0}, NEW b \in Nat \ {0}, NEW i \in Nat \ {0},
           i <= Covered(w, b, m)
    PROVE  \E k \in 1 .. m, r \in 0 .. w - 1, j \in 1 .. b :
              i = Place(w, b, k, r, j)
<1> DEFINE q == (i - 1) \div b
           j == ((i - 1) % b) + 1
           k == (q \div w) + 1
           r == q % w
<1>1. q \in Nat /\ j \in 1 .. b /\ i - 1 = (q * b) + (j - 1)
  <2>1. i - 1 \in Nat
    OBVIOUS
  <2>2. q \in Nat /\ (i - 1) % b \in 0 .. b - 1 /\ i - 1 = (q * b) + ((i - 1) % b)
    BY <2>1, Quotient
  <2>3. j \in 1 .. b /\ j - 1 = (i - 1) % b
    BY <2>2
  <2> QED BY <2>2, <2>3
<1> HIDE DEF q, j
<1>2. k - 1 \in Nat /\ k \in Nat /\ r \in 0 .. w - 1 /\ q = ((k - 1) * w) + r
  <2>1. q \div w \in Nat /\ r \in 0 .. w - 1 /\ q = ((q \div w) * w) + r
    BY <1>1, Quotient
  <2>2. k - 1 = q \div w
    BY <2>1
  <2> QED BY <2>1, <2>2
<1> HIDE DEF k, r
<1>3. m * w \in Nat /\ (k - 1) * w \in Nat /\ q * b \in Nat
  BY <1>1, <1>2
<1>4. q < m * w
  <2>1. q * b < (m * w) * b
    BY <1>1, <1>3 DEF Covered
  <2> QED BY <2>1, <1>1, <1>3, MulCancel
<1>5. k - 1 < m
  BY <1>2, <1>3, <1>4, MulCancel
<1>6. i = (q * b) + j
  BY <1>1, <1>3
<1>7. i = Place(w, b, k, r, j)
  BY <1>2, <1>6 DEF Place
<1>8. k \in 1 .. m
  BY <1>2, <1>5
<1> QED BY <1>1, <1>2, <1>7, <1>8

LEMMA PlaceUnique ==
    ASSUME NEW w \in Nat \ {0}, NEW b \in Nat \ {0}, NEW k \in Nat \ {0}, NEW l \in Nat \ {0},
           NEW r \in 0 .. w - 1, NEW s \in 0 .. w - 1, NEW i \in 1 .. b, NEW j \in 1 .. b,
           Place(w, b, k, r, i) = Place(w, b, l, s, j)
    PROVE  k = l /\ r = s
<1> DEFINE x == ((k - 1) * w) + r
           y == ((l - 1) * w) + s
<1>1. x \in Nat /\ y \in Nat
  <2>1. (k - 1) * w \in Nat /\ (l - 1) * w \in Nat
    OBVIOUS
  <2> QED BY <2>1
<1>2. (x * b) + i = (y * b) + j
  BY DEF Place
<1> HIDE DEF x, y
<1>3. x * b \in Nat /\ y * b \in Nat
  BY <1>1
<1>4. (x * b) + (i - 1) = (y * b) + (j - 1)
  BY <1>2, <1>3
<1>5. x = y
  BY <1>1, <1>4, QuotientUnique
<1>6. k - 1 \in Nat /\ l - 1 \in Nat /\ ((k - 1) * w) + r = ((l - 1) * w) + s
  BY <1>5 DEF x, y
<1> QED BY <1>6, QuotientUnique

LEMMA EpochIsExact ==
    ASSUME Shuffled, InEpoch, sft = "saved"
    PROVE  EpochOnce
<1> DEFINE m == Len(trained)
           n == Len(perm)
           W == WorldSize
           B == BatchSize
           Places(i) == {x \in (DOMAIN trained) \X Ranks :
                \E j \in DOMAIN trained[x[1]][x[2]] : trained[x[1]][x[2]][j] = perm[i]}
<1>1. /\ m \in Nat /\ DOMAIN trained = 1 .. m /\ n \in Nat \ {0} /\ DOMAIN perm = 1 .. n
      /\ W \in Nat \ {0} /\ B \in Nat \ {0} /\ Ranks = 0 .. W - 1
  BY SizesPositive DEF InEpoch, Shuffled, Ranks
<1>2. (m * W) * B >= n /\ m \in Nat \ {0}
  <2>1. (m * W) * B >= n
    BY DEF InEpoch
  <2>2. m = 0 => (m * W) * B = 0
    BY <1>1
  <2> QED BY <2>1, <2>2, <1>1
<1>3. \A k \in 1 .. m, r \in Ranks :
         /\ StepStart(k) = (k - 1) * W /\ StepStart(k) \in Nat /\ r \in Nat
         /\ StepStart(k) + r \in Nat
         /\ trained[k][r] = Batch(StepStart(k) + r)
  <2> SUFFICES ASSUME NEW k \in 1 .. m, NEW r \in Ranks
               PROVE  /\ StepStart(k) = (k - 1) * W /\ StepStart(k) \in Nat /\ r \in Nat
                      /\ StepStart(k) + r \in Nat
                      /\ trained[k][r] = Batch(StepStart(k) + r)
    OBVIOUS
  <2>1. (k - 1) * W \in Nat /\ r \in Nat
    BY <1>1
  <2>2. trained[k] = Share(k)
    BY <1>1 DEF InEpoch
  <2> QED BY <2>1, <2>2 DEF Share, StepStart
<1> HIDE DEF m, n, W, B
<1>4. ASSUME NEW k \in 1 .. m, NEW r \in Ranks
      PROVE  /\ DOMAIN trained[k][r] = {j \in 1 .. B : ((StepStart(k) + r) * B) + j <= n}
             /\ \A j \in DOMAIN trained[k][r] : trained[k][r][j] = perm[((StepStart(k) + r) * B) + j]
  BY <1>3, BatchRows DEF B, n
<1>5. ASSUME NEW k \in 1 .. m, NEW r \in Ranks PROVE trained[k][r] # <<>>
  <2>1. W = 1 \/ CeilDiv(n, B) % W = 0
    BY DEF Shuffled, Shardable, n, W, B
  <2>2. ((m - 1) * W) * B < n
    <3>1. m \in DOMAIN trained
      BY <1>1, <1>2
    <3>2. StepStart(m) * BatchSize < Len(perm)
      BY <3>1 DEF InEpoch
    <3> QED BY <3>2 DEF StepStart, n, W, B
  <2>3. \A q \in 0 .. (m * W) - 1 : q * B < n
    BY <1>1, <1>2, <2>1, <2>2, StepsAreExact
  <2>4. StepStart(k) + r \in 0 .. (m * W) - 1
    <3>1. CASE k = m
      <4>1. (m - 1) * W = (m * W) - W
        BY <1>1
      <4>2. PICK a \in Nat : a = m * W
        BY <1>1, ProductNat
      <4>3. StepStart(k) = a - W /\ r \in 0 .. W - 1 /\ StepStart(k) \in Nat
        BY <3>1, <4>1, <4>2, <1>1, <1>3
      <4>4. StepStart(k) + r \in 0 .. a - 1
        BY <4>2, <4>3, <1>1
      <4> QED BY <4>2, <4>4
    <3>2. CASE k < m
      <4>1. k - 1 \in Nat /\ k \in Nat /\ m \in Nat
        BY <1>1
      <4>2. (k * W) + W <= m * W
        BY <3>2, <4>1, <1>1, MulLess
      <4>3. ((k - 1) * W) + W = k * W
        BY <4>1, <1>1
      <4>4. PICK a \in Nat, c \in Nat : a = m * W /\ c = k * W
        BY <4>1, <1>1, ProductNat
      <4>5. StepStart(k) + W = c /\ c + W <= a /\ r \in 0 .. W - 1 /\ StepStart(k) \in Nat
        BY <4>2, <4>3, <4>4, <1>1, <1>3
      <4>6. StepStart(k) + r \in 0 .. a - 1
        BY <4>4, <4>5, <1>1
      <4> QED BY <4>4, <4>6
    <3> QED BY <1>1, <3>1, <3>2
  <2>5. 1 \in DOMAIN trained[k][r]
    <3>1. (StepStart(k) + r) * B < n /\ (StepStart(k) + r) * B \in Nat
      BY <2>3, <2>4, <1>1, <1>3, ProductNat
    <3> QED BY <3>1, <1>1, <1>4
  <2> QED BY <2>5
<1>6. ASSUME NEW i \in DOMAIN perm PROVE Cardinality(Places(i)) = 1
  <2>1. i \in Nat \ {0} /\ i <= n /\ i <= Covered(W, B, m)
    <3>1. (m * W) * B \in Nat
      BY <1>1
    <3> QED BY <1>1, <1>2, <3>1 DEF Covered
  <2>2. PICK k \in 1 .. m, r \in 0 .. W - 1, j \in 1 .. B :
           i = Place(W, B, k, r, j)
    BY <1>1, <1>2, <2>1, PlaceOfRow
  <2>3. r \in Ranks /\ i = ((StepStart(k) + r) * B) + j
    BY <2>2, <1>1, <1>3 DEF Place
  <2>4. <<k, r>> \in Places(i)
    <3>1. j \in DOMAIN trained[k][r] /\ trained[k][r][j] = perm[i]
      BY <2>1, <2>3, <1>4
    <3> QED BY <3>1, <2>3, <1>1
  <2>5. ASSUME NEW x \in Places(i) PROVE x = <<k, r>>
    <3>1. PICK l \in 1 .. m, s \in Ranks : x = <<l, s>>
      BY <1>1
    <3>2. PICK h \in DOMAIN trained[l][s] : trained[l][s][h] = perm[i]
      BY <3>1
    <3>3. h \in 1 .. B /\ ((StepStart(l) + s) * B) + h <= n
          /\ perm[((StepStart(l) + s) * B) + h] = perm[i]
      BY <3>2, <1>4
    <3>4. ((StepStart(l) + s) * B) + h \in 1 .. n
      <4>1. (StepStart(l) + s) * B \in Nat
        BY <1>1, <1>3, ProductNat
      <4> QED BY <4>1, <3>3, <1>1
    <3>5. ((StepStart(l) + s) * B) + h = ((StepStart(k) + r) * B) + j
      BY <3>3, <3>4, <2>3, <1>1 DEF Shuffled
    <3>6. Place(W, B, l, s, h) = Place(W, B, k, r, j)
      BY <3>5, <1>3, <2>3 DEF Place
    <3>7. l = k /\ s = r
      <4>1. l \in Nat \ {0} /\ k \in Nat \ {0} /\ s \in 0 .. W - 1 /\ r \in 0 .. W - 1
        BY <1>1, <2>3
      <4>2. h \in 1 .. B /\ j \in 1 .. B
        BY <2>2, <3>3
      <4>3. W \in Nat \ {0} /\ B \in Nat \ {0}
        BY <1>1
      <4> QED BY <4>1, <4>2, <4>3, <3>6, PlaceUnique
    <3> QED BY <3>1, <3>7
  <2>6. Places(i) = {<<k, r>>}
    BY <2>4, <2>5
  <2> QED BY <2>6, FS_Singleton
<1> QED BY <1>1, <1>5, <1>6 DEF EpochOnce

\* EpochOnce, for every number of rows, ranks and batch size that
\* validate_no_duplicate_train_sharding admits: an epoch takes every row of the file
\* once, and no rank is ever without a batch.
THEOREM EpochTakesEveryRowOnce == Spec => []EpochOnce
<1>1. Init => BuildInv /\ EpochInv
  BY BuildInvInit, EpochInvInit
<1>2. BuildInv /\ EpochInv /\ [Next]_vars => (BuildInv /\ EpochInv)'
  BY BuildInvNext, EpochInvNext
<1>3. EpochInv => EpochOnce
  <2>1. CASE sft = "saved"
    BY <2>1, EpochIsExact DEF EpochInv
  <2>2. CASE sft # "saved"
    BY <2>2 DEF EpochOnce
  <2> QED BY <2>1, <2>2
<1> QED BY <1>1, <1>2, <1>3, PTL DEF Spec
===============================================================================
