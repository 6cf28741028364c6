--------------------------- MODULE CollectionProofs ---------------------------
(***************************************************************************)
(* Proofs about Collection, for any connections, repositories, files,      *)
(* rules, plans and budgets: its type correctness, and that a report is    *)
(* faithful to what was there while the scan ran.                          *)
(***************************************************************************)
EXTENDS Collection, FiniteSetTheorems, SequenceTheorems, TLAPS

USE CollectionAssumption

-----------------------------------------------------------------------------
(* Slices and heads of lists.                                              *)

LEMMA SliceIsPrefix ==
  ASSUME NEW S, NEW s \in Seq(S), NEW n \in Nat
  PROVE  /\ Slice(s, n) \in Seq(S)
         /\ DOMAIN Slice(s, n) = {j \in DOMAIN s : j <= n}
         /\ \A j \in DOMAIN Slice(s, n) : Slice(s, n)[j] = s[j]
<1> DEFINE m == IF n < Len(s) THEN n ELSE Len(s)
<1>1. m \in Nat /\ m <= Len(s) /\ Len(s) \in Nat /\ DOMAIN s = 1 .. Len(s)
  OBVIOUS
<1>2. 1 .. m = {j \in 1 .. Len(s) : j <= n}
  BY <1>1
<1>3. Slice(s, n) = SubSeq(s, 1, m)
  BY DEF Slice
<1> HIDE DEF m
<1>4. /\ SubSeq(s, 1, m) \in Seq(S) /\ DOMAIN SubSeq(s, 1, m) = 1 .. m
      /\ \A j \in 1 .. m : SubSeq(s, 1, m)[j] = s[j]
  BY <1>1
<1> QED
  BY <1>1, <1>2, <1>3, <1>4

LEMMA HeadOrTail ==
  ASSUME NEW S, NEW s \in Seq(S), s # << >>
  PROVE  /\ Head(s) \in S /\ Tail(s) \in Seq(S)
         /\ \A x \in Elements(s) : x = Head(s) \/ x \in Elements(Tail(s))
<1>1. /\ Len(s) \in Nat \ {0} /\ DOMAIN s = 1 .. Len(s) /\ Head(s) = s[1] /\ Tail(s) \in Seq(S)
      /\ DOMAIN Tail(s) = 1 .. (Len(s) - 1) /\ \A i \in 1 .. (Len(s) - 1) : Tail(s)[i] = s[i + 1]
  BY EmptySeq, HeadTailProperties
<1>2. ASSUME NEW i \in DOMAIN s, i # 1 PROVE s[i] \in Elements(Tail(s))
  <2>1. i - 1 \in 1 .. (Len(s) - 1) /\ (i - 1) + 1 = i
    BY <1>1, <1>2
  <2>2. Tail(s)[i - 1] = s[i]
    BY <1>1, <2>1
  <2> QED
    BY <1>1, <2>1, <2>2 DEF Elements
<1> QED
  BY <1>1, <1>2 DEF Elements

-----------------------------------------------------------------------------
(* What a collector sets out to read.                                      *)

LEMMA TodoType ==
  ASSUME NEW c \in Conns, NEW p \in DOMAIN Plans, NEW tokens
  PROVE  Todo(c, p, tokens) \in Seq(DOMAIN Tree)
<1>1. CASE c \notin tokens
  BY <1>1 DEF Todo
<1>2. CASE c \in tokens /\ Provider[c] \in SourceHosts
  BY <1>2, SliceIsPrefix DEF Todo
<1>3. CASE c \in tokens /\ Provider[c] \notin SourceHosts
  BY <1>3 DEF Todo
<1> QED
  BY <1>1, <1>2, <1>3

LEMMA TodoCovers ==
  ASSUME NEW c \in Conns, NEW p \in DOMAIN Plans, NEW tokens, c \in tokens
  PROVE  /\ ReposOf(c, p) \subseteq Elements(Todo(c, p, tokens))
         /\ Provider[c] \notin SourceHosts => Todo(c, p, tokens) # << >>
<1>1. CASE Provider[c] \in SourceHosts
  <2>1. /\ DOMAIN Slice(Selection[c], Plans[p].maxRepos)
             = {j \in DOMAIN Selection[c] : j <= Plans[p].maxRepos}
        /\ \A j \in DOMAIN Slice(Selection[c], Plans[p].maxRepos) :
             Slice(Selection[c], Plans[p].maxRepos)[j] = Selection[c][j]
    <3> DEFINE s == Selection[c]
               n == Plans[p].maxRepos
               S == DOMAIN Tree
    <3>1. s \in Seq(S) /\ n \in Nat
      OBVIOUS
    <3> HIDE DEF s, n, S
    <3>2. /\ DOMAIN Slice(s, n) = {j \in DOMAIN s : j <= n}
          /\ \A j \in DOMAIN Slice(s, n) : Slice(s, n)[j] = s[j]
      BY ONLY <3>1, SliceIsPrefix
    <3> QED
      BY <3>2 DEF s, n
  <2>2. Todo(c, p, tokens) = Slice(Selection[c], Plans[p].maxRepos)
    BY <1>1 DEF Todo
  <2>3. ASSUME NEW i \in DOMAIN Selection[c], i <= Plans[p].maxRepos
        PROVE  Selection[c][i] \in Elements(Todo(c, p, tokens))
    <3>1. i \in DOMAIN Slice(Selection[c], Plans[p].maxRepos)
      BY <2>1, <2>3
    <3> QED
      BY <2>1, <2>2, <3>1 DEF Elements
  <2> QED
    BY <1>1, <2>3 DEF ReposOf
<1>2. CASE Provider[c] \notin SourceHosts
  BY <1>2 DEF Todo, ReposOf
<1> QED
  BY <1>1, <1>2

-----------------------------------------------------------------------------
(* What the audits report, and what they must.                             *)

LEMMA RepoAuditIsSound ==
  ASSUME NEW c, NEW tree, NEW read, NEW osv, NEW p \in DOMAIN Plans,
         scan # None, scan.plan = p, present \subseteq Flaws
  PROVE  AuditRepo(c, tree, read, osv) \subseteq present \cap Entitled(p)
<1> DEFINE sources == Elements(SelectFilesToRead(tree)) \cap read
           audit == FilterByEntitlements(AnalyzeContents(tree, sources, present), Plans[p].features)
           deps == AuditDependencies(read, present)
<1>1. AnalyzeContents(tree, sources, present)
        \subseteq {x \in present : Class[x] \in {"secretFile", "iac", "ast", "ai", "sast", "secret"}}
  BY DEF AnalyzeContents, AuditFileContent, FirstByLine
<1>2. audit \subseteq {x \in present :
         /\ Class[x] \in {"secretFile", "iac", "ast", "ai", "sast", "secret"}
         /\ Class[x] \in {"secret", "secretFile"} => "secrets" \in Plans[p].features
         /\ Class[x] = "iac" => "iac" \in Plans[p].features}
  BY <1>1 DEF FilterByEntitlements
<1>3. deps \subseteq {x \in present : Class[x] = "dependency"}
  BY DEF AuditDependencies
<1>4. /\ \A k \in {"ast", "sast", "ai"} : Needs(k) = {"codeAudit"}
      /\ \A k \in {"secret", "secretFile"} : Needs(k) = {"codeAudit", "secrets"}
      /\ Needs("iac") = {"codeAudit", "iac"} /\ Needs("dependency") = {"sca"}
  BY DEF Needs
<1>5. AuditRepo(c, tree, read, osv) =
         (IF "codeAudit" \in Plans[p].features THEN audit ELSE {})
           \cup (IF Provider[c] = "github" /\ "sca" \in Plans[p].features /\ osv THEN deps ELSE {})
  BY DEF AuditRepo
<1> HIDE DEF audit, deps
<1>6. "codeAudit" \in Plans[p].features => audit \subseteq present \cap Entitled(p)
  <2> SUFFICES ASSUME "codeAudit" \in Plans[p].features, NEW x \in audit
               PROVE  Needs(Class[x]) \subseteq Plans[p].features /\ x \in present
    BY DEF Entitled
  <2> QED
    BY <1>2, <1>4
<1>7. "sca" \in Plans[p].features => deps \subseteq present \cap Entitled(p)
  BY <1>3, <1>4 DEF Entitled
<1> QED
  BY <1>5, <1>6, <1>7

(* An issue of a file that holds no more issues than are kept is kept.     *)
LEMMA IssueIsKept ==
  ASSUME NEW S \in SUBSET Flaws, NEW x \in S, Class[x] \in {"sast", "secret"},
         Cardinality({y \in Flaws : At[y] = At[x]}) <= MaxIssuesPerFile
  PROVE  x \in AuditFileContent({y \in S : At[y] = At[x]})
<1> DEFINE A == {y \in Flaws : At[y] = At[x]}
           B == {y \in {z \in {y \in S : At[y] = At[x]} : Class[z] \in {"sast", "secret"}} :
                   Line[y] < Line[x]}
<1>1. IsFiniteSet(A) /\ x \in A
  BY FS_Subset
<1>2. Line[x] \in Nat
  OBVIOUS
<1>3. B \subseteq A \ {x}
  BY <1>2
<1>4. IsFiniteSet(A \ {x}) /\ Cardinality(A \ {x}) = Cardinality(A) - 1
  BY <1>1, FS_RemoveElement
<1>5. Cardinality(B) <= Cardinality(A \ {x})
  BY <1>3, <1>4, FS_Subset
<1>6. Cardinality(B) \in Nat /\ Cardinality(A) \in Nat
  BY <1>1, <1>3, <1>4, FS_Subset, FS_CardinalityType
<1>7. Cardinality(B) < MaxIssuesPerFile
  BY <1>4, <1>5, <1>6
<1> QED
  BY <1>7 DEF AuditFileContent, FirstByLine

LEMMA RepoAuditIsComplete ==
  ASSUME NEW c, NEW r \in DOMAIN Tree, NEW p \in DOMAIN Plans, NEW x \in present \cap Entitled(p),
         scan # None, scan.plan = p, present \subseteq Flaws,
         Class[x] # "config", WithinBudget(x, c, r)
  PROVE  x \in AuditRepo(c, Listed(r), Elements(Tree[r]), TRUE)
<1> DEFINE tree == Listed(r)
           read == Elements(Tree[r])
           sources == Elements(SelectFilesToRead(tree)) \cap read
<1>1. x \in Flaws /\ x \in present /\ Class[x] \in Classes /\ At[x] \in read
      /\ Needs(Class[x]) \subseteq Plans[p].features
  BY DEF Entitled, WithinBudget
<1>2. CASE Class[x] = "dependency"
  <2>1. Provider[c] = "github" /\ Line[x] <= MaxPackages
    BY <1>2 DEF WithinBudget
  <2>2. "sca" \in Plans[p].features
    BY <1>1, <1>2 DEF Needs
  <2> QED
    BY <1>1, <1>2, <2>1, <2>2 DEF AuditRepo, AuditDependencies
<1>3. ASSUME Class[x] # "dependency",
             x \in AnalyzeContents(tree, sources, present)
      PROVE  x \in AuditRepo(c, tree, read, TRUE)
  <2>1. /\ "codeAudit" \in Plans[p].features
        /\ Class[x] \in {"secret", "secretFile"} => "secrets" \in Plans[p].features
        /\ Class[x] = "iac" => "iac" \in Plans[p].features
    BY <1>1, <1>3 DEF Needs, Classes
  <2>2. x \in FilterByEntitlements(AnalyzeContents(tree, sources, present), Plans[p].features)
    BY <1>3, <2>1 DEF FilterByEntitlements
  <2> QED
    BY <2>1, <2>2 DEF AuditRepo
<1>4. CASE Class[x] = "secretFile"
  <2>1. At[x] \in Elements(tree)
    BY <1>4 DEF WithinBudget
  <2> QED
    BY <1>1, <1>3, <1>4, <2>1 DEF AnalyzeContents
<1>5. CASE Class[x] \in {"iac", "ast", "ai", "sast", "secret"}
  <2>1. /\ At[x] \in Elements(SelectFilesToRead(tree))
        /\ Cardinality({y \in Flaws : At[y] = At[x]}) <= MaxIssuesPerFile
    BY <1>5 DEF WithinBudget
  <2>2. At[x] \in sources
    BY <1>1, <2>1
  <2>3. CASE Class[x] \in {"iac", "ast", "ai"}
    BY <1>1, <1>3, <2>2, <2>3 DEF AnalyzeContents
  <2>4. CASE Class[x] \in {"sast", "secret"}
    <3>1. x \in AuditFileContent({y \in present : At[y] = At[x]})
      BY <1>1, <2>1, <2>4, IssueIsKept
    <3>2. x \in UNION {AuditFileContent({y \in present : At[y] = f}) : f \in sources}
      <4> HIDE DEF sources
      <4> QED
        BY ONLY <2>2, <3>1
    <3>3. x \in AnalyzeContents(tree, sources, present)
      BY <3>2 DEF AnalyzeContents
    <3> QED
      BY <1>3, <2>4, <3>3
  <2> QED
    BY <1>5, <2>3, <2>4
<1> QED
  BY <1>1, <1>2, <1>4, <1>5 DEF Classes

LEMMA AccountAuditIsSound ==
  ASSUME NEW c, NEW read, NEW p \in DOMAIN Plans, present \subseteq Flaws
  PROVE  AuditAccount(c, read, present) \subseteq present \cap Entitled(p)
<1>1. Needs("config") = {}
  BY DEF Needs
<1> QED
  BY <1>1 DEF AuditAccount, Entitled

(* All of a few places are among the first ones.                           *)
LEMMA FewAreFirst ==
  ASSUME NEW A, IsFiniteSet(A), A \subseteq Nat, NEW B \in SUBSET A, NEW n \in Nat, Cardinality(A) <= n
  PROVE  First(B, n) = B
<1>5. First(B, n) = {i \in B : Cardinality({j \in B : j < i}) < n}
  BY DEF First
<1> SUFFICES ASSUME NEW i \in B PROVE Cardinality({j \in B : j < i}) < n
  BY <1>5
<1> DEFINE C == {j \in B : j < i}
<1>1. C \subseteq A \ {i} /\ i \in A
  <2>1. i \in Nat /\ \A j \in C : j \in A /\ j \in Nat /\ j < i
    OBVIOUS
  <2>2. \A j \in C : j # i
    BY <2>1
  <2> QED
    BY <2>1, <2>2
<1>2. IsFiniteSet(A \ {i}) /\ Cardinality(A \ {i}) = Cardinality(A) - 1
  BY <1>1, FS_RemoveElement
<1>3. Cardinality(C) <= Cardinality(A \ {i})
  BY <1>1, <1>2, FS_Subset
<1>4. Cardinality(C) \in Nat /\ Cardinality(A) \in Nat
  BY <1>1, <1>2, FS_Subset, FS_CardinalityType
<1> QED
  BY <1>2, <1>3, <1>4

LEMMA AccountAuditIsComplete ==
  ASSUME NEW c \in DOMAIN Tree, NEW x \in present, present \subseteq Flaws, Class[x] = "config",
         At[x] \in Resources(c, Audited(c)), Cardinality(Audited(c)) <= MaxKept
  PROVE  x \in AuditAccount(c, Resources(c, Audited(c)), present)
<1> DEFINE A == Audited(c)
           B == {i \in A : Tree[c][i] \in Resources(c, A) \cap {At[y] : y \in present}}
<1>1. A \subseteq DOMAIN Tree[c]
  <2>1. DOMAIN Listed(c) \subseteq DOMAIN Tree[c]
    <3>1. Tree[c] \in Seq(Files) /\ Reach[c] \in Nat
      OBVIOUS
    <3>2. DOMAIN Slice(Tree[c], Reach[c]) = {j \in DOMAIN Tree[c] : j <= Reach[c]}
      BY ONLY <3>1, SliceIsPrefix
    <3> QED
      BY <3>2 DEF Listed
  <2>3. Narrowed(Listed(c)) \subseteq DOMAIN Tree[c]
    BY <2>1 DEF Narrowed
  <2>2. \A S, n : First(S, n) \subseteq S
    BY DEF First
  <2> QED
    BY <2>2, <2>3 DEF Audited
<1>2. DOMAIN Tree[c] = 1 .. Len(Tree[c]) /\ Len(Tree[c]) \in Nat
  OBVIOUS
<1>3. IsFiniteSet(A) /\ A \subseteq Nat
  <2>1. IsFiniteSet(1 .. Len(Tree[c])) /\ 1 .. Len(Tree[c]) \subseteq Nat
    BY <1>2, FS_Interval
  <2> HIDE DEF A
  <2> QED
    BY <1>1, <1>2, <2>1, FS_Subset
<1>4. First(B, MaxKept) = B
  <2>1. B \in SUBSET A
    OBVIOUS
  <2> HIDE DEF A, B
  <2>2. Cardinality(A) <= MaxKept
    BY DEF A
  <2> QED
    BY <1>3, <2>1, <2>2, FewAreFirst
<1>5. PICK i \in A : Tree[c][i] = At[x]
  BY DEF Resources
<1>6. i \in B
  BY <1>5 DEF Resources
<1>7. At[x] \in Resources(c, First(B, MaxKept))
  BY <1>4, <1>5, <1>6 DEF Resources
<1> QED
  BY <1>7 DEF AuditAccount

-----------------------------------------------------------------------------
(* Type correctness.                                                       *)

LEMMA ProgressType ==
  ASSUME TypeOK, NEW c \in Conns, NEW found, NEW failed, scan # None, found \subseteq Flaws,
         scan.work[c].todo # << >>, Progress(c, found, failed)
  PROVE  /\ TypeOK' /\ scan' \in Scans /\ scan'.plan = scan.plan
         /\ \A d \in Conns : scan'.work[d] = IF d = c
                THEN [todo |-> Tail(scan.work[c].todo), got |-> scan.work[c].got \cup found]
                ELSE scan.work[d]
<1>1. scan \in Scans /\ scan.plan \in DOMAIN Plans /\ scan.work \in [Conns -> Collectors]
  BY DEF TypeOK, Scans
<1>2. scan.work[c].todo \in Seq(DOMAIN Tree) /\ scan.work[c].got \subseteq Flaws
  BY <1>1 DEF Collectors
<1> DEFINE new == [todo |-> Tail(scan.work[c].todo), got |-> scan.work[c].got \cup found]
<1>3. new \in Collectors
  <2>1. Tail(scan.work[c].todo) \in Seq(DOMAIN Tree)
    BY <1>2, HeadOrTail
  <2> QED
    BY <1>2, <2>1 DEF Collectors
<1>4. scan' = [scan EXCEPT !.work = [scan.work EXCEPT ![c] = new]]
  BY <1>1 DEF Progress, Scans
<1> HIDE DEF new
<1>5. scan' \in Scans /\ scan'.plan = scan.plan /\ scan'.work = [scan.work EXCEPT ![c] = new]
  BY <1>1, <1>3, <1>4 DEF Scans
<1>6. TypeOK'
  BY <1>5 DEF TypeOK, Progress, world
<1>7. \A d \in Conns : scan'.work[d] = IF d = c THEN new ELSE scan.work[d]
  BY <1>1, <1>5
<1> QED
  BY <1>5, <1>6, <1>7 DEF new

LEMMA TimeoutType ==
  ASSUME TypeOK, NEW c \in Conns, Timeout(c)
  PROVE  /\ TypeOK' /\ scan' \in Scans /\ scan'.plan = scan.plan
         /\ \A d \in Conns : scan'.work[d] = IF d = c THEN [todo |-> << >>, got |-> {}] ELSE scan.work[d]
<1>1. scan \in Scans /\ scan.plan \in DOMAIN Plans /\ scan.work \in [Conns -> Collectors]
  BY DEF TypeOK, Scans, Timeout, TimesOut
<1> DEFINE new == [todo |-> << >>, got |-> {}]
<1>2. new \in Collectors
  BY DEF Collectors
<1>3. scan' = [scan EXCEPT !.work = [scan.work EXCEPT ![c] = new]]
  BY <1>1 DEF Timeout, Scans
<1> HIDE DEF new
<1>4. scan' \in Scans /\ scan'.plan = scan.plan /\ scan'.work = [scan.work EXCEPT ![c] = new]
  BY <1>1, <1>2, <1>3 DEF Scans
<1>5. TypeOK'
  BY <1>4 DEF TypeOK, Timeout, world
<1>6. \A d \in Conns : scan'.work[d] = IF d = c THEN new ELSE scan.work[d]
  BY <1>1, <1>4
<1> QED
  BY <1>4, <1>5, <1>6 DEF new

LEMMA StartType ==
  ASSUME TypeOK, ScanStart
  PROVE  /\ TypeOK' /\ scan' \in Scans /\ scan'.plan \in DOMAIN Plans
         /\ \E tokens \in SUBSET WithToken :
               /\ disturbed' = WithToken \ tokens
               /\ \A c \in Conns : scan'.work[c] = [todo |-> Todo(c, scan'.plan, tokens), got |-> {}]
<1>1. PICK tokens \in SUBSET WithToken :
        /\ scan' = [plan |-> job, work |-> [c \in Conns |-> [todo |-> Todo(c, job, tokens), got |-> {}]]]
        /\ disturbed' = WithToken \ tokens
  BY DEF ScanStart
<1>2. job \in DOMAIN Plans
  BY DEF ScanStart, TypeOK
<1>3. \A c \in Conns : Todo(c, job, tokens) \in Seq(DOMAIN Tree)
  BY <1>2, TodoType
<1>4. \A c \in Conns : [todo |-> Todo(c, job, tokens), got |-> {}] \in Collectors
  BY <1>3 DEF Collectors
<1>5. scan' \in Scans
  BY <1>1, <1>2, <1>4 DEF Scans
<1>6. TypeOK'
  BY <1>1, <1>5 DEF TypeOK, ScanStart, world
<1> QED
  BY <1>1, <1>2, <1>5, <1>6

(* What a step of a collector reports is among the flaws.                  *)
LEMMA CollectorStep ==
  ASSUME TypeOK, NEW c \in Conns, CollectRepo(c) \/ CollectAccount(c)
  PROVE  /\ scan # None /\ scan.plan \in DOMAIN Plans /\ scan.work[c].todo # << >>
         /\ scan.work[c].todo \in Seq(DOMAIN Tree)
         /\ \E found \in SUBSET (present \cap Entitled(scan.plan)), failed \in BOOLEAN :
               /\ Progress(c, found, failed)
               /\ ~failed => \/ /\ Provider[c] \in SourceHosts
                                /\ LET r == Head(scan.work[c].todo)
                                   IN  found = AuditRepo(c, Listed(r), Elements(Tree[r]), TRUE)
                             \/ /\ Provider[c] \notin SourceHosts
                                /\ found = AuditAccount(c, Resources(c, Audited(c)), present)
<1>1. scan # None /\ scan.work[c].todo # << >>
  BY DEF CollectRepo, CollectAccount
<1>2. scan.plan \in DOMAIN Plans /\ scan.work[c].todo \in Seq(DOMAIN Tree) /\ present \subseteq Flaws
  BY <1>1 DEF TypeOK, Scans, Collectors
<1>3. CASE CollectRepo(c)
  <2> DEFINE r == Head(scan.work[c].todo)
             files == Elements(Tree[r])
  <2>1. CASE Progress(c, {}, TRUE)
    BY <1>1, <1>2, <2>1
  <2>2. ASSUME NEW read \in SUBSET files, NEW osv \in BOOLEAN, NEW tree \in Listings(c, r),
               Progress(c, AuditRepo(c, tree, read, osv),
                        read # files \/ ~osv \/ tree # Listed(r))
        PROVE  \E found \in SUBSET (present \cap Entitled(scan.plan)), failed \in BOOLEAN :
                 /\ Progress(c, found, failed)
                 /\ ~failed => found = AuditRepo(c, Listed(r), files, TRUE)
    <3> DEFINE found == AuditRepo(c, tree, read, osv)
               failed == read # files \/ ~osv \/ tree # Listed(r)
    <3>1. found \in SUBSET (present \cap Entitled(scan.plan))
      BY <1>1, <1>2, RepoAuditIsSound
    <3>2. failed \in BOOLEAN /\ (~failed => found = AuditRepo(c, Listed(r), files, TRUE))
      OBVIOUS
    <3>3. Progress(c, found, failed)
      BY <2>2
    <3> HIDE DEF found, failed
    <3> QED
      BY <3>1, <3>2, <3>3
  <2>3. \/ Progress(c, {}, TRUE)
        \/ \E read \in SUBSET files, osv \in BOOLEAN, tree \in Listings(c, r) :
             Progress(c, AuditRepo(c, tree, read, osv),
                      read # files \/ ~osv \/ tree # Listed(r))
    BY <1>3 DEF CollectRepo
  <2>4. Provider[c] \in SourceHosts
    BY <1>3 DEF CollectRepo
  <2> QED
    BY <1>1, <1>2, <2>1, <2>2, <2>3, <2>4
<1>4. CASE CollectAccount(c)
  <2> DEFINE audited == Resources(c, Audited(c))
  <2>1. PICK read \in SUBSET audited : Progress(c, AuditAccount(c, read, present), read # audited)
    BY <1>4 DEF CollectAccount
  <2> DEFINE found == AuditAccount(c, read, present)
             failed == read # audited
  <2>2. found \in SUBSET (present \cap Entitled(scan.plan))
    BY <1>2, AccountAuditIsSound
  <2>3. failed \in BOOLEAN /\ (~failed => found = AuditAccount(c, audited, present))
    OBVIOUS
  <2>4. Progress(c, found, failed) /\ Provider[c] \notin SourceHosts
    BY <1>4, <2>1 DEF CollectAccount
  <2> HIDE DEF found, failed
  <2> QED
    BY <1>1, <1>2, <2>2, <2>3, <2>4
<1> QED
  BY <1>3, <1>4

LEMMA FinishTypes ==
  ASSUME TypeOK, Finish
  PROVE  TypeOK' /\ scan # None /\ scan' = None
<1>1. scan \in Scans /\ \A c \in Conns : scan.work[c].got \subseteq Flaws
  BY DEF Finish, TypeOK, Scans, Collectors
<1>2. report' \subseteq Flaws
  BY <1>1 DEF Finish, MergeCollections
<1> QED
  BY <1>2 DEF Finish, TypeOK, world

LEMMA CustomerType ==
  ASSUME TypeOK, (\E x \in Flaws : Change(x)) \/ (\E p \in DOMAIN Plans : ChangePlan(p)) \/ Request
  PROVE  TypeOK' /\ scan' = scan
<1>1. ASSUME NEW x \in Flaws, Change(x) PROVE TypeOK' /\ scan' = scan
  BY <1>1 DEF Change, TypeOK
<1>2. ASSUME NEW p \in DOMAIN Plans, ChangePlan(p) PROVE TypeOK' /\ scan' = scan
  BY <1>2 DEF ChangePlan, TypeOK, world, observed
<1>3. CASE Request
  BY <1>3 DEF Request, TypeOK, world, observed
<1> QED
  BY <1>1, <1>2, <1>3

(* The state has the types that the collection relies on.                  *)
THEOREM CollectionTypeCorrect == Spec => []TypeOK
<1>1. Init => TypeOK
  BY DEF Init, TypeOK
<1>2. TypeOK /\ [Next]_vars => TypeOK'
  <2> SUFFICES ASSUME TypeOK, [Next]_vars PROVE TypeOK'
    OBVIOUS
  <2>1. ASSUME NEW c \in Conns, CollectRepo(c) \/ CollectAccount(c) PROVE TypeOK'
    BY <2>1, CollectorStep, ProgressType DEF Entitled
  <2>2. ASSUME NEW c \in Conns, Timeout(c) PROVE TypeOK'
    BY <2>2, TimeoutType
  <2>3. CASE UNCHANGED vars
    BY <2>3 DEF vars, TypeOK
  <2> QED
    BY <2>1, <2>2, <2>3, StartType, FinishTypes, CustomerType DEF Next
<1> QED
  BY <1>1, <1>2, PTL DEF Spec

-----------------------------------------------------------------------------
(* A faithful report.                                                      *)

(* Everything found was there at some time of the scan and is paid for.    *)
OnlyTheEntitled ==
    \A c \in Conns : scan.work[c].got \subseteq seen \cap Entitled(scan.plan)

(* The observations bracket what there is now.                             *)
Observed == present \subseteq seen /\ steady \subseteq present

(* Something owed is found already, or its repository or account is still  *)
(* to be read.                                                             *)
StillToRead(x, c) ==
    \/ /\ Provider[c] \in SourceHosts /\ Class[x] # "config"
       /\ \E r \in Elements(scan.work[c].todo) : WithinBudget(x, c, r)
    \/ Provider[c] \notin SourceHosts /\ scan.work[c].todo # << >>

NothingMissed ==
    \A c \in WithToken \ disturbed : \A x \in steady \cap Owed(c, scan.plan) :
        x \in scan.work[c].got \/ StillToRead(x, c)

(* An account's collector has its account to read, and nothing else.       *)
OwnAccounts ==
    \A c \in Conns : Provider[c] \notin SourceHosts => scan.work[c].todo \in {<< >>, <<c>>}

CollectionInv ==
    /\ TypeOK
    /\ scan # None => OnlyTheEntitled /\ Observed /\ NothingMissed /\ OwnAccounts

LEMMA OwedByKind ==
  ASSUME NEW c, NEW p, NEW x \in Owed(c, p)
  PROVE  /\ x \in Flaws
         /\ Provider[c] \in SourceHosts =>
               /\ x \in Entitled(p) /\ Class[x] # "config"
               /\ \E r \in ReposOf(c, p) : WithinBudget(x, c, r)
         /\ Provider[c] \notin SourceHosts =>
               /\ Class[x] = "config" /\ At[x] \in Resources(c, Audited(c))
               /\ Cardinality(Audited(c)) <= MaxKept
  BY DEF Owed, ReposOf, Entitled

LEMMA StartKeeps ==
  ASSUME CollectionInv, ScanStart
  PROVE  CollectionInv'
<1>1. PICK tokens \in SUBSET WithToken :
        /\ disturbed' = WithToken \ tokens
        /\ \A c \in Conns : scan'.work[c] = [todo |-> Todo(c, scan'.plan, tokens), got |-> {}]
  BY StartType DEF CollectionInv
<1>2. TypeOK' /\ scan'.plan \in DOMAIN Plans
  BY StartType DEF CollectionInv
<1>7. /\ \A c \in Conns : scan'.work[c].todo = Todo(c, scan'.plan, tokens)
      /\ \A c \in Conns : scan'.work[c].got = {}
  <2> SUFFICES ASSUME NEW c \in Conns
               PROVE  scan'.work[c].todo = Todo(c, scan'.plan, tokens) /\ scan'.work[c].got = {}
    OBVIOUS
  <2>1. scan'.work[c] = [todo |-> Todo(c, scan'.plan, tokens), got |-> {}]
    BY <1>1
  <2> QED
    BY <2>1
<1>3. OnlyTheEntitled'
  BY <1>7 DEF OnlyTheEntitled
<1>4. Observed'
  BY DEF ScanStart, Observed, world
<1>5. NothingMissed'
  <2> SUFFICES ASSUME NEW c \in WithToken \ disturbed', NEW x \in Owed(c, scan'.plan)
               PROVE  StillToRead(x, c)'
    BY DEF NothingMissed
  <2>1. c \in Conns /\ c \in tokens /\ scan'.work[c].todo = Todo(c, scan'.plan, tokens)
    BY <1>1, <1>7
  <2>2. /\ ReposOf(c, scan'.plan) \subseteq Elements(scan'.work[c].todo)
        /\ Provider[c] \notin SourceHosts => scan'.work[c].todo # << >>
    BY <1>2, <2>1, TodoCovers
  <2> QED
    BY <2>2, OwedByKind DEF StillToRead
<1>6. OwnAccounts'
  BY <1>7 DEF OwnAccounts, Todo
<1> QED
  BY <1>2, <1>3, <1>4, <1>5, <1>6 DEF CollectionInv

LEMMA CollectorKeeps ==
  ASSUME CollectionInv, NEW c \in Conns, CollectRepo(c) \/ CollectAccount(c)
  PROVE  CollectionInv'
<1> DEFINE todo == scan.work[c].todo
<1>1. TypeOK /\ OnlyTheEntitled /\ Observed /\ NothingMissed /\ OwnAccounts
  BY CollectorStep DEF CollectionInv
<1>2. scan # None /\ scan.plan \in DOMAIN Plans /\ todo # << >> /\ todo \in Seq(DOMAIN Tree)
        /\ present \subseteq Flaws
  BY <1>1, CollectorStep DEF TypeOK
<1>3. PICK found \in SUBSET (present \cap Entitled(scan.plan)), failed \in BOOLEAN :
        /\ Progress(c, found, failed)
        /\ ~failed => \/ /\ Provider[c] \in SourceHosts
                         /\ LET r == Head(scan.work[c].todo)
                            IN  found = AuditRepo(c, Listed(r), Elements(Tree[r]), TRUE)
                      \/ /\ Provider[c] \notin SourceHosts
                         /\ found = AuditAccount(c, Resources(c, Audited(c)), present)
  BY <1>1, CollectorStep
<1>4. /\ TypeOK' /\ scan'.plan = scan.plan
      /\ \A d \in Conns : scan'.work[d] = IF d = c
             THEN [todo |-> Tail(todo), got |-> scan.work[c].got \cup found] ELSE scan.work[d]
  <2>1. found \subseteq Flaws
    BY <1>2
  <2> QED
    BY <1>1, <1>2, <1>3, <2>1, ProgressType
<1>5. /\ present' = present /\ steady' = steady /\ seen' = seen
      /\ disturbed' = IF failed THEN disturbed \cup {c} ELSE disturbed
  BY <1>3 DEF Progress, world
<1>11. \A d \in Conns :
          /\ scan'.work[d].got = IF d = c THEN scan.work[c].got \cup found ELSE scan.work[d].got
          /\ scan'.work[d].todo = IF d = c THEN Tail(todo) ELSE scan.work[d].todo
  <2> SUFFICES ASSUME NEW d \in Conns
               PROVE  /\ scan'.work[d].got = IF d = c THEN scan.work[c].got \cup found ELSE scan.work[d].got
                      /\ scan'.work[d].todo = IF d = c THEN Tail(todo) ELSE scan.work[d].todo
    OBVIOUS
  <2>1. CASE d = c
    <3>1. scan'.work[d] = [todo |-> Tail(todo), got |-> scan.work[c].got \cup found]
      BY <1>4, <2>1
    <3> HIDE DEF todo
    <3> QED
      BY <2>1, <3>1
  <2>2. CASE d # c
    BY <1>4, <2>2
  <2> QED
    BY <2>1, <2>2
<1>6. OnlyTheEntitled'
  <2>1. found \subseteq seen \cap Entitled(scan.plan)
    BY <1>1 DEF Observed
  <2> SUFFICES ASSUME NEW d \in Conns
               PROVE  scan'.work[d].got \subseteq seen \cap Entitled(scan.plan)
    BY <1>4, <1>5 DEF OnlyTheEntitled
  <2>2. \A e \in Conns : scan.work[e].got \subseteq seen \cap Entitled(scan.plan)
    BY <1>1 DEF OnlyTheEntitled
  <2> QED
    BY <1>11, <2>1, <2>2
<1>7. Observed'
  BY <1>1, <1>5 DEF Observed
<1>8. ASSUME NEW d \in WithToken \ disturbed', NEW x \in steady \cap Owed(d, scan.plan)
      PROVE  x \in scan'.work[d].got \/ StillToRead(x, d)'
  <2>1. d \in Conns /\ d \in WithToken \ disturbed
    BY <1>5, <1>8
  <2>2. x \in scan.work[d].got \/ StillToRead(x, d)
    BY <1>1, <2>1 DEF NothingMissed
  <2>3. CASE d # c
    <3>1. scan'.work[d] = scan.work[d]
      BY <1>4, <2>1, <2>3
    <3> QED
      BY <2>2, <3>1 DEF StillToRead
  <2>4. CASE d = c
    <3>1. scan'.work[d].todo = Tail(todo) /\ scan'.work[d].got = scan.work[c].got \cup found
      BY <1>11, <2>4
    <3>2. ~failed
      BY <1>3, <1>5, <2>1, <2>4
    <3>3. CASE x \in scan.work[c].got
      BY <3>1, <3>3
    <3>4. CASE /\ Provider[c] \in SourceHosts /\ Class[x] # "config"
               /\ \E r \in Elements(todo) : WithinBudget(x, c, r)
      <4>1. PICK r \in Elements(todo) : WithinBudget(x, c, r)
        BY <3>4
      <4>2. Head(todo) \in DOMAIN Tree /\ (r = Head(todo) \/ r \in Elements(Tail(todo)))
        BY <1>2, HeadOrTail
      <4>3. CASE r \in Elements(Tail(todo))
        BY <2>4, <3>1, <3>4, <4>1, <4>3 DEF StillToRead
      <4>4. CASE r = Head(todo)
        <5>1. x \in present \cap Entitled(scan.plan)
          BY <1>1, <2>4, <3>4, OwedByKind DEF Observed
        <5>2. x \in AuditRepo(c, Listed(r), Elements(Tree[r]), TRUE)
          BY <1>2, <3>4, <4>1, <4>2, <4>4, <5>1, RepoAuditIsComplete
        <5>3. found = AuditRepo(c, Listed(r), Elements(Tree[r]), TRUE)
          BY <1>3, <3>2, <3>4, <4>4
        <5> QED
          BY <3>1, <5>2, <5>3
      <4> QED
        BY <4>2, <4>3, <4>4
    <3>5. CASE Provider[c] \notin SourceHosts
      <4>1. /\ Class[x] = "config" /\ At[x] \in Resources(c, Audited(c))
            /\ Cardinality(Audited(c)) <= MaxKept /\ x \in present
        BY <1>1, <2>4, <3>5, OwedByKind DEF Observed
      <4>2. c \in DOMAIN Tree
        BY <3>5
      <4>3. x \in AuditAccount(c, Resources(c, Audited(c)), present)
        BY <1>2, <4>1, <4>2, AccountAuditIsComplete
      <4> QED
        BY <1>3, <3>1, <3>2, <3>5, <4>3
    <3> QED
      BY <2>2, <2>4, <3>3, <3>4, <3>5 DEF StillToRead
  <2> QED
    BY <2>3, <2>4
<1>9. NothingMissed'
  BY <1>4, <1>5, <1>8 DEF NothingMissed
<1>10. OwnAccounts'
  <2> SUFFICES ASSUME NEW d \in Conns, Provider[d] \notin SourceHosts
               PROVE  scan'.work[d].todo \in {<< >>, <<d>>}
    BY DEF OwnAccounts
  <2>1. scan.work[d].todo \in {<< >>, <<d>>}
    BY <1>1 DEF OwnAccounts
  <2>2. CASE d = c
    <3>1. todo = <<c>>
      BY <1>2, <2>1, <2>2
    <3>2. Tail(<<c>>) = << >>
      OBVIOUS
    <3> QED
      BY <1>11, <2>2, <3>1, <3>2
  <2> QED
    BY <1>11, <2>1, <2>2
<1> QED
  BY <1>4, <1>6, <1>7, <1>9, <1>10 DEF CollectionInv

LEMMA TimeoutKeeps ==
  ASSUME CollectionInv, NEW c \in Conns, Timeout(c)
  PROVE  CollectionInv'
<1>1. TypeOK /\ OnlyTheEntitled /\ Observed /\ NothingMissed /\ OwnAccounts
  BY DEF CollectionInv, Timeout, TimesOut
<1>2. /\ TypeOK' /\ scan'.plan = scan.plan
      /\ \A d \in Conns : scan'.work[d] = IF d = c THEN [todo |-> << >>, got |-> {}] ELSE scan.work[d]
  BY <1>1, TimeoutType
<1>3. /\ present' = present /\ steady' = steady /\ seen' = seen /\ disturbed' = disturbed \cup {c}
  BY DEF Timeout, world
<1>9. \A d \in Conns :
         /\ scan'.work[d].got = IF d = c THEN {} ELSE scan.work[d].got
         /\ scan'.work[d].todo = IF d = c THEN << >> ELSE scan.work[d].todo
  <2> SUFFICES ASSUME NEW d \in Conns
               PROVE  /\ scan'.work[d].got = IF d = c THEN {} ELSE scan.work[d].got
                      /\ scan'.work[d].todo = IF d = c THEN << >> ELSE scan.work[d].todo
    OBVIOUS
  <2>1. CASE d = c
    BY <1>2, <2>1
  <2>2. CASE d # c
    BY <1>2, <2>2
  <2> QED
    BY <2>1, <2>2
<1>4. OnlyTheEntitled'
  BY <1>1, <1>2, <1>3, <1>9 DEF OnlyTheEntitled
<1>5. Observed'
  BY <1>1, <1>3 DEF Observed
<1>6. ASSUME NEW d \in WithToken \ disturbed', NEW x \in steady \cap Owed(d, scan.plan)
      PROVE  x \in scan'.work[d].got \/ StillToRead(x, d)'
  <2>1. d \in Conns /\ d # c /\ d \in WithToken \ disturbed
    BY <1>3, <1>6
  <2>2. scan'.work[d] = scan.work[d]
    BY <1>2, <2>1
  <2>3. x \in scan.work[d].got \/ StillToRead(x, d)
    BY <1>1, <2>1 DEF NothingMissed
  <2> QED
    BY <2>2, <2>3 DEF StillToRead
<1>7. NothingMissed'
  BY <1>2, <1>3, <1>6 DEF NothingMissed
<1>8. OwnAccounts'
  BY <1>1, <1>9 DEF OwnAccounts
<1> QED
  BY <1>2, <1>4, <1>5, <1>7, <1>8 DEF CollectionInv

LEMMA CustomerKeeps ==
  ASSUME CollectionInv,
         (\E x \in Flaws : Change(x)) \/ (\E p \in DOMAIN Plans : ChangePlan(p)) \/ Request
  PROVE  CollectionInv'
<1>1. TypeOK' /\ scan' = scan
  BY CustomerType DEF CollectionInv
<1> SUFFICES ASSUME scan # None
             PROVE  (OnlyTheEntitled /\ Observed /\ NothingMissed /\ OwnAccounts)'
  BY <1>1 DEF CollectionInv
<1>2. OnlyTheEntitled /\ Observed /\ NothingMissed /\ OwnAccounts
  BY DEF CollectionInv
<1>3. disturbed' = disturbed /\ steady' \subseteq steady /\ seen \subseteq seen' /\ Observed'
  <2>1. ASSUME NEW x \in Flaws, Change(x)
        PROVE  disturbed' = disturbed /\ steady' \subseteq steady /\ seen \subseteq seen' /\ Observed'
    BY <1>2, <2>1 DEF Change, Observed
  <2>2. CASE (\E p \in DOMAIN Plans : ChangePlan(p)) \/ Request
    BY <1>2, <2>2 DEF ChangePlan, Request, world, observed, Observed
  <2> QED
    BY <2>1, <2>2
<1>4. OnlyTheEntitled'
  BY <1>1, <1>2, <1>3 DEF OnlyTheEntitled, Entitled
<1>5. NothingMissed'
  <2> SUFFICES ASSUME NEW c \in WithToken \ disturbed', NEW x \in steady' \cap Owed(c, scan'.plan)
               PROVE  x \in scan'.work[c].got \/ StillToRead(x, c)'
    BY DEF NothingMissed
  <2>1. x \in scan.work[c].got \/ StillToRead(x, c)
    BY <1>1, <1>2, <1>3 DEF NothingMissed
  <2> QED
    BY <1>1, <2>1 DEF StillToRead
<1>6. OwnAccounts'
  BY <1>1, <1>2 DEF OwnAccounts
<1> QED
  BY <1>3, <1>4, <1>5, <1>6

THEOREM CollectionInvariant == Spec => []CollectionInv
<1>1. Init => CollectionInv
  <2>1. Init => TypeOK /\ scan = None
    BY DEF Init, TypeOK
  <2> QED
    BY <2>1 DEF CollectionInv
<1>2. CollectionInv /\ [Next]_vars => CollectionInv'
  <2> SUFFICES ASSUME CollectionInv, [Next]_vars PROVE CollectionInv'
    OBVIOUS
  <2>1. CASE Finish
    <3>1. TypeOK' /\ scan' = None
      BY <2>1, FinishTypes DEF CollectionInv
    <3> QED
      BY <3>1 DEF CollectionInv
  <2>2. CASE UNCHANGED vars
    BY <2>2 DEF vars, CollectionInv, TypeOK, OnlyTheEntitled, Observed, NothingMissed, StillToRead,
              OwnAccounts
  <2> QED
    BY <2>1, <2>2, StartKeeps, CollectorKeeps, TimeoutKeeps, CustomerKeeps DEF Next
<1> QED
  BY <1>1, <1>2, PTL DEF Spec

(* Whatever the providers do and the customer changes while a scan runs,   *)
(* its report holds nothing that was never there or that its plan does not *)
(* pay for, and everything owed of the connections that did not fail: what *)
(* the listings reach, and the budgets cover.                              *)
THEOREM ReportsAreFaithful == Spec => ReportIsFaithful
<1> DEFINE Faithful ==
        scan # None /\ scan' = None =>
          /\ report' \subseteq seen \cap Entitled(scan.plan)
          /\ \A c \in WithToken \ disturbed : steady \cap Owed(c, scan.plan) \subseteq report'
<1>1. CollectionInv /\ [Next]_vars => [Faithful]_vars
  <2> SUFFICES ASSUME CollectionInv, Next, scan # None, scan' = None
               PROVE  /\ report' \subseteq seen \cap Entitled(scan.plan)
                      /\ \A c \in WithToken \ disturbed : steady \cap Owed(c, scan.plan) \subseteq report'
    OBVIOUS
  <2>1. TypeOK /\ OnlyTheEntitled /\ NothingMissed
    BY DEF CollectionInv
  <2>2. Finish
    <3>1. ASSUME NEW c \in Conns, CollectRepo(c) \/ CollectAccount(c) PROVE FALSE
      <4>1. scan' \in Scans
        BY <2>1, <3>1, CollectorStep, ProgressType DEF Entitled
      <4> QED
        BY <4>1
    <3>2. ASSUME NEW c \in Conns, Timeout(c) PROVE FALSE
      <4>1. scan' \in Scans
        BY <2>1, <3>2, TimeoutType
      <4> QED
        BY <4>1
    <3>3. ~ScanStart
      BY DEF ScanStart
    <3>4. ~((\E x \in Flaws : Change(x)) \/ (\E p \in DOMAIN Plans : ChangePlan(p)) \/ Request)
      BY <2>1, CustomerType
    <3> QED
      BY <3>1, <3>2, <3>3, <3>4 DEF Next
  <2>3. report' = UNION {scan.work[c].got : c \in Conns} /\ \A c \in Conns : scan.work[c].todo = << >>
    BY <2>2 DEF Finish, MergeCollections
  <2>4. report' \subseteq seen \cap Entitled(scan.plan)
    BY <2>1, <2>3 DEF OnlyTheEntitled
  <2>5. ASSUME NEW c \in WithToken \ disturbed, NEW x \in steady \cap Owed(c, scan.plan)
        PROVE  x \in report'
    <3>1. c \in Conns /\ scan.work[c].todo = << >>
      BY <2>3
    <3>2. ~StillToRead(x, c)
      BY <3>1 DEF StillToRead, Elements
    <3>3. x \in scan.work[c].got
      BY <2>1, <3>2 DEF NothingMissed
    <3> QED
      BY <2>3, <3>1, <3>3
  <2> QED
    BY <2>4, <2>5
<1> QED
  BY <1>1, CollectionInvariant, PTL DEF Spec, ReportIsFaithful
=============================================================================
