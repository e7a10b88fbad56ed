---------------------------- MODULE CommandProofs ----------------------------
(***************************************************************************)
(* What holds of definitions, of configurations and of commands, whatever  *)
(* the documents, the sources and the number of commands.  First the       *)
(* operators: Canonical is stable and keeps what validation looks at; a    *)
(* child of Spawn resolves what its parent resolved; a handler loses       *)
(* nothing of a database and answers what is true of it.  Then the         *)
(* specification, by an invariant of one part per command (IInv), one on   *)
(* requests, daemons and sockets (RunInv) and one on what answers and      *)
(* caches say of the databases (DataInv).                                  *)
(***************************************************************************)
EXTENDS Command, SequenceTheorems, TLAPS

\* A document is the record of its fields.
LEMMA DocumentFields ==
  ASSUME NEW d \in Document
  PROVE  d = [name |-> d.name, actor |-> d.actor, inputs |-> d.inputs, output |-> d.output,
              instr |-> d.instr, concurrency |-> d.concurrency, maxAttempts |-> d.maxAttempts,
              joinTimeout |-> d.joinTimeout, layout |-> d.layout, form |-> d.form,
              fault |-> d.fault]
BY DEF Document

\* Two documents with the same fields are one.
LEMMA SameDocument ==
  ASSUME NEW d \in Document, NEW e \in Document,
         d.name = e.name, d.actor = e.actor, d.inputs = e.inputs, d.output = e.output,
         d.instr = e.instr, d.concurrency = e.concurrency, d.maxAttempts = e.maxAttempts,
         d.joinTimeout = e.joinTimeout, d.layout = e.layout, d.form = e.form, d.fault = e.fault
  PROVE  d = e
<1>1. d = [name |-> e.name, actor |-> e.actor, inputs |-> e.inputs, output |-> e.output,
           instr |-> e.instr, concurrency |-> e.concurrency, maxAttempts |-> e.maxAttempts,
           joinTimeout |-> e.joinTimeout, layout |-> e.layout, form |-> e.form,
           fault |-> e.fault]
  BY DocumentFields, Zenon
<1> QED BY <1>1, DocumentFields, Zenon

\* A document whose instructions are plain already is not changed by Normalize.
LEMMA NormalizeStable ==
  ASSUME NEW d \in Document, d.instr # Unset => d.instr.layout = "plain"
  PROVE  Normalize(d) = d
<1>1. CASE d.instr = Unset
  BY <1>1 DEF Normalize
<1>2. CASE d.instr # Unset
  <2> DEFINE i == [d.instr EXCEPT !.layout = "plain"]
             n == [d EXCEPT !.instr = i]
  <2>1. d.instr \in Instructions
    BY <1>2 DEF Document
  <2>2. i = d.instr
    BY <1>2, <2>1 DEF Instructions
  <2>3. Normalize(d) = n
    BY <1>2 DEF Normalize
  <2> HIDE DEF i
  <2>4. n \in Document
    BY <2>2 DEF Document
  <2>5. /\ n.name = d.name /\ n.actor = d.actor /\ n.inputs = d.inputs /\ n.output = d.output
        /\ n.instr = d.instr /\ n.concurrency = d.concurrency
        /\ n.maxAttempts = d.maxAttempts /\ n.joinTimeout = d.joinTimeout
        /\ n.layout = d.layout /\ n.form = d.form /\ n.fault = d.fault
    BY <2>2 DEF Document
  <2> HIDE DEF n
  <2>6. n = d
    BY <2>4, <2>5, SameDocument
  <2> QED BY <2>3, <2>6
<1> QED BY <1>1, <1>2

\* Normalize gives a document.
LEMMA NormalizeType ==
  ASSUME NEW d \in Document
  PROVE  Normalize(d) \in Document
<1>1. CASE d.instr = Unset
  BY <1>1 DEF Normalize
<1>2. CASE d.instr # Unset
  <2>1. d.instr \in Instructions
    BY <1>2 DEF Document
  <2>2. [d.instr EXCEPT !.layout = "plain"] \in Instructions
    BY <2>1 DEF Instructions
  <2>3. Normalize(d) = [d EXCEPT !.instr = [d.instr EXCEPT !.layout = "plain"]]
    BY <1>2 DEF Normalize
  <2> QED BY <2>2, <2>3 DEF Document
<1> QED BY <1>1, <1>2

\* Canonical gives a document in JSON with fixed layout, and keeps the rest but for
\* the spelling of join_timeout.
LEMMA CanonicalType ==
  ASSUME NEW d \in Document
  PROVE  /\ Canonical(d) \in Document
         /\ Canonical(d).name = d.name /\ Canonical(d).actor = d.actor
         /\ Canonical(d).inputs = d.inputs /\ Canonical(d).output = d.output
         /\ Canonical(d).concurrency = d.concurrency /\ Canonical(d).maxAttempts = d.maxAttempts
         /\ Canonical(d).fault = d.fault /\ Canonical(d).form = "json"
         /\ Canonical(d).layout = "plain"
         /\ Canonical(d).instr = Normalize(d).instr
         /\ Canonical(d).joinTimeout =
              IF d.joinTimeout = Unset THEN Unset
              ELSE [d.joinTimeout EXCEPT !.spelling = "standard"]
<1> DEFINE n == Normalize(d)
           j == IF d.joinTimeout = Unset THEN Unset
                ELSE [d.joinTimeout EXCEPT !.spelling = "standard"]
<1>1. n \in Document /\ n.joinTimeout = d.joinTimeout /\ n.name = d.name /\ n.actor = d.actor
      /\ n.inputs = d.inputs /\ n.output = d.output /\ n.concurrency = d.concurrency
      /\ n.maxAttempts = d.maxAttempts /\ n.fault = d.fault
  BY NormalizeType DEF Normalize, Document
<1>2. j \in Duration \cup {Unset}
  BY DEF Document, Duration
<1>3. Canonical(d) = [n EXCEPT !.layout = "plain", !.form = "json", !.joinTimeout = j]
  BY <1>1 DEF Canonical
<1> HIDE DEF n, j
<1>4. Canonical(d) \in Document
  BY <1>1, <1>2, <1>3 DEF Document
<1>5. /\ Canonical(d).name = n.name /\ Canonical(d).actor = n.actor
      /\ Canonical(d).inputs = n.inputs /\ Canonical(d).output = n.output
      /\ Canonical(d).concurrency = n.concurrency /\ Canonical(d).maxAttempts = n.maxAttempts
      /\ Canonical(d).fault = n.fault /\ Canonical(d).form = "json"
      /\ Canonical(d).layout = "plain" /\ Canonical(d).instr = n.instr
      /\ Canonical(d).joinTimeout = j
  BY <1>1, <1>3 DEF Document
<1> QED BY <1>1, <1>4, <1>5 DEF n, j

\* Parsing the canonical form again and storing it changes nothing more: a
\* definition read back from the registry is its own canonical form (Canonical).
THEOREM CanonicalStable ==
  ASSUME NEW d \in Document
  PROVE  Canonical(Canonical(d)) = Canonical(d)
<1> DEFINE e == Canonical(d)
<1>1. e \in Document /\ e.form = "json" /\ e.layout = "plain"
  BY CanonicalType
<1>2. e.instr # Unset => e.instr \in Instructions /\ e.instr.layout = "plain"
  <2>1. e.instr = Normalize(d).instr
    BY CanonicalType
  <2>2. CASE d.instr = Unset
    BY <2>1, <2>2 DEF Normalize
  <2>3. CASE d.instr # Unset
    <3>1. d.instr \in Instructions
      BY <2>3 DEF Document
    <3>2. Normalize(d).instr = [d.instr EXCEPT !.layout = "plain"]
      BY <2>3 DEF Normalize, Document
    <3> QED BY <2>1, <3>1, <3>2 DEF Instructions
  <2> QED BY <2>2, <2>3
<1>3. e.joinTimeout # Unset => e.joinTimeout \in Duration /\ e.joinTimeout.spelling = "standard"
  <2>1. e.joinTimeout = IF d.joinTimeout = Unset THEN Unset
                        ELSE [d.joinTimeout EXCEPT !.spelling = "standard"]
    BY CanonicalType
  <2> QED BY <2>1 DEF Document, Duration
<1> HIDE DEF e
<1>4. Normalize(e) = e
  BY <1>1, <1>2, NormalizeStable
<1>5. (IF e.joinTimeout = Unset THEN Unset ELSE [e.joinTimeout EXCEPT !.spelling = "standard"])
        = e.joinTimeout
  BY <1>3 DEF Duration
<1>6. /\ Canonical(e) \in Document
      /\ Canonical(e).name = e.name /\ Canonical(e).actor = e.actor
      /\ Canonical(e).inputs = e.inputs /\ Canonical(e).output = e.output
      /\ Canonical(e).concurrency = e.concurrency /\ Canonical(e).maxAttempts = e.maxAttempts
      /\ Canonical(e).fault = e.fault /\ Canonical(e).form = e.form
      /\ Canonical(e).layout = e.layout /\ Canonical(e).instr = e.instr
      /\ Canonical(e).joinTimeout = e.joinTimeout
  BY <1>1, <1>4, <1>5, CanonicalType
<1>7. Canonical(e) = e
  BY <1>1, <1>6, SameDocument
<1> QED BY <1>7 DEF e

\* Validation looks only at what the canonical form keeps.
LEMMA CanonicalValid ==
  ASSUME NEW d \in Document, Validate(Normalize(d))
  PROVE  Validate(Normalize(Canonical(d)))
<1> DEFINE n == Normalize(d)
           e == Canonical(d)
<1>1. /\ n.name = d.name /\ n.actor = d.actor /\ n.inputs = d.inputs /\ n.output = d.output
      /\ n.concurrency = d.concurrency /\ n.maxAttempts = d.maxAttempts
      /\ n.joinTimeout = d.joinTimeout
  BY DEF Normalize, Document
<1>2. /\ e \in Document
      /\ e.name = d.name /\ e.actor = d.actor /\ e.inputs = d.inputs /\ e.output = d.output
      /\ e.concurrency = d.concurrency /\ e.maxAttempts = d.maxAttempts /\ e.instr = n.instr
      /\ e.joinTimeout = IF d.joinTimeout = Unset THEN Unset
                         ELSE [d.joinTimeout EXCEPT !.spelling = "standard"]
  BY CanonicalType
<1>3. e.joinTimeout # Unset => d.joinTimeout # Unset /\ e.joinTimeout.value = d.joinTimeout.value
  BY <1>2 DEF Document, Duration
<1>4. Validate(n)
  OBVIOUS
<1>5. n.instr # Unset /\ ~n.instr.unknownField /\ n.instr.command # <<>>
      /\ n.instr.command[1] # "" /\ (n.instr.timeout # Unset => n.instr.timeout.value > 0)
  BY <1>4 DEF Validate, validateInstructions
<1>6. Normalize(e) = e
  <2>1. e.instr \in Instructions /\ e.instr.layout = "plain"
    <3>1. n \in Document
      BY NormalizeType
    <3>2. n.instr \in Instructions
      BY <1>5, <3>1 DEF Document
    <3>3. d.instr # Unset
      BY <1>5 DEF Normalize
    <3>4. n.instr = [d.instr EXCEPT !.layout = "plain"] /\ d.instr \in Instructions
      BY <3>3 DEF Normalize, Document
    <3> QED BY <1>2, <3>2, <3>4 DEF Instructions
  <2> QED BY <1>2, <2>1, NormalizeStable
<1> HIDE DEF n, e
<1>7. validateInputs(e) /\ Compiles(e) /\ (IsJoin(n) => IsJoin(e))
  <2>1. Correlated(e) = Correlated(n) /\ e.inputs = n.inputs /\ e.output = n.output
    BY <1>1, <1>2 DEF Correlated
  <2>2. validateInputs(n) /\ Compiles(n)
    BY <1>4 DEF Validate
  <2>3. validateInputs(e)
    BY <2>1, <2>2, Zenon DEF validateInputs
  <2>4. Compiles(e)
    BY <2>1, <2>2, Zenon DEF Compiles
  <2>5. IsJoin(n) => IsJoin(e)
    BY <2>1 DEF IsJoin
  <2> QED BY <2>3, <2>4, <2>5
<1>8. validateInstructions(e)
  BY <1>2, <1>5 DEF validateInstructions
<1>9. Validate(e)
  BY <1>1, <1>2, <1>3, <1>4, <1>7, <1>8 DEF Validate
<1> QED BY <1>6, <1>9 DEF e

\* What the command line accepts, in YAML or in JSON, the daemon accepts as the
\* JSON that the command line makes of it (ParseYAML, then Canonical, then
\* ParseJSON at the other end of the socket).
THEOREM CanonicalAccepted ==
  ASSUME NEW d \in Document, NEW form, Accepted(d, form)
  PROVE  Accepted(Canonical(d), "json")
<1>1. d.fault = "none" /\ Validate(Normalize(d))
  BY DEF Accepted, Decodes
<1>2. Canonical(d).fault = "none" /\ Canonical(d).form = "json"
  BY <1>1, CanonicalType
<1>3. Validate(Normalize(Canonical(d)))
  BY <1>1, CanonicalValid
<1> QED BY <1>2, <1>3 DEF Accepted, Decodes

-----------------------------------------------------------------------------
(* Config. *)

\* A path below another begins as that one does.
LEMMA Prefixed ==
  ASSUME NEW S, NEW p \in Seq(S), NEW r \in Seq(S), Len(r) = 2
  PROVE  r \o p \in Seq(S) /\ (r \o p)[1] = r[1] /\ r \o p # <<>>
<1> DEFINE q == r \o p
<1>1. Len(p) \in Nat
  BY LenProperties
<1>2. q \in Seq(S) /\ Len(q) = Len(r) + Len(p)
  BY ConcatProperties
<1>3. q[1] = r[1]
  <2>1. 1 \in 1..(Len(r) + Len(p)) /\ 1 <= Len(r)
    BY <1>1
  <2> QED BY <2>1, ConcatProperties
<1>4. q # <<>>
  <2>1. Len(q) # 0
    BY <1>1, <1>2
  <2> QED BY <2>1, EmptySeq
<1> QED BY <1>2, <1>3, <1>4

\* A path with a name added to it begins as it did.
LEMMA Appended ==
  ASSUME NEW S, NEW p \in Seq(S), NEW n \in S
  PROVE  /\ Append(p, n) \in Seq(S) /\ Append(p, n) # <<>>
         /\ p # <<>> => Append(p, n)[1] = p[1]
<1>1. /\ Append(p, n) \in Seq(S) /\ Append(p, n) # <<>>
      /\ \A i \in 1..Len(p) : Append(p, n)[i] = p[i]
  BY AppendProperties
<1>2. ASSUME p # <<>> PROVE Append(p, n)[1] = p[1]
  <2>1. Len(p) \in Nat /\ Len(p) > 0
    BY <1>2, EmptySeq
  <2>2. 1 \in 1..Len(p)
    BY <2>1
  <2> QED BY <1>1, <2>2
<1> QED BY <1>1, <1>2

Absolute(path) == path # <<>> => path[1] = "root"

\* expand gives an absolute path and leaves one alone.
LEMMA Expanded ==
  ASSUME NEW p \in Seq(Word)
  PROVE  /\ Expand(p) \in Seq(Word) /\ Absolute(Expand(p))
         /\ p # <<>> => Expand(p) # <<>>
         /\ Absolute(p) => Expand(p) = p
<1> DEFINE r == <<"root", "cwd">>
<1>1. r \in Seq(Word) /\ Len(r) = 2 /\ r[1] = "root"
  <2>1. "root" \in Word /\ "cwd" \in Word
    BY ConfigAssumption
  <2> QED BY <2>1
<1> HIDE DEF r
<1>2. r \o p \in Seq(Word) /\ (r \o p)[1] = "root" /\ r \o p # <<>>
  BY <1>1, Prefixed
<1>3. Expand(p) = IF p = <<>> \/ p[1] = "root" THEN p ELSE r \o p
  BY DEF Expand, r
<1> QED BY <1>2, <1>3 DEF Absolute

\* derive gives an absolute path that it would give again.
LEMMA Derived ==
  ASSUME NEW p \in Seq(Word), NEW dir \in Seq(Word), NEW n \in Word,
         dir # <<>>, Absolute(dir)
  PROVE  LET path == Derive(p, dir, n)
         IN  path \in Seq(Word) /\ path # <<>> /\ Absolute(path) /\ Derive(path, dir, n) = path
<1>1. CASE p = <<>>
  <2>1. /\ Append(dir, n) \in Seq(Word) /\ Append(dir, n) # <<>>
        /\ Append(dir, n)[1] = "root"
    BY Appended DEF Absolute
  <2> QED BY <1>1, <2>1, Expanded DEF Derive, Absolute
<1>2. CASE p # <<>>
  BY <1>2, Expanded DEF Derive
<1> QED BY <1>1, <1>2

\* ParseDuration reads what Duration.String writes.
LEMMA DurationReadsBack ==
  ASSUME NEW d \in Int
  PROVE  ParseDuration(DurationString(d)) = d
<1>1. CASE d % Second = 0
  <2>1. (d \div Second) * Second = d
    BY <1>1, ConfigAssumption
  <2> QED BY <1>1, <2>1 DEF ParseDuration, DurationString
<1>2. CASE d % Second # 0
  BY <1>2 DEF ParseDuration, DurationString
<1> QED BY <1>1, <1>2

\* For the provers: a pair.
LEMMA Paired ==
  ASSUME NEW S, NEW T, NEW a \in S, NEW b \in T
  PROVE  <<a, b>> \in S \X T
OBVIOUS

\* Duration.String writes a text that a key may be set to.
LEMMA DurationStringType ==
  ASSUME NEW d \in Int
  PROVE  DurationString(d) \in Int \X {"", "ns", "s"}
<1> DEFINE U == {"", "ns", "s"}
<1>1. "ns" \in U /\ "s" \in U
  OBVIOUS
<1>2. d \div Second \in Int
  BY ConfigAssumption
<1> HIDE DEF U
<1>3. <<d \div Second, "s">> \in Int \X U /\ <<d, "ns">> \in Int \X U
  BY <1>1, <1>2, Paired
<1> QED BY <1>3 DEF DurationString, U

\* What is found for a key is a text of that key.
LEMMA GetType ==
  ASSUME NEW src, IsSources(src), NEW k \in Keys
  PROVE  Get(k, src) \in Texts(k)
<1>1. Defaults[k] \in Texts(k)
  <2>1. <<"info">> \in Seq(Word) /\ <<>> \in Seq(Word)
    <3>1. "info" \in Word
      BY ConfigAssumption
    <3> QED BY <3>1
  <2>2. <<0, "s">> \in Int \X {"", "ns", "s"}
    BY Paired, 0 \in Int, "s" \in {"", "ns", "s"}
  <2>3. DefaultStateDir \in Seq(Word)
    BY ConfigAssumption
  <2>4. CASE k = "idle"
    BY <2>2, <2>4 DEF Defaults, Texts, Words
  <2>5. CASE k = "hops"
    BY <2>5 DEF Defaults, Texts, Words
  <2>6. CASE k \in Words
    <3>1. Texts(k) = Seq(Word)
      BY <2>6 DEF Texts, Words
    <3>2. CASE k = "state_dir"
      BY <3>2, <2>3, <3>1 DEF Defaults, Keys, Words
    <3>3. CASE k = "log_level"
      <4> DEFINE l == <<"info">>
      <4>1. Defaults[k] = l
        BY <3>3 DEF Defaults, Keys, Words
      <4>2. l \in Seq(Word)
        BY <2>1
      <4> HIDE DEF l
      <4> QED BY <4>1, <4>2, <3>1
    <3>4. CASE k = "socket" \/ k = "database"
      <4>1. Defaults[k] = <<>>
        BY <3>4 DEF Defaults, Keys, Words
      <4> QED BY <4>1, <2>1, <3>1
    <3> QED BY <2>6, <3>2, <3>3, <3>4 DEF Words
  <2> QED BY <2>4, <2>5, <2>6 DEF Keys
<1>2. /\ src.flags[k] = NotSet \/ src.flags[k] \in Texts(k)
      /\ src.env[k] = NotSet \/ src.env[k] \in Texts(k)
      /\ src.file[k] = NotSet \/ src.file[k] \in Texts(k)
  BY DEF IsSources, IsSettings
<1> QED BY <1>1, <1>2 DEF Get, Flagged, InEnv

\* What Load resolves: absolute paths that resolve to themselves.
LEMMA LoadType ==
  ASSUME NEW src, IsSources(src)
  PROVE  LET cfg == Load(src)
         IN  /\ cfg = [k \in Keys |-> cfg[k]]
             /\ cfg["state_dir"] \in Seq(Word) /\ Absolute(cfg["state_dir"])
             /\ cfg["log_level"] \in Seq(Word)
             /\ cfg["idle"] \in Int /\ cfg["hops"] \in Int
             /\ cfg["state_dir"] # <<>> =>
                  /\ cfg["socket"] \in Seq(Word) /\ cfg["socket"] # <<>>
                  /\ Derive(cfg["socket"], cfg["state_dir"], "sonata.sock") = cfg["socket"]
                  /\ cfg["database"] \in Seq(Word) /\ cfg["database"] # <<>>
                  /\ Derive(cfg["database"], cfg["state_dir"], "sonata.db") = cfg["database"]
<1> DEFINE cfg == Load(src)
           dir == Expand(Get("state_dir", src))
<1>1. /\ Get("state_dir", src) \in Seq(Word) /\ Get("socket", src) \in Seq(Word)
      /\ Get("database", src) \in Seq(Word) /\ Get("log_level", src) \in Seq(Word)
      /\ Get("idle", src) \in Int \X {"", "ns", "s"} /\ Get("hops", src) \in Int
  <2>1. \A k \in Keys : Get(k, src) \in Texts(k)
    BY GetType
  <2>2. \A k \in Words : k \in Keys /\ Texts(k) = Seq(Word)
    BY DEF Keys, Texts, Words
  <2>3. Texts("idle") = Int \X {"", "ns", "s"} /\ Texts("hops") = Int
        /\ "idle" \in Keys /\ "hops" \in Keys
    BY DEF Keys, Words, Texts
  <2>4. {"state_dir", "socket", "database", "log_level"} \subseteq Words
    BY DEF Words
  <2>5. \A k \in {"state_dir", "socket", "database", "log_level"} : Get(k, src) \in Seq(Word)
    BY <2>1, <2>2, <2>4
  <2>6. Get("idle", src) \in Int \X {"", "ns", "s"}
    BY <2>1, <2>3
  <2>7. Get("hops", src) \in Int
    BY <2>1, <2>3
  <2> QED BY <2>5, <2>6, <2>7
<1>2. dir \in Seq(Word) /\ Absolute(dir)
  BY <1>1, Expanded
<1>3. /\ cfg["state_dir"] = dir
      /\ cfg["socket"] = Derive(Get("socket", src), dir, "sonata.sock")
      /\ cfg["database"] = Derive(Get("database", src), dir, "sonata.db")
      /\ cfg["log_level"] = Get("log_level", src)
      /\ cfg["idle"] = ParseDuration(Get("idle", src))
      /\ cfg["hops"] = Get("hops", src)
      /\ cfg = [k \in Keys |-> cfg[k]]
  BY DEF Load, Keys, Words
<1>4. cfg["idle"] \in Int
  <2> DEFINE text == Get("idle", src)
  <2>1. text[1] \in Int
    BY <1>1
  <2> HIDE DEF text
  <2>2. Second \in Int
    BY ConfigAssumption
  <2>3. text[1] * Second \in Int
    BY <2>1, <2>2
  <2> QED BY <1>3, <2>1, <2>3 DEF ParseDuration, text
<1>5. "sonata.sock" \in Word /\ "sonata.db" \in Word
  BY ConfigAssumption
<1> HIDE DEF cfg, dir
<1>6. ASSUME dir # <<>>
      PROVE  /\ cfg["socket"] \in Seq(Word) /\ cfg["socket"] # <<>>
             /\ Derive(cfg["socket"], dir, "sonata.sock") = cfg["socket"]
             /\ cfg["database"] \in Seq(Word) /\ cfg["database"] # <<>>
             /\ Derive(cfg["database"], dir, "sonata.db") = cfg["database"]
  <2>1. /\ cfg["socket"] \in Seq(Word) /\ cfg["socket"] # <<>>
        /\ Derive(cfg["socket"], dir, "sonata.sock") = cfg["socket"]
    <3>1. LET path == Derive(Get("socket", src), dir, "sonata.sock")
          IN  path \in Seq(Word) /\ path # <<>> /\ Derive(path, dir, "sonata.sock") = path
      BY <1>1, <1>2, <1>5, <1>6, Derived
    <3> QED BY <1>3, <3>1
  <2>2. /\ cfg["database"] \in Seq(Word) /\ cfg["database"] # <<>>
        /\ Derive(cfg["database"], dir, "sonata.db") = cfg["database"]
    <3>1. LET path == Derive(Get("database", src), dir, "sonata.db")
          IN  path \in Seq(Word) /\ path # <<>> /\ Derive(path, dir, "sonata.db") = path
      BY <1>1, <1>2, <1>5, <1>6, Derived
    <3> QED BY <1>3, <3>1
  <2> QED BY <2>1, <2>2
<1>7. cfg["log_level"] \in Seq(Word) /\ cfg["hops"] \in Int
  BY <1>1, <1>3
<1>8. cfg["state_dir"] \in Seq(Word) /\ Absolute(cfg["state_dir"]) /\ cfg["state_dir"] = dir
  BY <1>2, <1>3
<1>9. cfg = [k \in Keys |-> cfg[k]]
  BY <1>3
<1> QED BY <1>4, <1>6, <1>7, <1>8, <1>9 DEF cfg

\* What a daemon that EnsureRunning spawns resolves is what its parent resolved
\* (Config.Env: "a child process that must resolve the identical configuration"),
\* but for a log level that is empty; and it is told an idle timeout that is
\* positive.
THEOREM ChildResolvesAlike ==
  ASSUME NEW src, IsSources(src), NEW idle \in Int, Load(src)["state_dir"] # <<>>
  PROVE  LET cfg == Load(src)
             own == ChildSources(cfg, src.env, idle)
         IN  /\ \A k \in Keys : ~(k = "log_level" /\ cfg[k] = <<>>) => Load(own)[k] = cfg[k]
             /\ idle > 0 => IdleTimeout(own) = idle
<1> DEFINE cfg == Load(src)
           own == ChildSources(cfg, src.env, idle)
<1>1. /\ cfg = [k \in Keys |-> cfg[k]]
      /\ cfg["state_dir"] \in Seq(Word) /\ cfg["state_dir"] # <<>> /\ Absolute(cfg["state_dir"])
      /\ cfg["log_level"] \in Seq(Word)
      /\ cfg["idle"] \in Int /\ cfg["hops"] \in Int
      /\ cfg["socket"] \in Seq(Word) /\ cfg["socket"] # <<>>
      /\ Derive(cfg["socket"], cfg["state_dir"], "sonata.sock") = cfg["socket"]
      /\ cfg["database"] \in Seq(Word) /\ cfg["database"] # <<>>
      /\ Derive(cfg["database"], cfg["state_dir"], "sonata.db") = cfg["database"]
  BY LoadType
<1> HIDE DEF cfg
<1>2. \A k \in Words : own.flags[k] = NotSet
  BY DEF ChildSources, NoSettings, Words, Keys
<1>3. /\ \A k \in Keys \ {"idle"} : Env(cfg)[k] = cfg[k]
      /\ Env(cfg)["idle"] = DurationString(cfg["idle"])
  BY <1>1 DEF Env, Keys
<1>4. /\ cfg["state_dir"] # NotSet /\ cfg["socket"] # NotSet /\ cfg["database"] # NotSet
      /\ cfg["log_level"] # NotSet /\ cfg["hops"] # NotSet
      /\ DurationString(cfg["idle"]) # NotSet
  <2>1. NotSet \notin Seq(Word) /\ NotSet \notin Int /\ NotSet \notin Int \X {"", "ns", "s"}
    <3>1. /\ Texts("socket") = Seq(Word) /\ Texts("hops") = Int
          /\ Texts("idle") = Int \X {"", "ns", "s"}
          /\ {"socket", "hops", "idle"} \subseteq Keys
      BY DEF Texts, Words, Keys
    <3> QED BY <3>1, ConfigAssumption
  <2>2. DurationString(cfg["idle"]) \in Int \X {"", "ns", "s"}
    BY <1>1, DurationStringType
  <2> QED BY <1>1, <2>1, <2>2
<1>5. /\ \A k \in {"state_dir", "socket", "database", "log_level", "hops"} : own.env[k] = cfg[k]
      /\ own.env["idle"] = DurationString(cfg["idle"])
  BY <1>3, <1>4 DEF ChildSources, Keys, Words
<1>6. /\ \A k \in {"state_dir", "socket", "database", "hops"} : Get(k, own) = cfg[k]
      /\ cfg["log_level"] # <<>> => Get("log_level", own) = cfg["log_level"]
      /\ Get("idle", own) = DurationString(cfg["idle"])
  <2> HIDE DEF own
  <2> QED BY <1>1, <1>2, <1>4, <1>5 DEF Get, Flagged, InEnv, Words
<1>7. /\ Load(own)["state_dir"] = Expand(Get("state_dir", own))
      /\ Load(own)["socket"] = Derive(Get("socket", own), Expand(Get("state_dir", own)), "sonata.sock")
      /\ Load(own)["database"] = Derive(Get("database", own), Expand(Get("state_dir", own)), "sonata.db")
      /\ Load(own)["log_level"] = Get("log_level", own)
      /\ Load(own)["idle"] = ParseDuration(Get("idle", own))
      /\ Load(own)["hops"] = Get("hops", own)
  BY DEF Load, Keys, Words
<1>8. Expand(cfg["state_dir"]) = cfg["state_dir"]
  BY <1>1, Expanded
<1>9. \A k \in Keys : ~(k = "log_level" /\ cfg[k] = <<>>) => Load(own)[k] = cfg[k]
  <2> HIDE DEF own
  <2>1. /\ \A k \in {"state_dir", "socket", "database", "idle", "hops"} : Load(own)[k] = cfg[k]
        /\ cfg["log_level"] # <<>> => Load(own)["log_level"] = cfg["log_level"]
    BY <1>1, <1>6, <1>7, <1>8, DurationReadsBack
  <2> QED BY <2>1 DEF Keys, Words
<1>10. ASSUME idle > 0 PROVE IdleTimeout(own) = idle
  <2>1. own.flags["idle"] = DurationString(idle)
    BY <1>10 DEF ChildSources, NoSettings, Keys
  <2>2. DurationString(idle) \in Int \X {"", "ns", "s"}
    BY DurationStringType
  <2>3. NotSet \notin Int \X {"", "ns", "s"}
    BY ConfigAssumption DEF Texts, Words, Keys
  <2> QED BY <2>1, <2>2, <2>3, DurationReadsBack DEF IdleTimeout
<1> QED BY <1>9, <1>10 DEF cfg

-----------------------------------------------------------------------------
(* The specification.  Each part of the invariant is about one command and  *)
(* the daemon it spawned: what it was asked was accepted before it looked   *)
(* for a daemon or sent anything, and it spawned with a state directory.    *)

Asking == {"request", "await"}

Spawned(c) ==
  daemon[c] # NoDaemon /\ inv[c].op # "daemon" =>
    /\ \A k \in Keys : ~(k = "log_level" /\ Cfg(c)[k] = <<>>) => daemon[c].cfg[k] = Cfg(c)[k]
    /\ LET asked == IF inv[c].op = "up" THEN IdleTimeout(inv[c].src) ELSE Cfg(c)["idle"]
       IN  asked > 0 => daemon[c].idle = asked

Begun(c) ==
  /\ inv[c] \in Invocations
  /\ pc[c] \in {"lock"} \cup Ensuring => inv[c].op # "daemon"
  /\ pc[c] \in Ensuring => Cfg(c)["state_dir"] # <<>>
  /\ pc[c] = "ready" => daemon[c] # NoDaemon
  /\ pc[c] \in {"lock"} \cup Ensuring \cup Asking => Refusal(inv[c]) = None
  /\ pc[c] \in Asking => inv[c].op \notin {"up", "daemon"}
  /\ req[c] # "none" => Refusal(inv[c]) = None /\ inv[c].op \notin {"up", "daemon"}

CommandInv(c) ==
  /\ daemon[c] = [state |-> daemon[c].state, cfg |-> daemon[c].cfg, idle |-> daemon[c].idle]
  /\ pc[c] = "new" => daemon[c] = NoDaemon /\ req[c] = "none"
  /\ pc[c] # "new" => Begun(c)
  /\ Spawned(c)
  /\ answer[c].status = "invalid" => pc[c] # "new" /\ inv[c].op # "apply"

Functions ==
  /\ pc = [c \in Commands |-> pc[c]]
  /\ inv = [c \in Commands |-> inv[c]]
  /\ daemon = [c \in Commands |-> daemon[c]]
  /\ req = [c \in Commands |-> req[c]]
  /\ answer = [c \in Commands |-> answer[c]]

IInv == Functions /\ \A c \in Commands : CommandInv(c)

\* What a step of another command may do to a command.
Frame(c) ==
  /\ pc'[c] = pc[c] /\ inv'[c] = inv[c] /\ daemon'[c] = daemon[c] /\ answer'[c] = answer[c]
  /\ req'[c] = req[c] \/ (req[c] = "queued" /\ req'[c] = "dropped")

\* The invariant of a command outlasts the steps of others.
LEMMA Framed ==
  ASSUME NEW c \in Commands, CommandInv(c), Frame(c)
  PROVE  CommandInv(c)'
BY DEF CommandInv, Frame, Begun, Spawned, Cfg

\* The invariant holds at the start.
LEMMA InitIInv == Init => IInv
BY DEF Init, InitProcesses, IInv, Functions, CommandInv, Begun, Spawned, NoDaemon, NoAnswer

\* An idle timeout is a number.
LEMMA IdleTimeoutType ==
  ASSUME NEW src, IsSources(src)
  PROVE  IdleTimeout(src) \in Int
<1>1. Load(src)["idle"] \in Int
  BY LoadType
<1>2. CASE src.flags["idle"] = NotSet
  BY <1>1, <1>2 DEF IdleTimeout
<1>3. CASE src.flags["idle"] # NotSet
  <2> DEFINE text == src.flags["idle"]
  <2>1. "idle" \in Keys /\ Texts("idle") = Int \X {"", "ns", "s"}
    BY DEF Keys, Words, Texts
  <2>2. text \in Int \X {"", "ns", "s"}
    BY <1>3, <2>1 DEF IsSources, IsSettings
  <2>3. text[1] \in Int /\ Second \in Int
    <3>1. text[1] \in Int
      BY <2>2
    <3>2. Second \in Int
      BY ConfigAssumption
    <3> QED BY <3>1, <3>2
  <2> HIDE DEF text
  <2>4. text[1] * Second \in Int
    BY <2>3
  <2> QED BY <1>3, <2>3, <2>4 DEF IdleTimeout, ParseDuration, text
<1> QED BY <1>2, <1>3

\* No exit code is None.
LEMMA CodesAreSome ==
  /\ ExitOK # None /\ ExitNotRunning # None /\ ExitUsage # None /\ ExitOperational # None
<1>1. None \notin Invocations \cup Commands \cup Document \cup 0..3
  BY CommandAssumption, Zenon
<1> QED BY <1>1 DEF ExitOK, ExitNotRunning, ExitUsage, ExitOperational

\* What was not refused and is applied was accepted by the command line.
LEMMA AppliedWasAccepted ==
  ASSUME NEW i \in Invocations, Refusal(i) = None, i.op = "apply", i.fault = "none"
  PROVE  i.doc \in Document /\ Accepted(i.doc, i.form)
<1>1. i.doc \in Document
  BY CommandAssumption
<1>2. PreRun(i) = None
  BY DEF PreRun
<1>3. Refusal(i) = CheckApply(i)
  BY <1>2 DEF Refusal
<1>4. ASSUME ~Accepted(i.doc, i.form) PROVE FALSE
  <2>1. CheckApply(i) = ExitUsage
    BY <1>4 DEF CheckApply
  <2>2. ExitUsage # None
    BY CodesAreSome
  <2> QED BY <1>3, <2>1, <2>2
<1> QED BY <1>1, <1>4

\* No other fault passes.
LEMMA AppliedIsSound ==
  ASSUME NEW i \in Invocations, Refusal(i) = None, i.op = "apply"
  PROVE  i.fault = "none"
<1>1. i.fault \in {"none", "flag", "output", "config", "args", "read", "input"}
  BY CommandAssumption
<1>2. ExitUsage # None /\ ExitOperational # None
  BY CodesAreSome
<1>3. CASE i.fault \in {"flag", "output", "config", "args"}
  <2>1. PreRun(i) # None
    BY <1>2, <1>3 DEF PreRun
  <2> QED BY <2>1 DEF Refusal
<1>4. CASE i.fault \in {"read", "input"}
  <2>1. PreRun(i) = None
    BY <1>4 DEF PreRun
  <2>2. CheckApply(i) # None
    BY <1>2, <1>4 DEF CheckApply
  <2> QED BY <2>1, <2>2 DEF Refusal
<1> QED BY <1>1, <1>3, <1>4

\* No handler calls invalid the definition that a command has accepted.
LEMMA HandledIsValid ==
  ASSUME NEW c \in Commands, NEW D, CommandInv(c), req[c] # "none", inv[c].op = "apply"
  PROVE  Handled(c, D)[2].status = "ok"
<1> DEFINE i   == inv[c]
           doc == Canonical(i.doc)
<1>1. i \in Invocations /\ Refusal(i) = None
  BY DEF CommandInv, Begun
<1>2. Accepted(doc, "json")
  BY <1>1, AppliedIsSound, AppliedWasAccepted, CanonicalAccepted
<1>3. Handled(c, D) = actionApply(D, doc)
  BY DEF Handled
<1> HIDE DEF doc
<1>4. actionApply(D, doc)[2].status = "ok"
  BY <1>2 DEF actionApply, Reply
<1> QED BY <1>3, <1>4

-----------------------------------------------------------------------------
(* Each action, for the command that takes it.                             *)

\* A command that exits keeps what it was asked, its daemon and its request.
LEMMA ExitStep ==
  ASSUME NEW c \in Commands, IInv, NEW code, Exit(c, code), pc[c] # "new",
         inv' = inv, daemon'[c] = daemon[c], answer' = answer,
         req'[c] = req[c] \/ (req[c] = "queued" /\ req'[c] = "dropped")
  PROVE  CommandInv(c)'
<1>1. CommandInv(c) /\ pc'[c] = "exited"
  BY DEF IInv, Functions, Exit
<1> QED BY <1>1 DEF CommandInv, Begun, Spawned, Cfg, Ensuring, Asking

\* A command line that was refused leaves nothing; one that was not was accepted.
LEMMA BeginStep ==
  ASSUME NEW c \in Commands, IInv, NEW i \in Invocations, Begin(c, i)
  PROVE  CommandInv(c)'
<1>1. /\ CommandInv(c) /\ pc[c] = "new" /\ inv'[c] = i /\ req' = req /\ answer' = answer
      /\ daemon[c] = NoDaemon /\ req[c] = "none" /\ answer[c].status # "invalid"
  BY DEF IInv, Functions, Begin, CommandInv, reqVars
<1>2. CASE Refusal(i) # None
  <2>1. pc'[c] = "exited" /\ daemon'[c] = NoDaemon
    BY <1>1, <1>2 DEF Begin, Exit, IInv, Functions
  <2> QED BY <1>1, <2>1 DEF CommandInv, Begun, Spawned, NoDaemon, Ensuring, Asking
<1>3. CASE Refusal(i) = None
  <2>1. pc'[c] = FirstStep(i.op)
    BY <1>1, <1>3 DEF Begin, IInv, Functions
  <2>2. /\ FirstStep(i.op) \in {"request", "daemon", "lock"}
        /\ FirstStep(i.op) = "lock" => i.op # "daemon"
        /\ FirstStep(i.op) = "request" => i.op \notin {"up", "daemon"}
    BY DEF FirstStep
  <2>3. CASE i.op = "daemon"
    <3>1. daemon'[c] = [state |-> "starting", cfg |-> Load(i.src), idle |-> IdleTimeout(i.src)]
      BY <1>1, <1>3, <2>3 DEF Begin, IInv, Functions
    <3> QED BY <1>1, <1>3, <2>1, <2>2, <2>3, <3>1
            DEF CommandInv, Begun, Spawned, Ensuring, Asking
  <2>4. CASE i.op # "daemon"
    <3>1. daemon'[c] = NoDaemon
      BY <1>1, <1>3, <2>4 DEF Begin, IInv, Functions
    <3> QED BY <1>1, <1>3, <2>1, <2>2, <2>4, <3>1
            DEF CommandInv, Begun, Spawned, NoDaemon, Ensuring, Asking
  <2> QED BY <2>3, <2>4
<1> QED BY <1>2, <1>3

\* A step that moves a command and touches neither its daemon nor its request.
LEMMA MoveStep ==
  ASSUME NEW c \in Commands, IInv, NEW p \in {"probe", "spawn", "request", "await"},
         pc[c] \in {"lock", "probe", "spawn", "ready", "request"},
         pc' = [pc EXCEPT ![c] = p],
         p \in Ensuring => pc[c] \in {"lock"} \cup Ensuring /\ Cfg(c)["state_dir"] # <<>>,
         p \in Asking => inv[c].op \notin {"up", "daemon"},
         inv' = inv, daemon' = daemon, answer' = answer,
         req'[c] = req[c] \/ (req'[c] = "queued" /\ p = "await")
  PROVE  CommandInv(c)'
<1>1. CommandInv(c) /\ pc'[c] = p /\ Begun(c)
  BY DEF IInv, Functions, CommandInv
<1>2. Refusal(inv[c]) = None
  BY <1>1 DEF Begun, Ensuring, Asking
<1> QED BY <1>1, <1>2 DEF CommandInv, Begun, Spawned, Cfg, Ensuring, Asking

\* The child has the configuration of its parent.
LEMMA SpawnStep ==
  ASSUME NEW c \in Commands, IInv, Spawn(c)
  PROVE  CommandInv(c)'
<1> DEFINE i    == inv[c]
           idle == IF i.op = "up" THEN IdleTimeout(i.src) ELSE Cfg(c)["idle"]
           own  == ChildSources(Cfg(c), i.src.env, idle)
           d    == [state |-> "starting", cfg |-> Load(own), idle |-> IdleTimeout(own)]
<1>1. /\ CommandInv(c) /\ pc[c] = "spawn" /\ pc'[c] = "ready" /\ inv' = inv /\ daemon'[c] = d
      /\ req' = req /\ answer' = answer
  BY DEF IInv, Functions, Spawn, reqVars
<1>2. i \in Invocations /\ Cfg(c)["state_dir"] # <<>> /\ i.op # "daemon" /\ Refusal(i) = None
  BY <1>1 DEF CommandInv, Begun, Ensuring
<1>3. IsSources(i.src)
  BY <1>2, CommandAssumption
<1>4. idle \in Int
  BY <1>3, LoadType, IdleTimeoutType DEF Cfg
<1>5. /\ \A k \in Keys : ~(k = "log_level" /\ Cfg(c)[k] = <<>>) => Load(own)[k] = Cfg(c)[k]
      /\ idle > 0 => IdleTimeout(own) = idle
  BY <1>2, <1>3, <1>4, ChildResolvesAlike DEF Cfg
<1>6. d # NoDaemon
  <2>1. d.state # NoDaemon.state
    BY DEF NoDaemon
  <2> QED BY <2>1
<1>7. d = [state |-> d.state, cfg |-> d.cfg, idle |-> d.idle] /\ d.cfg = Load(own)
      /\ d.idle = IdleTimeout(own)
  OBVIOUS
<1> HIDE DEF own, d
<1>8. Spawned(c)'
  BY <1>1, <1>5, <1>7 DEF Spawned, Cfg
<1>9. Begun(c)'
  BY <1>1, <1>2, <1>6 DEF CommandInv, Begun, Cfg, Ensuring, Asking
<1> QED BY <1>1, <1>7, <1>8, <1>9 DEF CommandInv

\* The end of a daemon leaves what it resolved.
LEMMA GoneStep ==
  ASSUME NEW c \in Commands, IInv, Gone(c), daemon[c] # NoDaemon, pc[c] # "new",
         inv' = inv, pc'[c] \in {pc[c], "exited"}
  PROVE  CommandInv(c)'
<1>1. /\ CommandInv(c) /\ daemon' = [daemon EXCEPT ![c].state = "gone"] /\ answer' = answer
      /\ daemon = [e \in Commands |-> daemon[e]]
      /\ req'[c] = req[c] \/ (req[c] = "queued" /\ req'[c] = "dropped")
  BY DEF IInv, Functions, Gone
<1> DEFINE d == daemon[c]
<1>2. d = [state |-> d.state, cfg |-> d.cfg, idle |-> d.idle]
  BY <1>1 DEF CommandInv
<1>3. daemon'[c] = [d EXCEPT !.state = "gone"]
  BY <1>1
<1>4. daemon'[c] = [state |-> "gone", cfg |-> d.cfg, idle |-> d.idle]
  BY <1>2, <1>3
<1>5. daemon'[c] # NoDaemon /\ daemon'[c].cfg = d.cfg /\ daemon'[c].idle = d.idle
      /\ daemon'[c] = [state |-> daemon'[c].state, cfg |-> daemon'[c].cfg,
                       idle |-> daemon'[c].idle]
  BY <1>4 DEF NoDaemon
<1>6. Spawned(c)'
  BY <1>1, <1>5 DEF CommandInv, Spawned, Cfg
<1>7. Begun(c)'
  BY <1>1, <1>5 DEF CommandInv, Begun, Cfg, Ensuring, Asking
<1> QED BY <1>1, <1>5, <1>6, <1>7 DEF CommandInv

\* Serving changes nothing that the daemon resolved.
LEMMA ServeStep ==
  ASSUME NEW c \in Commands, IInv, Serve(c)
  PROVE  CommandInv(c)'
<1>1. /\ CommandInv(c) /\ daemon' = [daemon EXCEPT ![c].state = "serving"] /\ answer' = answer
      /\ daemon = [e \in Commands |-> daemon[e]] /\ daemon[c].state = "starting"
      /\ req' = req /\ pc' = pc /\ inv' = inv
  BY DEF IInv, Functions, Serve, clientVars, reqVars
<1> DEFINE d == daemon[c]
<1>2. d = [state |-> d.state, cfg |-> d.cfg, idle |-> d.idle]
  BY <1>1 DEF CommandInv
<1>3. d # NoDaemon
  BY <1>1 DEF NoDaemon
<1>4. daemon'[c] = [state |-> "serving", cfg |-> d.cfg, idle |-> d.idle]
  <2>1. daemon'[c] = [d EXCEPT !.state = "serving"]
    BY <1>1
  <2> QED BY <1>2, <2>1
<1>5. daemon'[c] # NoDaemon /\ daemon'[c].cfg = d.cfg /\ daemon'[c].idle = d.idle
      /\ daemon'[c] = [state |-> daemon'[c].state, cfg |-> daemon'[c].cfg,
                       idle |-> daemon'[c].idle]
  BY <1>4 DEF NoDaemon
<1>6. pc[c] # "new"
  BY <1>1, <1>3 DEF CommandInv
<1>7. Spawned(c)'
  BY <1>1, <1>3, <1>5 DEF CommandInv, Spawned, Cfg
<1>8. Begun(c)'
  BY <1>1, <1>5, <1>6 DEF CommandInv, Begun, Cfg
<1> QED BY <1>1, <1>5, <1>6, <1>7, <1>8 DEF CommandInv

\* A handler's answer, and the end of a request.
LEMMA HandleStep ==
  ASSUME NEW c \in Commands, IInv, Handle(c) \/ HandlerFails(c) \/ Cancelled(c)
  PROVE  CommandInv(c)'
<1>1. /\ CommandInv(c) /\ req[c] = "queued" /\ pc' = pc /\ inv' = inv /\ daemon' = daemon
      /\ pc[c] # "new"
  BY DEF IInv, Functions, Handle, HandlerFails, Cancelled, clientVars, CommandInv
<1>2. answer'[c].status = "invalid" => inv[c].op # "apply"
  <2>1. CASE Cancelled(c)
    BY <1>1, <2>1 DEF Cancelled, CommandInv
  <2>2. CASE HandlerFails(c)
    <3>1. answer'[c] = Reply("internal", 0)
      BY <2>2 DEF HandlerFails, IInv, Functions
    <3> QED BY <3>1 DEF Reply
  <2>3. CASE Handle(c)
    <3> DEFINE h == Handled(c, db[daemon[at[c]].cfg["database"]])
    <3>1. PICK status \in {h[2].status} \cup (IF inv[c].op = "disable" THEN {"internal"} ELSE {}) :
            answer' = [answer EXCEPT ![c] = [h[2] EXCEPT !.status = status]]
      BY <2>3 DEF Handle
    <3>2. answer'[c] = [h[2] EXCEPT !.status = status]
      BY <3>1 DEF IInv, Functions
    <3>3. inv[c].op = "apply" => h[2].status = "ok"
      BY <1>1, HandledIsValid
    <3>4. answer'[c].status = "invalid" => status = "invalid"
      BY <3>2
    <3> QED BY <3>1, <3>3, <3>4
  <2> QED BY <2>1, <2>2, <2>3
<1>3. Begun(c)'
  BY <1>1 DEF CommandInv, Begun, Cfg
<1>4. Spawned(c)'
  BY <1>1 DEF CommandInv, Spawned, Cfg
<1> QED BY <1>1, <1>2, <1>3, <1>4 DEF CommandInv

\* No step takes a function from its variable.
LEMMA FunctionsStep ==
  ASSUME IInv, NEW c \in Commands,
         \/ \E i \in Invocations : Begin(c, i)
         \/ AcquireStartLock(c) \/ Probe(c) \/ Spawn(c) \/ WaitReady(c) \/ NotReady(c)
         \/ Serve(c) \/ Dies(c) \/ LoadActions(c)
         \/ \E n \in Names : CacheGet(c, n)
         \/ Request(c) \/ Handle(c) \/ HandlerFails(c) \/ Cancelled(c)
         \/ Answered(c) \/ Unanswered(c)
  PROVE  Functions' /\ \A e \in Commands \ {c} : Frame(e)
<1>1. Functions
  BY DEF IInv
<1>2. ASSUME NEW i \in Invocations, Begin(c, i) PROVE Functions' /\ \A e \in Commands \ {c} : Frame(e)
  BY <1>1, <1>2 DEF Begin, Exit, Functions, Frame, reqVars
<1>3. CASE AcquireStartLock(c)
  BY <1>1, <1>3 DEF AcquireStartLock, Exit, Functions, Frame, reqVars
<1>4. CASE Probe(c)
  BY <1>1, <1>4 DEF Probe, Ensured, Exit, Functions, Frame, reqVars
<1>5. CASE Spawn(c)
  BY <1>1, <1>5 DEF Spawn, Functions, Frame, reqVars
<1>6. CASE WaitReady(c)
  BY <1>1, <1>6 DEF WaitReady, Ensured, Exit, Functions, Frame, reqVars
<1>7. CASE NotReady(c)
  BY <1>1, <1>7 DEF NotReady, Gone, Exit, Functions, Frame
<1>8. CASE Serve(c)
  BY <1>1, <1>8 DEF Serve, Functions, Frame, reqVars, clientVars
<1>9. CASE Dies(c)
  BY <1>1, <1>9 DEF Dies, Gone, Exit, Functions, Frame
<1>10. CASE LoadActions(c) \/ \E n \in Names : CacheGet(c, n)
  <2>1. UNCHANGED <<pc, inv, daemon, req, answer>>
    BY <1>10 DEF LoadActions, CacheGet, clientVars, reqVars
  <2> QED BY <1>1, <2>1 DEF Functions, Frame
<1>11. CASE Request(c)
  BY <1>1, <1>11 DEF Request, Exit, Functions, Frame, reqVars
<1>12. CASE Handle(c)
  <2>1. PICK a : answer' = [answer EXCEPT ![c] = a]
    BY <1>12 DEF Handle
  <2> QED BY <1>1, <1>12, <2>1 DEF Handle, Functions, Frame, clientVars
<1>13. CASE HandlerFails(c) \/ Cancelled(c)
  BY <1>1, <1>13 DEF HandlerFails, Cancelled, Functions, Frame, clientVars
<1>14. CASE Answered(c) \/ Unanswered(c)
  BY <1>1, <1>14 DEF Answered, Unanswered, Exit, Functions, Frame, reqVars
<1> QED BY <1>2, <1>3, <1>4, <1>5, <1>6, <1>7, <1>8, <1>9, <1>10, <1>11, <1>12, <1>13, <1>14

\* EnsureRunning, the dial and the two ends of a request, for their command.
LEMMA ClientStep ==
  ASSUME IInv, NEW c \in Commands,
         \/ AcquireStartLock(c) \/ Probe(c) \/ WaitReady(c) \/ Request(c)
         \/ Answered(c) \/ Unanswered(c)
  PROVE  CommandInv(c)'
<1>1. /\ inv' = inv /\ daemon' = daemon /\ answer' = answer
      /\ pc[c] \in {"lock", "probe", "ready", "request", "await"}
  BY DEF AcquireStartLock, Probe, WaitReady, Request, Answered, Unanswered, reqVars
<1>2. CASE \E code : Exit(c, code) /\ req' = req
  BY <1>1, <1>2, ExitStep
<1>3. CommandInv(c) /\ Begun(c)
  BY <1>1 DEF IInv, CommandInv
<1>4. CASE Ensured(c) /\ pc[c] \in {"probe", "ready"} /\ req' = req
  <2>1. CASE inv[c].op = "up"
    BY <1>2, <1>4, <2>1 DEF Ensured
  <2>2. CASE inv[c].op # "up"
    <3>1. pc' = [pc EXCEPT ![c] = "request"] /\ inv[c].op # "daemon"
      BY <1>3, <1>4, <2>2 DEF Ensured, Begun, Ensuring
    <3> QED BY <1>1, <1>4, <2>2, <3>1, MoveStep DEF Ensuring
  <2> QED BY <2>1, <2>2
<1>5. CASE AcquireStartLock(c)
  <2>1. CASE Exit(c, ExitOperational)
    BY <1>2, <1>5, <2>1 DEF AcquireStartLock, reqVars
  <2>2. CASE pc' = [pc EXCEPT ![c] = "probe"] /\ Cfg(c)["state_dir"] # <<>>
    BY <1>1, <1>5, <2>2, MoveStep DEF AcquireStartLock, reqVars, Asking
  <2> QED BY <1>5, <2>1, <2>2 DEF AcquireStartLock
<1>6. CASE Probe(c)
  <2>1. CASE pc' = [pc EXCEPT ![c] = "spawn"]
    <3>1. Cfg(c)["state_dir"] # <<>> /\ pc[c] = "probe" /\ req' = req
      BY <1>3, <1>6 DEF Probe, Begun, Ensuring, reqVars
    <3> QED BY <1>1, <2>1, <3>1, MoveStep DEF Ensuring, Asking
  <2>2. CASE Ensured(c) \/ Exit(c, ExitOperational)
    BY <1>2, <1>4, <1>6, <2>2 DEF Probe, reqVars
  <2> QED BY <1>6, <2>1, <2>2 DEF Probe
<1>7. CASE WaitReady(c)
  BY <1>2, <1>4, <1>7 DEF WaitReady, reqVars
<1>8. CASE Request(c)
  <2>1. CASE Listeners(Cfg(c)["socket"]) = {}
    BY <1>2, <1>8, <2>1 DEF Request, reqVars
  <2>2. CASE Listeners(Cfg(c)["socket"]) # {}
    <3>1. /\ pc[c] = "request" /\ pc' = [pc EXCEPT ![c] = "await"]
          /\ req' = [req EXCEPT ![c] = "queued"] /\ req = [e \in Commands |-> req[e]]
      BY <1>8, <2>2 DEF Request, IInv, Functions
    <3>2. req'[c] = "queued" /\ inv[c].op \notin {"up", "daemon"}
      BY <1>3, <3>1 DEF Begun, Asking
    <3> QED BY <1>1, <3>1, <3>2, MoveStep DEF Ensuring
  <2> QED BY <2>1, <2>2
<1>9. CASE Answered(c) \/ Unanswered(c)
  BY <1>2, <1>9 DEF Answered, Unanswered, reqVars
<1> QED BY <1>5, <1>6, <1>7, <1>8, <1>9

\* Every step keeps the invariant.
LEMMA NextIInv == IInv /\ [Next]_vars => IInv'
<1> SUFFICES ASSUME IInv, [Next]_vars PROVE IInv'
  OBVIOUS
<1>1. CASE UNCHANGED vars
  <2>1. /\ UNCHANGED <<pc, inv, daemon, req, answer>>
    BY <1>1 DEF vars, clientVars, reqVars
  <2>2. \A c \in Commands : Frame(c) /\ CommandInv(c)
    BY <2>1 DEF Frame, IInv
  <2>3. \A c \in Commands : CommandInv(c)'
    BY <2>2, Framed
  <2> QED BY <2>1, <2>3 DEF IInv, Functions
<1>2. CASE Next
  <2>1. PICK c \in Commands :
          \/ \E i \in Invocations : Begin(c, i)
          \/ AcquireStartLock(c) \/ Probe(c) \/ Spawn(c) \/ WaitReady(c) \/ NotReady(c)
          \/ Serve(c) \/ Dies(c) \/ LoadActions(c)
          \/ \E n \in Names : CacheGet(c, n)
          \/ Request(c) \/ Handle(c) \/ HandlerFails(c) \/ Cancelled(c)
          \/ Answered(c) \/ Unanswered(c)
    BY <1>2 DEF Next
  <2>2. Functions' /\ \A e \in Commands \ {c} : Frame(e)
    BY <2>1, FunctionsStep
  <2>3. \A e \in Commands \ {c} : CommandInv(e)'
    BY <2>2, Framed DEF IInv
  <2>4. CommandInv(c)'
    <3>1. ASSUME NEW i \in Invocations, Begin(c, i) PROVE CommandInv(c)'
      BY <3>1, BeginStep
    <3>2. CASE \/ AcquireStartLock(c) \/ Probe(c) \/ WaitReady(c) \/ Request(c)
               \/ Answered(c) \/ Unanswered(c)
      BY <3>2, ClientStep
    <3>3. CASE Spawn(c)
      BY <3>3, SpawnStep
    <3>4. CASE NotReady(c)
      <4>1. daemon[c] # NoDaemon /\ pc[c] # "new"
        BY <3>4 DEF NotReady, IInv, CommandInv, Begun
      <4>2. Gone(c) /\ inv' = inv /\ pc'[c] = "exited"
        BY <3>4 DEF NotReady, Exit, IInv, Functions
      <4> QED BY <4>1, <4>2, GoneStep
    <3>5. CASE Dies(c)
      <4>1. daemon[c] # NoDaemon /\ pc[c] # "new"
        <5>1. daemon[c].state # "none" /\ CommandInv(c)
          BY <3>5 DEF Dies, Alive, IInv
        <5>2. daemon[c] # NoDaemon
          BY <5>1 DEF NoDaemon
        <5> QED BY <5>1, <5>2 DEF CommandInv
      <4>2. Gone(c) /\ inv' = inv
        BY <3>5 DEF Dies
      <4>3. pc'[c] \in {pc[c], "exited"}
        <5>1. CASE pc[c] = "daemon"
          <6>1. PICK code : Exit(c, code)
            BY <3>5, <5>1 DEF Dies
          <6> QED BY <6>1 DEF Exit, IInv, Functions
        <5>2. CASE pc[c] # "daemon"
          BY <3>5, <5>2 DEF Dies
        <5> QED BY <5>1, <5>2
      <4> QED BY <4>1, <4>2, <4>3, GoneStep
    <3>6. CASE Serve(c)
      BY <3>6, ServeStep
    <3>7. CASE LoadActions(c) \/ \E n \in Names : CacheGet(c, n)
      <4>1. Frame(c)
        BY <3>7 DEF LoadActions, CacheGet, Frame, clientVars, reqVars
      <4> QED BY <4>1, Framed DEF IInv
    <3>8. CASE Handle(c) \/ HandlerFails(c) \/ Cancelled(c)
      BY <3>8, HandleStep
    <3> QED BY <2>1, <3>1, <3>2, <3>3, <3>4, <3>5, <3>6, <3>7, <3>8
  <2> QED BY <2>2, <2>3, <2>4 DEF IInv
<1> QED BY <1>1, <1>2

\* In every behaviour, the daemon that a command spawned has the configuration of
\* the command that spawned it, so it listens where that command looks for it and
\* opens the database that it meant (EnsureRunning, Spawn, Config.Env, Load).
THEOREM SpawnedAlikeAlways == Spec => []SpawnedAlike
<1>1. IInv => SpawnedAlike
  BY DEF IInv, CommandInv, Spawned, SpawnedAlike
<1> QED BY <1>1, InitIInv, NextIInv, PTL DEF Spec

\* In every behaviour, whatever the daemon has become by the time it is asked,
\* an apply that the command line let through is not refused as invalid.
THEOREM ClientChecksSufficeAlways == Spec => []ClientChecksSuffice
<1>1. IInv => ClientChecksSuffice
  BY DEF IInv, CommandInv, ClientChecksSuffice
<1> QED BY <1>1, InitIInv, NextIInv, PTL DEF Spec

-----------------------------------------------------------------------------
(* The registry, the message log and what an exit code says of them.       *)

\* What ApplyAction is given: a definition in its canonical form.
StoredDef ==
  {d \in Document :
     /\ d.actor = "subprocess" /\ d.instr \in Instructions
     /\ d.instr.unknownField = FALSE /\ d.instr.layout = "plain"
     /\ d.layout = "plain" /\ d.form = "json" /\ d.fault = "none"
     /\ d.joinTimeout # Unset => d.joinTimeout.spelling = "standard"}

Row == [def : StoredDef, enabled : BOOLEAN]

\* The versions of an action, no two neighbours alike.
Registry == {V \in Seq(Row) : \A k \in 2..Len(V) : V[k].def # V[k - 1].def}

Database == [versions : [Names -> Registry], messages : SUBSET Commands]

\* A later state of an action: no version is lost or redefined.
Extends(V, W) == \A k \in DOMAIN V : k \in DOMAIN W /\ W[k].def = V[k].def

Grown(D, E) ==
  D.messages \subseteq E.messages /\ \A n \in Names : Extends(D.versions[n], E.versions[n])

\* What the daemon accepts as JSON is stored in its canonical form, under a name
\* that an action may have.
LEMMA AcceptedIsStored ==
  ASSUME NEW d \in Document, Accepted(d, "json")
  PROVE  Canonical(d) \in StoredDef /\ d.name \in Names
<1> DEFINE n == Normalize(d)
<1>1. d.fault = "none" /\ Validate(n)
  BY DEF Accepted, Decodes
<1>2. n.name = d.name /\ n.actor = d.actor /\ n \in Document
  BY NormalizeType DEF Normalize, Document
<1>3. n.name \in Names /\ n.actor = "subprocess" /\ n.instr # Unset /\ ~n.instr.unknownField
  BY <1>1 DEF Validate, validateInstructions
<1>4. n.instr \in Instructions /\ n.instr.layout = "plain"
  <2>1. d.instr # Unset
    BY <1>3 DEF Normalize
  <2>2. d.instr \in Instructions /\ n.instr = [d.instr EXCEPT !.layout = "plain"]
    BY <2>1 DEF Normalize, Document
  <2> QED BY <2>2 DEF Instructions
<1>5. n.instr.unknownField = FALSE
  BY <1>3, <1>4 DEF Instructions
<1> HIDE DEF n
<1>6. /\ Canonical(d) \in Document /\ Canonical(d).actor = d.actor
      /\ Canonical(d).fault = d.fault /\ Canonical(d).form = "json"
      /\ Canonical(d).layout = "plain" /\ Canonical(d).instr = n.instr
      /\ Canonical(d).joinTimeout = IF d.joinTimeout = Unset THEN Unset
                                    ELSE [d.joinTimeout EXCEPT !.spelling = "standard"]
  BY CanonicalType DEF n
<1>7. Canonical(d).joinTimeout # Unset => Canonical(d).joinTimeout.spelling = "standard"
  BY <1>6 DEF Document, Duration
<1> QED BY <1>1, <1>2, <1>3, <1>4, <1>5, <1>6, <1>7 DEF StoredDef

\* Two stored definitions that differ only in what formatting leaves open are one.
LEMMA StoredIsBare ==
  ASSUME NEW d \in StoredDef, NEW e \in StoredDef, Bare(d) = Bare(e)
  PROVE  d = e
<1>1. /\ d \in Document /\ d.instr \in Instructions /\ d.instr.layout = "plain"
      /\ e \in Document /\ e.instr \in Instructions /\ e.instr.layout = "plain"
      /\ d.actor = e.actor /\ d.layout = e.layout /\ d.form = e.form /\ d.fault = e.fault
      /\ d.instr.unknownField = FALSE /\ e.instr.unknownField = FALSE
      /\ d.joinTimeout # Unset => d.joinTimeout.spelling = "standard"
      /\ e.joinTimeout # Unset => e.joinTimeout.spelling = "standard"
  BY DEF StoredDef
<1>2. /\ d.name = e.name /\ d.inputs = e.inputs /\ d.output = e.output
      /\ d.concurrency = e.concurrency /\ d.maxAttempts = e.maxAttempts
      /\ d.instr.command = e.instr.command /\ d.instr.timeout = e.instr.timeout
      /\ (IF d.joinTimeout = Unset THEN Unset ELSE d.joinTimeout.value)
           = (IF e.joinTimeout = Unset THEN Unset ELSE e.joinTimeout.value)
  BY DEF Bare
<1>3. d.instr = e.instr
  <2>1. /\ d.instr = [command |-> d.instr.command, timeout |-> d.instr.timeout,
                      unknownField |-> FALSE, layout |-> "plain"]
        /\ e.instr = [command |-> e.instr.command, timeout |-> e.instr.timeout,
                      unknownField |-> FALSE, layout |-> "plain"]
    BY <1>1 DEF Instructions
  <2> QED BY <1>2, <2>1, Zenon
<1>4. d.joinTimeout = e.joinTimeout
  <2>1. /\ d.joinTimeout # Unset =>
             /\ d.joinTimeout = [value |-> d.joinTimeout.value, spelling |-> "standard"]
             /\ d.joinTimeout.value # Unset
        /\ e.joinTimeout # Unset =>
             /\ e.joinTimeout = [value |-> e.joinTimeout.value, spelling |-> "standard"]
             /\ e.joinTimeout.value # Unset
    BY <1>1, WorkflowAssumption DEF Document, Duration
  <2>2. CASE d.joinTimeout = Unset
    BY <1>2, <2>1, <2>2, Zenon
  <2>3. CASE d.joinTimeout # Unset
    <3>1. e.joinTimeout # Unset
      BY <1>2, <2>1, <2>3, Zenon
    <3>2. d.joinTimeout.value = e.joinTimeout.value
      BY <1>2, <2>3, <3>1, Zenon
    <3> QED BY <2>1, <2>3, <3>1, <3>2, Zenon
  <2> QED BY <2>2, <2>3
<1> QED BY <1>1, <1>2, <1>3, <1>4, SameDocument

\* ApplyAction only adds, and adds only what differs; it leaves the flag alone.
LEMMA ApplyExtends ==
  ASSUME NEW V \in Registry, NEW def \in StoredDef
  PROVE  LET W == ApplyAction(V, def)
         IN  /\ W \in Registry /\ Extends(V, W)
             /\ Len(W) \in DOMAIN W /\ W[Len(W)].def = def
             /\ V # <<>> => Current(W).enabled = Current(V).enabled
<1> DEFINE W   == ApplyAction(V, def)
           row == [def |-> def, enabled |-> Current(V).enabled]
<1>1. /\ V \in Seq(Row) /\ Len(V) \in Nat /\ DOMAIN V = 1..Len(V)
      /\ \A k \in 1..Len(V) : V[k] \in Row
      /\ \A k \in 2..Len(V) : V[k].def # V[k - 1].def
  BY DEF Registry
<1>2. CASE V # <<>> /\ Current(V).def = def
  <2>1. W = V /\ Len(V) \in 1..Len(V)
    BY <1>1, <1>2, EmptySeq DEF ApplyAction
  <2> QED BY <1>1, <1>2, <2>1 DEF Extends, Current
<1>3. CASE ~(V # <<>> /\ Current(V).def = def)
  <2>1. Current(V).enabled \in BOOLEAN
    <3>1. CASE V = <<>>
      BY <3>1 DEF Current
    <3>2. CASE V # <<>>
      <4>1. Len(V) \in 1..Len(V)
        BY <1>1, <3>2, EmptySeq
      <4> QED BY <1>1, <3>2, <4>1 DEF Current, Row
    <3> QED BY <3>1, <3>2
  <2>2. row \in Row /\ row.def = def /\ row.enabled = Current(V).enabled
    BY <2>1 DEF Row
  <2>3. W = Append(V, row)
    BY <1>3 DEF ApplyAction
  <2> HIDE DEF row
  <2>4. /\ W \in Seq(Row) /\ Len(W) = Len(V) + 1 /\ W # <<>>
        /\ \A k \in 1..Len(V) : W[k] = V[k]
        /\ W[Len(V) + 1] = row
    BY <1>1, <2>2, <2>3, AppendProperties
  <2> HIDE DEF W
  <2>5. DOMAIN W = 1..(Len(V) + 1)
    BY <2>4
  <2>6. \A k \in 2..Len(W) : W[k].def # W[k - 1].def
    <3> SUFFICES ASSUME NEW k \in 2..Len(W) PROVE W[k].def # W[k - 1].def
      OBVIOUS
    <3>1. CASE k <= Len(V)
      <4>1. k \in 2..Len(V) /\ k \in 1..Len(V) /\ k - 1 \in 1..Len(V)
        BY <1>1, <3>1
      <4> QED BY <1>1, <2>4, <4>1
    <3>2. CASE k > Len(V)
      <4>1. k = Len(V) + 1 /\ k - 1 = Len(V) /\ Len(V) \in 1..Len(V)
        BY <1>1, <2>4, <3>2
      <4>2. V # <<>> /\ V[Len(V)].def # def
        BY <1>1, <1>3, <4>1, EmptySeq DEF Current
      <4> QED BY <2>2, <2>4, <4>1, <4>2
    <3> QED BY <1>1, <3>1, <3>2
  <2>7. W \in Registry
    BY <2>4, <2>6 DEF Registry
  <2>8. Extends(V, W)
    BY <1>1, <2>4, <2>5 DEF Extends
  <2>9. Len(W) \in DOMAIN W /\ W[Len(W)] = row
    BY <1>1, <2>4, <2>5
  <2>10. Current(W) = row
    BY <2>4, <2>9 DEF Current
  <2> QED BY <2>2, <2>7, <2>8, <2>9, <2>10 DEF W
<1> QED BY <1>2, <1>3

\* SetActionEnabled changes the flag of the current version and no definition.
LEMMA SetExtends ==
  ASSUME NEW V \in Registry, NEW b \in BOOLEAN, V # <<>>
  PROVE  LET W == SetActionEnabled(V, b)
         IN  /\ W \in Registry /\ Extends(V, W) /\ Len(W) = Len(V) /\ Len(V) \in DOMAIN W
             /\ W # <<>> /\ Current(W).enabled = b
<1> DEFINE W == SetActionEnabled(V, b)
<1>1. /\ V \in Seq(Row) /\ Len(V) \in Nat /\ DOMAIN V = 1..Len(V) /\ Len(V) \in 1..Len(V)
      /\ \A k \in 1..Len(V) : V[k] \in Row
      /\ \A k \in 2..Len(V) : V[k].def # V[k - 1].def
  BY EmptySeq DEF Registry
<1>2. W = [V EXCEPT ![Len(V)] = [V[Len(V)] EXCEPT !.enabled = b]]
  BY DEF SetActionEnabled
<1>3. [V[Len(V)] EXCEPT !.enabled = b] = [def |-> V[Len(V)].def, enabled |-> b]
  BY <1>1 DEF Row
<1> DEFINE row == [def |-> V[Len(V)].def, enabled |-> b]
<1>4. row \in Row /\ row.def = V[Len(V)].def /\ row.enabled = b
  BY <1>1 DEF Row
<1>5. W = [V EXCEPT ![Len(V)] = row]
  BY <1>2, <1>3
<1> HIDE DEF row
<1>6. /\ W \in Seq(Row) /\ Len(W) = Len(V)
      /\ \A k \in 1..Len(V) : W[k] = IF k = Len(V) THEN row ELSE V[k]
  BY <1>1, <1>4, <1>5, ExceptSeq
<1> HIDE DEF W
<1>7. \A k \in 1..Len(V) : W[k].def = V[k].def
  BY <1>4, <1>6
<1>8. DOMAIN W = 1..Len(V)
  BY <1>6
<1>9. \A k \in 2..Len(W) : W[k].def # W[k - 1].def
  <2> SUFFICES ASSUME NEW k \in 2..Len(V) PROVE W[k].def # W[k - 1].def
    BY <1>6
  <2>1. k \in 1..Len(V) /\ k - 1 \in 1..Len(V)
    BY <1>1
  <2> QED BY <1>1, <1>7, <2>1
<1>10. W # <<>>
  BY <1>1, <1>6, EmptySeq
<1> QED BY <1>1, <1>4, <1>6, <1>7, <1>8, <1>9, <1>10 DEF Registry, Extends, Current, W

\* What an answer "ok" with a version promises of the database.
PromisedIn(c, D, version) ==
  LET i == inv[c]
  IN  /\ i.op = "send" => c \in D.messages
      /\ i.op \in {"apply", "post"} =>
           /\ i.doc.name \in Names
           /\ version \in DOMAIN D.versions[i.doc.name]
           /\ D.versions[i.doc.name][version].def = Canonical(i.doc)
      /\ i.op \in {"enable", "disable", "show"} =>
           i.name \in Names /\ version \in DOMAIN D.versions[i.name]

\* Only an enable turns an action on again.
StaysOff(c, D, E) ==
  \A n \in Names :
    /\ D.versions[n] # <<>> /\ ~Current(D.versions[n]).enabled
    /\ inv[c].op # "enable" \/ inv[c].name # n
    => ~Current(E.versions[n]).enabled

\* A promise holds in every later state of the database.
LEMMA PromiseLasts ==
  ASSUME NEW c, NEW D, NEW E, NEW v, PromisedIn(c, D, v), Grown(D, E)
  PROVE  PromisedIn(c, E, v)
BY DEF PromisedIn, Grown, Extends

\* A database with the versions of one action replaced.
LEMMA VersionsReplaced ==
  ASSUME NEW D \in Database, NEW n \in Names, NEW W \in Registry, Extends(D.versions[n], W)
  PROVE  LET E == [D EXCEPT !.versions[n] = W]
         IN  /\ E \in Database /\ Grown(D, E) /\ E.messages = D.messages
             /\ \A m \in Names : E.versions[m] = IF m = n THEN W ELSE D.versions[m]
<1> DEFINE X == [D.versions EXCEPT ![n] = W]
           E == [D EXCEPT !.versions[n] = W]
<1>1. D.versions \in [Names -> Registry] /\ D.messages \in SUBSET Commands
      /\ D = [versions |-> D.versions, messages |-> D.messages]
  BY DEF Database
<1>2. X \in [Names -> Registry] /\ \A m \in Names : X[m] = IF m = n THEN W ELSE D.versions[m]
  BY <1>1
<1>3. E = [versions |-> X, messages |-> D.messages]
  BY <1>1
<1> HIDE DEF X, E
<1>4. E \in Database /\ E.versions = X /\ E.messages = D.messages
  BY <1>1, <1>2, <1>3 DEF Database
<1>5. Grown(D, E)
  BY <1>2, <1>4 DEF Grown, Extends
<1> QED BY <1>2, <1>4, <1>5 DEF E

\* What actionApply does with a document.
LEMMA ApplyHandler ==
  ASSUME NEW D \in Database, NEW doc \in Document
  PROVE  LET h == actionApply(D, doc)
         IN  /\ h[1] \in Database /\ Grown(D, h[1])
             /\ h[2] = Reply(h[2].status, h[2].version) /\ h[2].status \in {"ok", "invalid"}
             /\ h[2].status = "ok" =>
                  /\ doc.name \in Names
                  /\ h[2].version \in DOMAIN h[1].versions[doc.name]
                  /\ h[1].versions[doc.name][h[2].version].def = Canonical(doc)
             /\ \A n \in Names :
                  D.versions[n] # <<>> =>
                    Current(h[1].versions[n]).enabled = Current(D.versions[n]).enabled
<1> DEFINE W == ApplyAction(D.versions[doc.name], Canonical(doc))
           E == [D EXCEPT !.versions[doc.name] = W]
           h == actionApply(D, doc)
<1>1. CASE ~Accepted(doc, "json")
  <2>1. h = <<D, Reply("invalid", 0)>>
    BY <1>1 DEF actionApply, Invalid
  <2> HIDE DEF h
  <2>2. h[1] = D /\ h[2] = Reply("invalid", 0)
    BY <2>1
  <2>3. Reply("invalid", 0).status = "invalid" /\ Reply("invalid", 0).version = 0
    BY DEF Reply
  <2> QED BY <2>2, <2>3 DEF h, Grown, Extends
<1>2. CASE Accepted(doc, "json")
  <2>1. h = <<E, Reply("ok", Len(W))>>
    BY <1>2 DEF actionApply
  <2>2. h[1] = E /\ h[2] = Reply("ok", Len(W))
    BY <2>1
  <2>3. Canonical(doc) \in StoredDef /\ doc.name \in Names
    BY <1>2, AcceptedIsStored
  <2>4. D.versions[doc.name] \in Registry
    BY <2>3 DEF Database
  <2>5. /\ W \in Registry /\ Extends(D.versions[doc.name], W)
        /\ Len(W) \in DOMAIN W /\ W[Len(W)].def = Canonical(doc)
        /\ D.versions[doc.name] # <<>> =>
             Current(W).enabled = Current(D.versions[doc.name]).enabled
    BY <2>3, <2>4, ApplyExtends
  <2> HIDE DEF W
  <2>6. /\ E \in Database /\ Grown(D, E)
        /\ \A m \in Names : E.versions[m] = IF m = doc.name THEN W ELSE D.versions[m]
    BY <2>3, <2>5, VersionsReplaced
  <2> HIDE DEF E, h
  <2>7. Reply("ok", Len(W)).status = "ok" /\ Reply("ok", Len(W)).version = Len(W)
    BY DEF Reply
  <2> QED BY <2>2, <2>3, <2>5, <2>6, <2>7 DEF h
<1> QED BY <1>1, <1>2

\* What enable and disable do with an action that exists.
LEMMA FlagSet ==
  ASSUME NEW D \in Database, NEW n \in Names, NEW b \in BOOLEAN, D.versions[n] # <<>>
  PROVE  LET V == D.versions[n]
             E == [D EXCEPT !.versions[n] = SetActionEnabled(V, b)]
         IN  /\ E \in Database /\ Grown(D, E) /\ Len(V) \in DOMAIN E.versions[n]
             /\ \A m \in Names \ {n} : E.versions[m] = D.versions[m]
             /\ Current(E.versions[n]).enabled = b
<1> DEFINE V == D.versions[n]
           W == SetActionEnabled(V, b)
           E == [D EXCEPT !.versions[n] = W]
<1>1. V \in Registry
  BY DEF Database
<1>2. /\ W \in Registry /\ Extends(V, W) /\ Len(V) \in DOMAIN W
      /\ Current(W).enabled = b
  BY <1>1, SetExtends
<1> HIDE DEF W
<1>3. /\ E \in Database /\ Grown(D, E)
      /\ \A m \in Names : E.versions[m] = IF m = n THEN W ELSE D.versions[m]
  BY <1>2, VersionsReplaced
<1> HIDE DEF E
<1>4. E.versions[n] = W
  BY <1>3
<1>5. Current(E.versions[n]).enabled = b
  BY <1>2, <1>4, Zenon
<1>6. /\ E \in Database /\ Grown(D, E) /\ Len(V) \in DOMAIN E.versions[n]
      /\ \A m \in Names \ {n} : E.versions[m] = D.versions[m]
  BY <1>2, <1>3, <1>4
<1> QED BY <1>5, <1>6, Zenon DEF E, W

\* What a handler makes of a database, and what it answers.
Kept(c, D, E, reply) ==
  /\ E \in Database /\ Grown(D, E)
  /\ reply = Reply(reply.status, reply.version)
  /\ reply.status \in {"ok", "invalid", "not_found"}
  /\ reply.status = "ok" => PromisedIn(c, E, reply.version)
  /\ StaysOff(c, D, E)
  /\ inv[c].op = "disable" /\ reply.status = "ok" => ~Current(E.versions[inv[c].name]).enabled

\* A handler that changes nothing, and promises no change.
LEMMA ReadKeeps ==
  ASSUME NEW c, NEW D \in Database, NEW s \in {"ok", "invalid", "not_found"}, NEW v,
         s = "ok" => PromisedIn(c, D, v) /\ inv[c].op # "disable"
  PROVE  Kept(c, D, D, Reply(s, v))
<1>1. Reply(s, v).status = s /\ Reply(s, v).version = v
  BY DEF Reply
<1>2. Grown(D, D) /\ StaysOff(c, D, D)
  BY DEF Grown, Extends, StaysOff
<1> QED BY <1>1, <1>2 DEF Kept

\* Every handler keeps what the database holds, and its answer is true of what
\* it leaves (messageSend, actionApply, setActionEnabled, actionShow).
LEMMA HandlerKeeps ==
  ASSUME NEW c \in Commands, NEW D \in Database, CommandInv(c), req[c] # "none"
  PROVE  Kept(c, D, Handled(c, D)[1], Handled(c, D)[2])
<1> DEFINE i == inv[c]
           h == Handled(c, D)
<1>1. /\ i \in Invocations /\ Refusal(i) = None /\ i.op \notin {"up", "daemon"}
  BY DEF CommandInv, Begun
<1>2. i.op \in {"send", "apply", "post", "enable", "disable", "show", "status"}
  BY <1>1, CommandAssumption
<1>3. i.op = "post" => i.doc \in Document
  BY <1>1, CommandAssumption
<1>4. i.op \in {"enable", "disable", "show"} => i.name \in Names \cup {""}
  BY <1>1, CommandAssumption
<1>5. ASSUME NEW E, NEW r, h = <<E, r>>, Kept(c, D, E, r)
      PROVE  Kept(c, D, h[1], h[2])
  BY <1>5
<1>6. CASE i.op = "send"
  <2>1. h = messageSend(c, D)
    BY <1>6 DEF Handled
  <2>2. CASE i.fault = "null"
    <3>1. h = <<D, Reply("invalid", 0)>>
      BY <2>1, <2>2 DEF messageSend, Invalid
    <3> QED BY <1>5, <3>1, ReadKeeps
  <2>3. CASE i.fault # "null"
    <3> DEFINE E == [D EXCEPT !.messages = @ \cup {c}]
    <3>1. h = <<E, Reply("ok", 0)>>
      BY <2>1, <2>3 DEF messageSend
    <3>2. E \in Database /\ E.versions = D.versions /\ E.messages = D.messages \cup {c}
      BY DEF Database
    <3> HIDE DEF E, h
    <3>3. Grown(D, E) /\ StaysOff(c, D, E) /\ PromisedIn(c, E, 0)
      BY <1>6, <3>2 DEF Grown, Extends, StaysOff, PromisedIn
    <3>4. Reply("ok", 0).status = "ok" /\ Reply("ok", 0).version = 0
      BY DEF Reply
    <3>5. Kept(c, D, E, Reply("ok", 0))
      BY <1>6, <3>2, <3>3, <3>4 DEF Kept
    <3>6. h[1] = E /\ h[2] = Reply("ok", 0)
      BY <3>1
    <3> QED BY <3>5, <3>6 DEF h
  <2> QED BY <2>2, <2>3
<1>7. CASE i.op \in {"apply", "post"}
  <2> DEFINE doc == IF i.op = "apply" THEN Canonical(i.doc) ELSE i.doc
  <2>1. h = actionApply(D, doc)
    BY <1>7 DEF Handled
  <2>2. i.doc \in Document
    BY <1>1, <1>3, <1>7, AppliedIsSound, AppliedWasAccepted
  <2>3. doc \in Document /\ doc.name = i.doc.name /\ Canonical(doc) = Canonical(i.doc)
    BY <2>2, CanonicalType, CanonicalStable
  <2> HIDE DEF doc, h
  <2>4. /\ h[1] \in Database /\ Grown(D, h[1])
        /\ h[2] = Reply(h[2].status, h[2].version) /\ h[2].status \in {"ok", "invalid"}
        /\ h[2].status = "ok" =>
             /\ doc.name \in Names
             /\ h[2].version \in DOMAIN h[1].versions[doc.name]
             /\ h[1].versions[doc.name][h[2].version].def = Canonical(doc)
        /\ \A n \in Names :
             D.versions[n] # <<>> =>
               Current(h[1].versions[n]).enabled = Current(D.versions[n]).enabled
    BY <2>1, <2>3, ApplyHandler
  <2>5. h[2].status = "ok" => PromisedIn(c, h[1], h[2].version)
    BY <1>7, <2>3, <2>4 DEF PromisedIn
  <2>6. StaysOff(c, D, h[1])
    BY <2>4, Zenon DEF StaysOff
  <2>7. i.op # "disable"
    BY <1>7
  <2>8. h[2].status \in {"ok", "invalid", "not_found"}
    BY <2>4
  <2>9. /\ h[1] \in Database /\ Grown(D, h[1])
        /\ h[2] = Reply(h[2].status, h[2].version)
    BY <2>4
  <2>10. Kept(c, D, h[1], h[2])
    BY <2>5, <2>6, <2>7, <2>8, <2>9, Zenon DEF Kept
  <2> QED BY <2>10 DEF h
<1>8. CASE i.op \in {"enable", "disable", "show"} /\ i.name = ""
  <2>1. h = <<D, Reply("invalid", 0)>>
    BY <1>8 DEF Handled, setActionEnabled, actionShow, Invalid
  <2> QED BY <1>5, <2>1, ReadKeeps
<1>9. CASE i.op \in {"enable", "disable", "show"} /\ i.name # "" /\ D.versions[i.name] = <<>>
  <2>1. h = <<D, Reply("not_found", 0)>>
    BY <1>9 DEF Handled, setActionEnabled, actionShow
  <2> QED BY <1>5, <2>1, ReadKeeps
<1>10. CASE i.op = "show" /\ i.name # "" /\ D.versions[i.name] # <<>>
  <2> DEFINE V == D.versions[i.name]
  <2>1. h = <<D, Reply("ok", Len(V))>>
    BY <1>10 DEF Handled, actionShow
  <2>2. i.name \in Names /\ V \in Seq(Row) /\ V # <<>>
    BY <1>4, <1>10 DEF Database, Registry
  <2> HIDE DEF V
  <2>3. Len(V) \in DOMAIN V
    BY <2>2, EmptySeq
  <2>4. PromisedIn(c, D, Len(V))
    BY <1>10, <2>2, <2>3 DEF PromisedIn, V
  <2>5. Kept(c, D, D, Reply("ok", Len(V)))
    BY <1>10, <2>4, ReadKeeps
  <2> QED BY <1>5, <2>1, <2>5
<1>11. ASSUME NEW b \in BOOLEAN, NEW n \in Names, i.op \in {"enable", "disable"},
              i.op = "disable" => b = FALSE, i.name = n, D.versions[n] # <<>>,
              h = <<[D EXCEPT !.versions[n] = SetActionEnabled(D.versions[n], b)],
                    Reply("ok", Len(D.versions[n]))>>
       PROVE  Kept(c, D, h[1], h[2])
  <2> DEFINE V == D.versions[n]
             E == [D EXCEPT !.versions[n] = SetActionEnabled(V, b)]
  <2>2. /\ E \in Database /\ Grown(D, E) /\ Len(V) \in DOMAIN E.versions[n]
        /\ \A m \in Names \ {n} : E.versions[m] = D.versions[m]
        /\ Current(E.versions[n]).enabled = b
    <3>1. D.versions[n] # <<>>
      BY <1>11
    <3> QED BY <3>1, FlagSet
  <2>3. h = <<E, Reply("ok", Len(V))>>
    BY <1>11
  <2> HIDE DEF E
  <2>4. PromisedIn(c, E, Len(V))
    BY <1>11, <2>2 DEF PromisedIn
  <2>5. i.op = "disable" => ~Current(E.versions[n]).enabled
    BY <1>11, <2>2
  <2>6. StaysOff(c, D, E)
    BY <1>11, <2>2, <2>5 DEF StaysOff
  <2>7. Reply("ok", Len(V)).status = "ok" /\ Reply("ok", Len(V)).version = Len(V)
    BY DEF Reply
  <2>8. Kept(c, D, E, Reply("ok", Len(V)))
    BY <1>11, <2>2, <2>4, <2>5, <2>6, <2>7 DEF Kept
  <2> QED BY <1>5, <2>3, <2>8
<1>12. CASE i.op \in {"enable", "disable"} /\ i.name # "" /\ D.versions[i.name] # <<>>
  <2>0. i.name \in Names
    BY <1>4, <1>12
  <2>1. CASE i.op = "enable"
    BY <1>11, <1>12, <2>0, <2>1 DEF Handled, setActionEnabled
  <2>2. CASE i.op = "disable"
    BY <1>11, <1>12, <2>0, <2>2 DEF Handled, setActionEnabled
  <2> QED BY <1>12, <2>1, <2>2
<1>13. CASE i.op = "status"
  <2>1. h = <<D, Reply("ok", 0)>>
    BY <1>13 DEF Handled
  <2>2. PromisedIn(c, D, 0)
    BY <1>13 DEF PromisedIn
  <2> QED BY <1>5, <1>13, <2>1, <2>2, ReadKeeps
<1> QED BY <1>2, <1>6, <1>7, <1>8, <1>9, <1>10, <1>12, <1>13

-----------------------------------------------------------------------------
(* Where a command is, what its request has come to, and what its daemon    *)
(* has in memory.                                                           *)

ClientInv(c) ==
  /\ pc[c] \in {"new", "lock", "request", "await", "daemon", "exited"} \cup Ensuring
  /\ (inv[c] = None) = (pc[c] = "new")
  /\ (exit[c] # None) = (pc[c] = "exited")
  /\ exit[c] # None => exit[c] \in 0..3
  /\ pc[c] = "daemon" => inv[c].op = "daemon"
  /\ req[c] \in {"none", "queued", "served", "dropped"}
  /\ pc[c] \notin {"await", "exited"} => req[c] = "none"
  /\ req[c] # "served" => answer[c] = NoAnswer
  /\ answer[c].status \in {"none", "ok", "invalid", "not_found", "internal"}
  /\ exit[c] = ExitOK /\ inv[c].op \notin {"up", "daemon"} => answer[c].status = "ok"

DaemonInv(d) ==
  /\ daemon[d].state \in {"none", "starting", "serving", "gone"}
  /\ daemon[d].state = "none" => daemon[d] = NoDaemon
  /\ daemon[d] # NoDaemon => daemon[d].cfg["database"] \in Databases
  /\ pc[d] \in {"new", "lock", "probe", "spawn"} => daemon[d] = NoDaemon
  /\ daemon[d].state # "serving" => snap[d] = None /\ cache[d] = {}

\* A request is at a daemon that has been started, and waits only at one that serves.
LinkInv(c) ==
  /\ (at[c] = None) = (req[c] = "none")
  /\ at[c] # None => at[c] \in Commands /\ daemon[at[c]] # NoDaemon
  /\ req[c] = "queued" => daemon[at[c]].state = "serving"

SocketInv ==
  /\ \A s \in socket : s[2] \in Commands /\ daemon[s[2]].state = "serving"
  /\ \A s, t \in socket : s[1] = t[1] => s = t

MoreFunctions ==
  /\ exit = [c \in Commands |-> exit[c]]
  /\ at = [c \in Commands |-> at[c]]
  /\ snap = [c \in Commands |-> snap[c]]
  /\ cache = [c \in Commands |-> cache[c]]
  /\ db \in [Databases -> Database]

RunInv ==
  /\ MoreFunctions /\ SocketInv
  /\ \A c \in Commands : ClientInv(c) /\ DaemonInv(c) /\ LinkInv(c)

\* A step of command c, its daemon or its request.
Step(c) ==
  \/ \E i \in Invocations : Begin(c, i)
  \/ AcquireStartLock(c) \/ Probe(c) \/ Spawn(c) \/ WaitReady(c) \/ NotReady(c)
  \/ Serve(c) \/ Dies(c) \/ LoadActions(c)
  \/ \E n \in Names : CacheGet(c, n)
  \/ Request(c) \/ Handle(c) \/ HandlerFails(c) \/ Cancelled(c)
  \/ Answered(c) \/ Unanswered(c)

\* A daemon changes its state and keeps what it resolved.
LEMMA StateChange ==
  ASSUME IInv, NEW d \in Commands, NEW s, s # "none",
         daemon' = [daemon EXCEPT ![d].state = s]
  PROVE  /\ daemon'[d].state = s /\ daemon'[d].cfg = daemon[d].cfg /\ daemon'[d] # NoDaemon
         /\ \A e \in Commands \ {d} : daemon'[e] = daemon[e]
<1>1. /\ daemon = [e \in Commands |-> daemon[e]]
      /\ daemon[d] = [state |-> daemon[d].state, cfg |-> daemon[d].cfg, idle |-> daemon[d].idle]
  BY DEF IInv, Functions, CommandInv
<1> DEFINE r == daemon[d]
<1>2. daemon'[d] = [r EXCEPT !.state = s]
  BY <1>1
<1>3. daemon'[d] = [state |-> s, cfg |-> r.cfg, idle |-> r.idle]
  BY <1>1, <1>2
<1>4. daemon'[d] # NoDaemon
  BY <1>3 DEF NoDaemon
<1> QED BY <1>1, <1>3, <1>4

\* What a daemon's end does to it and to the requests at it.
LEMMA GoneEffect ==
  ASSUME IInv, RunInv, NEW d \in Commands, Gone(d)
  PROVE  /\ daemon'[d].state = "gone" /\ daemon'[d].cfg = daemon[d].cfg /\ daemon'[d] # NoDaemon
         /\ \A e \in Commands \ {d} : daemon'[e] = daemon[e]
         /\ snap'[d] = None /\ cache'[d] = {}
         /\ \A e \in Commands \ {d} : snap'[e] = snap[e] /\ cache'[e] = cache[e]
         /\ \A e \in Commands :
              req'[e] = IF at[e] = d /\ req[e] = "queued" THEN "dropped" ELSE req[e]
         /\ at' = at /\ answer' = answer
         /\ socket' = {s \in socket : s[2] # d}
         /\ snap' = [c \in Commands |-> snap'[c]] /\ cache' = [c \in Commands |-> cache'[c]]
<1>1. daemon' = [daemon EXCEPT ![d].state = "gone"]
  BY DEF Gone
<1>2. /\ daemon'[d].state = "gone" /\ daemon'[d].cfg = daemon[d].cfg /\ daemon'[d] # NoDaemon
      /\ \A e \in Commands \ {d} : daemon'[e] = daemon[e]
  BY <1>1, StateChange
<1> QED BY <1>2 DEF Gone, RunInv, MoreFunctions

\* No step makes a daemon forget what it resolved.
LEMMA DaemonsKeep ==
  ASSUME IInv, RunInv, NEW c \in Commands, Step(c), NEW d \in Commands, daemon[d] # NoDaemon
  PROVE  daemon'[d] # NoDaemon /\ daemon'[d].cfg = daemon[d].cfg
<1>1. daemon = [e \in Commands |-> daemon[e]] /\ DaemonInv(d) /\ DaemonInv(c)
  BY DEF IInv, Functions, RunInv
<1>2. CASE daemon' = daemon
  BY <1>2
<1>3. ASSUME NEW i \in Invocations, Begin(c, i) PROVE daemon' = daemon \/ d # c
  BY <1>1, <1>3 DEF Begin, DaemonInv
<1>4. ASSUME NEW i \in Invocations, Begin(c, i), d # c PROVE daemon'[d] = daemon[d]
  BY <1>1, <1>4 DEF Begin
<1>5. CASE Spawn(c)
  <2>1. d # c
    BY <1>1, <1>5 DEF Spawn, DaemonInv
  <2> QED BY <1>1, <1>5, <2>1 DEF Spawn
<1>6. CASE NotReady(c) \/ Dies(c)
  <2>1. Gone(c)
    BY <1>6 DEF NotReady, Dies
  <2> QED BY <2>1, GoneEffect
<1>7. CASE Serve(c)
  <2>1. daemon' = [daemon EXCEPT ![c].state = "serving"]
    BY <1>7 DEF Serve
  <2> QED BY <2>1, StateChange
<1>8. \/ \E i \in Invocations : Begin(c, i)
      \/ Spawn(c) \/ NotReady(c) \/ Dies(c) \/ Serve(c) \/ daemon' = daemon
  BY DEF Step, AcquireStartLock, Probe, WaitReady, LoadActions, CacheGet, Request, Handle,
     HandlerFails, Cancelled, Answered, Unanswered
<1> QED BY <1>2, <1>3, <1>4, <1>5, <1>6, <1>7, <1>8

\* A step is about one command: it leaves the others' exit codes, the daemon
\* their requests are at, and what their daemons have in memory.
LEMMA StepFrame ==
  ASSUME IInv, RunInv, NEW c \in Commands, Step(c)
  PROVE  /\ exit' = [e \in Commands |-> exit'[e]] /\ at' = [e \in Commands |-> at'[e]]
         /\ snap' = [e \in Commands |-> snap'[e]] /\ cache' = [e \in Commands |-> cache'[e]]
         /\ \A e \in Commands \ {c} :
              exit'[e] = exit[e] /\ at'[e] = at[e] /\ snap'[e] = snap[e] /\ cache'[e] = cache[e]
<1>1. MoreFunctions
  BY DEF RunInv
<1>2. ASSUME NEW i \in Invocations, Begin(c, i)
      PROVE  UNCHANGED <<at, snap, cache>> /\ (exit' = exit \/ \E x : exit' = [exit EXCEPT ![c] = x])
  BY <1>2 DEF Begin, Exit, reqVars, schedVars
<1>3. CASE \/ AcquireStartLock(c) \/ Probe(c) \/ Spawn(c) \/ WaitReady(c) \/ Serve(c)
           \/ Handle(c) \/ HandlerFails(c) \/ Cancelled(c) \/ Answered(c) \/ Unanswered(c)
  <2>1. UNCHANGED <<at, snap, cache>> /\ (exit' = exit \/ \E x : exit' = [exit EXCEPT ![c] = x])
    BY <1>3 DEF AcquireStartLock, Probe, Spawn, WaitReady, Serve, Handle, HandlerFails,
       Cancelled, Answered, Unanswered, Ensured, Exit, reqVars, schedVars, clientVars
  <2> QED BY <1>1, <2>1 DEF MoreFunctions
<1>4. CASE NotReady(c) \/ Dies(c)
  <2>1. Gone(c) /\ (exit' = exit \/ \E x : exit' = [exit EXCEPT ![c] = x])
    BY <1>4 DEF NotReady, Dies, Exit
  <2> QED BY <1>1, <2>1, GoneEffect DEF MoreFunctions
<1>5. CASE LoadActions(c)
  <2>1. UNCHANGED <<exit, at, cache>> /\ \E x : snap' = [snap EXCEPT ![c] = x]
    BY <1>5 DEF LoadActions, clientVars, reqVars
  <2> QED BY <1>1, <2>1 DEF MoreFunctions
<1>6. ASSUME NEW n \in Names, CacheGet(c, n)
      PROVE  UNCHANGED <<exit, at, snap>> /\ \E x : cache' = [cache EXCEPT ![c] = x]
  BY <1>6 DEF CacheGet, clientVars, reqVars
<1>7. CASE Request(c)
  <2>1. /\ UNCHANGED <<snap, cache>>
        /\ exit' = exit \/ \E x : exit' = [exit EXCEPT ![c] = x]
        /\ at' = at \/ \E x : at' = [at EXCEPT ![c] = x]
    BY <1>7 DEF Request, Exit, reqVars, schedVars
  <2> QED BY <1>1, <2>1 DEF MoreFunctions
<1>8. CASE \E i \in Invocations : Begin(c, i)
  BY <1>1, <1>2, <1>8 DEF MoreFunctions
<1>9. CASE \E n \in Names : CacheGet(c, n)
  BY <1>1, <1>6, <1>9 DEF MoreFunctions
<1> QED BY <1>3, <1>4, <1>5, <1>7, <1>8, <1>9 DEF Step

\* A daemon that serves does so until it is gone.
LEMMA ServingStays ==
  ASSUME IInv, RunInv, NEW c \in Commands, Step(c), NEW d \in Commands,
         daemon[d].state = "serving"
  PROVE  daemon'[d].state = "serving" \/ (d = c /\ Gone(c))
<1>1. daemon = [e \in Commands |-> daemon[e]] /\ DaemonInv(d) /\ daemon[d] # NoDaemon
  BY DEF IInv, Functions, RunInv, NoDaemon
<1>2. CASE daemon' = daemon
  BY <1>2
<1>3. ASSUME NEW i \in Invocations, Begin(c, i) PROVE daemon'[d] = daemon[d]
  BY <1>1, <1>3 DEF Begin, DaemonInv
<1>4. CASE Spawn(c)
  BY <1>1, <1>4 DEF Spawn, DaemonInv
<1>5. CASE NotReady(c) \/ Dies(c)
  <2>1. Gone(c)
    BY <1>5 DEF NotReady, Dies
  <2> QED BY <2>1, GoneEffect
<1>6. CASE Serve(c)
  <2>1. daemon' = [daemon EXCEPT ![c].state = "serving"] /\ d # c
    BY <1>6 DEF Serve
  <2> QED BY <2>1, StateChange
<1>7. \/ \E i \in Invocations : Begin(c, i)
      \/ Spawn(c) \/ NotReady(c) \/ Dies(c) \/ Serve(c) \/ daemon' = daemon
  BY DEF Step, AcquireStartLock, Probe, WaitReady, LoadActions, CacheGet, Request, Handle,
     HandlerFails, Cancelled, Answered, Unanswered
<1> QED BY <1>2, <1>3, <1>4, <1>5, <1>6, <1>7

\* What becomes of a request: it is made, answered or dropped.
LEMMA RequestMoves ==
  ASSUME IInv, RunInv, NEW c \in Commands, Step(c), NEW e \in Commands
  PROVE  /\ \/ req'[e] = req[e] /\ at'[e] = at[e]
            \/ req[e] = "queued" /\ req'[e] \in {"served", "dropped"} /\ at'[e] = at[e]
            \/ e = c /\ Request(c) /\ Listeners(Cfg(c)["socket"]) # {}
         /\ req'[e] = "queued" /\ Gone(c) => at[e] # c
<1>1. req = [f \in Commands |-> req[f]] /\ at = [f \in Commands |-> at[f]]
  BY DEF IInv, Functions, RunInv, MoreFunctions
<1>2. ASSUME Gone(c)
      PROVE  /\ req'[e] = IF at[e] = c /\ req[e] = "queued" THEN "dropped" ELSE req[e]
             /\ at' = at
  BY <1>2, GoneEffect
<1>3. CASE NotReady(c) \/ Dies(c)
  <2>1. Gone(c)
    BY <1>3 DEF NotReady, Dies
  <2> QED BY <1>2, <2>1
<1>4. CASE Handle(c) \/ HandlerFails(c) \/ Cancelled(c)
  <2>1. /\ req[c] = "queued" /\ at' = at
        /\ req' = [req EXCEPT ![c] = "served"] \/ req' = [req EXCEPT ![c] = "dropped"]
    BY <1>4 DEF Handle, HandlerFails, Cancelled
  <2>2. ASSUME Gone(c), req'[e] = "queued" PROVE at[e] # c
    BY <1>2, <2>2
  <2> QED BY <1>1, <2>1, <2>2
<1>5. CASE Request(c)
  BY <1>1, <1>2, <1>5 DEF Request, reqVars
<1>6. CASE UNCHANGED <<req, at>>
  BY <1>2, <1>6
<1>7. \/ NotReady(c) \/ Dies(c) \/ Handle(c) \/ HandlerFails(c) \/ Cancelled(c) \/ Request(c)
      \/ UNCHANGED <<req, at>>
  BY DEF Step, Begin, AcquireStartLock, Probe, Spawn, WaitReady, Serve, LoadActions, CacheGet,
     Answered, Unanswered, reqVars
<1> QED BY <1>3, <1>4, <1>5, <1>6, <1>7

\* None is no command, invocation or exit code.
LEMMA NoneIsNew == None \notin Commands /\ None \notin Invocations /\ None \notin 0..3
<1>1. None \notin Invocations \cup Commands \cup Document \cup 0..3
  BY CommandAssumption, Zenon
<1> QED BY <1>1

\* Every request stays at a daemon that has been started.
LEMMA LinkStep ==
  ASSUME IInv, RunInv, NEW c \in Commands, Step(c), NEW e \in Commands
  PROVE  LinkInv(e)'
<1>1. LinkInv(e) /\ SocketInv
  BY DEF RunInv
<1>2. CASE at'[e] = at[e] /\ \/ req'[e] = req[e]
                             \/ req[e] = "queued" /\ req'[e] \in {"served", "dropped"}
  <2>1. (at'[e] = None) = (req'[e] = "none")
    BY <1>1, <1>2 DEF LinkInv
  <2>2. ASSUME at'[e] # None PROVE at'[e] \in Commands /\ daemon'[at'[e]] # NoDaemon
    <3>1. at[e] \in Commands /\ daemon[at[e]] # NoDaemon
      BY <1>1, <1>2, <2>2 DEF LinkInv
    <3> QED BY <1>2, <3>1, DaemonsKeep
  <2>3. ASSUME req'[e] = "queued" PROVE daemon'[at'[e]].state = "serving"
    <3>1. req[e] = "queued" /\ daemon[at[e]].state = "serving" /\ at[e] \in Commands
      BY <1>1, <1>2, <2>3 DEF LinkInv
    <3>2. ~(at[e] = c /\ Gone(c))
      BY <2>3, RequestMoves
    <3>3. daemon'[at[e]].state = "serving"
      BY <3>1, <3>2, ServingStays
    <3> QED BY <1>2, <3>3
  <2> QED BY <2>1, <2>2, <2>3 DEF LinkInv
<1>3. CASE e = c /\ Request(c) /\ Listeners(Cfg(c)["socket"]) # {}
  <2> DEFINE L == Listeners(Cfg(c)["socket"])
             d == CHOOSE x \in L : TRUE
  <2>1. d \in L
    BY <1>3
  <2>2. d \in Commands /\ daemon[d].state = "serving"
    BY <1>1, <2>1 DEF Listeners, SocketInv
  <2>3. at'[c] = d /\ req'[c] = "queued" /\ daemon' = daemon
    BY <1>3 DEF Request, IInv, Functions, RunInv, MoreFunctions
  <2> HIDE DEF d
  <2>4. d # None
    BY <2>2, NoneIsNew
  <2>5. daemon[d] # NoDaemon
    BY <2>2 DEF NoDaemon
  <2> QED BY <1>3, <2>2, <2>3, <2>4, <2>5 DEF LinkInv
<1> QED BY <1>2, <1>3, RequestMoves

\* The commands that do not take the step stay in order.
LEMMA OthersStay ==
  ASSUME IInv, RunInv, NEW c \in Commands, Step(c), NEW e \in Commands, e # c
  PROVE  ClientInv(e)' /\ DaemonInv(e)'
<1>1. ClientInv(e) /\ DaemonInv(e)
  BY DEF RunInv
<1>2. Frame(e)
  BY FunctionsStep DEF Step
<1>3. exit'[e] = exit[e] /\ snap'[e] = snap[e] /\ cache'[e] = cache[e]
  BY StepFrame
<1> QED BY <1>1, <1>2, <1>3 DEF ClientInv, DaemonInv, Frame, Ensuring

\* A command that exits says 0 of a request only if that was answered.
LEMMA ClientExits ==
  ASSUME IInv, RunInv, NEW c \in Commands, NEW code \in 0..3, Exit(c, code),
         inv'[c] # None, answer' = answer,
         req'[c] = req[c] \/ (req[c] = "queued" /\ req'[c] = "dropped"),
         code = ExitOK => inv'[c].op \in {"up", "daemon"} \/ answer[c].status = "ok"
  PROVE  ClientInv(c)'
<1>1. ClientInv(c) /\ MoreFunctions /\ Functions
  BY DEF IInv, RunInv
<1>2. pc'[c] = "exited" /\ exit'[c] = code
  BY <1>1 DEF Exit, Functions, MoreFunctions
<1>3. exit'[c] # None
  BY <1>2, NoneIsNew
<1> QED BY <1>1, <1>2, <1>3 DEF ClientInv

\* A command that moves on before its request.
LEMMA ClientMoves ==
  ASSUME IInv, RunInv, NEW c \in Commands, NEW p \in {"lock", "probe", "spawn", "ready", "request"},
         pc' = [pc EXCEPT ![c] = p], pc[c] \in {"new", "lock", "probe", "spawn", "ready"},
         inv'[c] # None, exit' = exit, answer' = answer, req' = req
  PROVE  ClientInv(c)'
<1>1. ClientInv(c) /\ pc'[c] = p
  BY DEF IInv, Functions, RunInv
<1>2. exit[c] = None
  BY <1>1 DEF ClientInv
<1>3. exit'[c] # ExitOK
  BY <1>2, CodesAreSome
<1> QED BY <1>1, <1>2, <1>3 DEF ClientInv, Ensuring

\* What a refused command line exits with.
LEMMA RefusalCode ==
  ASSUME NEW i \in Invocations, Refusal(i) # None
  PROVE  Refusal(i) \in {ExitUsage, ExitOperational}
<1>1. PreRun(i) \in {None, ExitUsage, ExitOperational}
  BY DEF PreRun
<1>2. /\ CheckSend(i) \in {None, ExitUsage, ExitOperational}
      /\ CheckApply(i) \in {None, ExitUsage, ExitOperational}
      /\ CheckShow(i) \in {None, ExitUsage, ExitOperational}
  BY DEF CheckSend, CheckApply, CheckShow
<1>3. Refusal(i) \in {None, ExitUsage, ExitOperational}
  BY <1>1, <1>2 DEF Refusal
<1> QED BY <1>3

\* A command line is read.
LEMMA BeginKeeps ==
  ASSUME IInv, RunInv, NEW c \in Commands, NEW i \in Invocations, Begin(c, i)
  PROVE  ClientInv(c)' /\ DaemonInv(c)'
<1>1. /\ ClientInv(c) /\ DaemonInv(c) /\ pc[c] = "new" /\ inv'[c] = i /\ i # None
      /\ req' = req /\ answer' = answer /\ snap' = snap /\ cache' = cache
      /\ daemon[c] = NoDaemon /\ snap[c] = None /\ cache[c] = {}
  <2>1. /\ ClientInv(c) /\ DaemonInv(c) /\ pc[c] = "new" /\ inv'[c] = i /\ req' = req
        /\ answer' = answer /\ snap' = snap /\ cache' = cache /\ daemon[c] = NoDaemon
    BY DEF RunInv, IInv, Functions, Begin, CommandInv, reqVars, schedVars
  <2>2. daemon[c].state = "none"
    BY <2>1 DEF NoDaemon
  <2> QED BY <2>1, <2>2, NoneIsNew DEF DaemonInv
<1>2. CASE Refusal(i) # None
  <2>1. Exit(c, Refusal(i)) /\ daemon' = daemon
    BY <1>2 DEF Begin
  <2>2. Refusal(i) \in 0..3 /\ Refusal(i) # ExitOK
    BY <1>2, RefusalCode DEF ExitOK, ExitUsage, ExitOperational
  <2>3. ClientInv(c)'
    BY <1>1, <2>1, <2>2, ClientExits
  <2>4. DaemonInv(c)'
    BY <1>1, <2>1 DEF DaemonInv, NoDaemon
  <2> QED BY <2>3, <2>4
<1>3. CASE Refusal(i) = None /\ i.op # "daemon"
  <2>1. FirstStep(i.op) \in {"request", "lock"}
    BY <1>3 DEF FirstStep
  <2>2. pc' = [pc EXCEPT ![c] = FirstStep(i.op)] /\ daemon' = daemon /\ exit' = exit
    BY <1>3 DEF Begin
  <2>3. ClientInv(c)'
    BY <1>1, <2>1, <2>2, ClientMoves
  <2>4. DaemonInv(c)'
    BY <1>1, <2>2 DEF DaemonInv, NoDaemon
  <2> QED BY <2>3, <2>4
<1>4. CASE Refusal(i) = None /\ i.op = "daemon"
  <2> DEFINE d == [state |-> "starting", cfg |-> Load(i.src), idle |-> IdleTimeout(i.src)]
  <2>1. pc'[c] = "daemon" /\ daemon'[c] = d /\ exit' = exit
    BY <1>1, <1>4 DEF Begin, FirstStep, IInv, Functions
  <2>2. Load(i.src)["database"] \in Databases
    BY DEF Databases
  <2>3. d.state = "starting" /\ d.cfg = Load(i.src)
    OBVIOUS
  <2> HIDE DEF d
  <2>4. DaemonInv(c)'
    BY <1>1, <2>1, <2>2, <2>3 DEF DaemonInv
  <2>5. exit[c] = None /\ ExitOK # None
    BY <1>1, CodesAreSome DEF ClientInv
  <2>6. ClientInv(c)'
    BY <1>1, <1>4, <2>1, <2>5 DEF ClientInv
  <2> QED BY <2>4, <2>6
<1> QED BY <1>2, <1>3, <1>4

\* EnsureRunning and the dial, for the command's own place.
LEMMA EnsureKeeps ==
  ASSUME IInv, RunInv, NEW c \in Commands,
         \/ AcquireStartLock(c) \/ Probe(c) \/ WaitReady(c) \/ Request(c)
         \/ Answered(c) \/ Unanswered(c)
  PROVE  ClientInv(c)' /\ DaemonInv(c)'
<1>1. /\ inv' = inv /\ daemon' = daemon /\ answer' = answer /\ snap' = snap /\ cache' = cache
      /\ pc[c] \in {"lock", "probe", "ready", "request", "await"}
      /\ \/ pc'[c] = "exited"
         \/ pc[c] = "lock" /\ pc'[c] = "probe"
         \/ pc[c] = "probe" /\ pc'[c] = "spawn"
         \/ pc'[c] \in {"request", "await"}
  BY DEF AcquireStartLock, Probe, WaitReady, Request, Answered, Unanswered, Ensured, Exit,
     reqVars, schedVars, IInv, Functions
<1>2. ClientInv(c) /\ DaemonInv(c) /\ inv[c] # None
  BY <1>1 DEF RunInv, ClientInv
<1>3. DaemonInv(c)'
  BY <1>1, <1>2 DEF DaemonInv
<1>4. /\ ExitOK \in 0..3 /\ ExitNotRunning \in 0..3 /\ ExitOperational \in 0..3
      /\ ExitNotRunning # ExitOK /\ ExitOperational # ExitOK
  BY DEF ExitOK, ExitNotRunning, ExitOperational
<1>5. ASSUME Exit(c, ExitOperational) \/ Exit(c, ExitNotRunning), req' = req PROVE ClientInv(c)'
  BY <1>1, <1>2, <1>4, <1>5, ClientExits
<1>6. ASSUME Ensured(c), req' = req, pc[c] \in {"probe", "ready"} PROVE ClientInv(c)'
  <2>1. CASE inv[c].op = "up"
    BY <1>1, <1>2, <1>4, <1>6, <2>1, ClientExits DEF Ensured
  <2>2. CASE inv[c].op # "up"
    BY <1>1, <1>2, <1>6, <2>2, ClientMoves DEF Ensured
  <2> QED BY <2>1, <2>2
<1>7. CASE AcquireStartLock(c)
  <2>1. CASE pc' = [pc EXCEPT ![c] = "probe"] /\ exit' = exit
    BY <1>1, <1>2, <1>3, <1>7, <2>1, ClientMoves DEF AcquireStartLock, reqVars
  <2> QED BY <1>3, <1>5, <1>7, <2>1 DEF AcquireStartLock, reqVars
<1>8. CASE Probe(c)
  <2>1. CASE pc' = [pc EXCEPT ![c] = "spawn"] /\ exit' = exit
    BY <1>1, <1>2, <1>3, <1>8, <2>1, ClientMoves DEF Probe, reqVars
  <2> QED BY <1>3, <1>5, <1>6, <1>8, <2>1 DEF Probe, reqVars
<1>9. CASE WaitReady(c)
  BY <1>3, <1>5, <1>6, <1>9 DEF WaitReady, reqVars
<1>10. CASE Request(c)
  <2>1. CASE Listeners(Cfg(c)["socket"]) = {}
    BY <1>3, <1>5, <1>10, <2>1 DEF Request, reqVars
  <2>2. CASE Listeners(Cfg(c)["socket"]) # {}
    <3>1. pc[c] = "request" /\ pc'[c] = "await" /\ req'[c] = "queued" /\ exit' = exit
      BY <1>10, <2>2 DEF Request, IInv, Functions
    <3>2. req[c] = "none" /\ exit[c] = None
      BY <1>2, <3>1 DEF ClientInv
    <3>3. answer[c] = NoAnswer /\ exit[c] # ExitOK
      BY <1>2, <3>2, CodesAreSome DEF ClientInv
    <3> QED BY <1>1, <1>2, <1>3, <3>1, <3>2, <3>3 DEF ClientInv
  <2> QED BY <2>1, <2>2
<1>11. CASE Answered(c)
  <2>1. CASE answer[c].status = "ok"
    <3>1. Exit(c, ExitOK) /\ req' = req
      BY <1>11, <2>1 DEF Answered, reqVars
    <3> QED BY <1>1, <1>2, <1>3, <1>4, <2>1, <3>1, ClientExits
  <2>2. CASE answer[c].status # "ok"
    BY <1>3, <1>5, <1>11, <2>2 DEF Answered, reqVars
  <2> QED BY <2>1, <2>2
<1>12. CASE Unanswered(c)
  BY <1>3, <1>5, <1>12 DEF Unanswered, reqVars
<1> QED BY <1>3, <1>7, <1>8, <1>9, <1>10, <1>11, <1>12

\* A daemon starts, serves and ends.
LEMMA DaemonKeeps ==
  ASSUME IInv, RunInv, NEW c \in Commands, Spawn(c) \/ Serve(c) \/ NotReady(c) \/ Dies(c)
  PROVE  ClientInv(c)' /\ DaemonInv(c)'
<1>1. ClientInv(c) /\ DaemonInv(c) /\ CommandInv(c) /\ Functions /\ MoreFunctions
  BY DEF IInv, RunInv
<1>2. CASE Spawn(c)
  <2>1. /\ pc[c] = "spawn" /\ inv' = inv /\ exit' = exit /\ req' = req /\ answer' = answer
        /\ snap' = snap /\ cache' = cache /\ pc' = [pc EXCEPT ![c] = "ready"]
    BY <1>2 DEF Spawn, reqVars, schedVars
  <2>2. inv[c] \in Invocations /\ inv[c].op # "daemon" /\ inv[c] # None
    BY <1>1, <2>1 DEF CommandInv, Begun, Ensuring, ClientInv
  <2>3. ClientInv(c)'
    BY <2>1, <2>2, ClientMoves
  <2>4. daemon'[c].state = "starting"
    BY <1>1, <1>2 DEF Spawn, Functions
  <2>5. daemon'[c] # NoDaemon
    BY <2>4 DEF NoDaemon
  <2>6. Spawned(c)'
    BY <1>2, SpawnStep DEF CommandInv
  <2>7. daemon'[c].cfg["database"] = Load(inv[c].src)["database"]
    BY <2>1, <2>2, <2>5, <2>6 DEF Spawned, Cfg, Keys, Words
  <2>8. Load(inv[c].src)["database"] \in Databases
    BY <2>2 DEF Databases
  <2>9. snap[c] = None /\ cache[c] = {}
    BY <1>1, <2>1 DEF DaemonInv, NoDaemon
  <2>10. pc'[c] = "ready"
    BY <1>1, <2>1 DEF Functions
  <2>11. DaemonInv(c)'
    BY <2>1, <2>4, <2>5, <2>7, <2>8, <2>9, <2>10 DEF DaemonInv
  <2> QED BY <2>3, <2>11
<1>3. CASE Serve(c)
  <2>1. /\ daemon' = [daemon EXCEPT ![c].state = "serving"] /\ daemon[c].state = "starting"
        /\ UNCHANGED <<pc, inv, exit, req, answer>>
    BY <1>3 DEF Serve, clientVars, reqVars
  <2>2. daemon'[c].state = "serving" /\ daemon'[c].cfg = daemon[c].cfg /\ daemon[c] # NoDaemon
    <3>1. daemon[c] # NoDaemon
      BY <2>1 DEF NoDaemon
    <3> QED BY <2>1, <3>1, StateChange
  <2>3. ClientInv(c)'
    BY <1>1, <2>1 DEF ClientInv
  <2>4. DaemonInv(c)'
    BY <1>1, <2>1, <2>2 DEF DaemonInv
  <2> QED BY <2>3, <2>4
<1>4. ASSUME Gone(c), daemon[c] # NoDaemon, pc'[c] \in {pc[c], "exited"} PROVE DaemonInv(c)'
  <2>1. /\ daemon'[c].state = "gone" /\ daemon'[c].cfg = daemon[c].cfg
        /\ snap'[c] = None /\ cache'[c] = {}
    BY <1>4, GoneEffect
  <2> QED BY <1>1, <1>4, <2>1 DEF DaemonInv
<1>5. ASSUME Gone(c)
      PROVE  answer' = answer /\ (req'[c] = req[c] \/ (req[c] = "queued" /\ req'[c] = "dropped"))
  BY <1>5, GoneEffect
<1>6. ExitOK \in 0..3 /\ ExitOperational \in 0..3 /\ ExitOperational # ExitOK
  BY DEF ExitOK, ExitOperational
<1>7. CASE NotReady(c)
  <2>1. Gone(c) /\ Exit(c, ExitOperational) /\ inv' = inv /\ pc[c] = "ready"
    BY <1>7 DEF NotReady
  <2>2. inv[c] # None /\ daemon[c] # NoDaemon /\ pc'[c] = "exited"
    BY <1>1, <2>1 DEF ClientInv, CommandInv, Begun, Exit, Functions
  <2> QED BY <1>4, <1>5, <1>6, <2>1, <2>2, ClientExits
<1>8. CASE Dies(c)
  <2>1. Gone(c) /\ inv' = inv /\ daemon[c].state # "none"
    BY <1>8 DEF Dies, Alive
  <2>2. daemon[c] # NoDaemon /\ pc[c] # "new" /\ inv[c] # None
    <3>1. daemon[c] # NoDaemon
      BY <2>1 DEF NoDaemon
    <3> QED BY <1>1, <3>1 DEF CommandInv, ClientInv
  <2>3. CASE pc[c] = "daemon"
    <3>1. PICK code \in {ExitOK, ExitOperational} : Exit(c, code)
      BY <1>8, <2>3 DEF Dies
    <3>2. inv[c].op = "daemon"
      BY <1>1, <2>3 DEF ClientInv
    <3>3. pc'[c] = "exited"
      BY <1>1, <3>1 DEF Exit, Functions
    <3> QED BY <1>4, <1>5, <1>6, <2>1, <2>2, <3>1, <3>2, <3>3, ClientExits
  <2>4. CASE pc[c] # "daemon"
    <3>1. pc' = pc /\ exit' = exit
      BY <1>8, <2>4 DEF Dies
    <3>2. ClientInv(c)'
      BY <1>1, <1>5, <2>1, <3>1 DEF ClientInv
    <3> QED BY <1>4, <2>1, <2>2, <3>1, <3>2
  <2> QED BY <2>3, <2>4
<1> QED BY <1>2, <1>3, <1>7, <1>8

\* What a handler does: the database it answers from grows, the answer is true
\* of it, and nothing else changes.
Answers(c) ==
  LET f == daemon[at[c]].cfg["database"]
  IN  /\ req[c] = "queued" /\ req'[c] = "served" /\ f \in Databases /\ db[f] \in Database
      /\ db' = [db EXCEPT ![f] = db'[f]]
      /\ \E reply : /\ Kept(c, db[f], db'[f], reply)
                    /\ answer'[c].version = reply.version
                    /\ answer'[c].status = reply.status
                       \/ (inv[c].op = "disable" /\ answer'[c].status = "internal")

\* A handler is asked of a database that the daemon has opened.
LEMMA HandleAnswers ==
  ASSUME IInv, RunInv, NEW c \in Commands, Handle(c)
  PROVE  Answers(c)
<1> DEFINE f == daemon[at[c]].cfg["database"]
           h == Handled(c, db[f])
<1>1. /\ req[c] = "queued" /\ db' = [db EXCEPT ![f] = h[1]]
      /\ req'[c] = "served" /\ answer = [e \in Commands |-> answer[e]]
  BY DEF Handle, IInv, Functions
<1>2. PICK status \in {h[2].status} \cup (IF inv[c].op = "disable" THEN {"internal"} ELSE {}) :
        answer' = [answer EXCEPT ![c] = [h[2] EXCEPT !.status = status]]
  BY DEF Handle
<1>3. at[c] \in Commands /\ daemon[at[c]] # NoDaemon
  BY <1>1 DEF RunInv, LinkInv
<1>4. f \in Databases /\ db \in [Databases -> Database]
  BY <1>3 DEF RunInv, DaemonInv, MoreFunctions
<1>5. db[f] \in Database /\ CommandInv(c) /\ req[c] # "none"
  BY <1>1, <1>4 DEF IInv
<1> HIDE DEF f
<1>6. Kept(c, db[f], h[1], h[2])
  BY <1>5, HandlerKeeps
<1>7. h[2] = Reply(h[2].status, h[2].version)
  BY <1>6 DEF Kept
<1> HIDE DEF h
<1>8. db'[f] = h[1]
  BY <1>1, <1>4
<1>9. answer'[c] = [h[2] EXCEPT !.status = status]
  BY <1>1, <1>2
<1>10. answer'[c] = Reply(status, h[2].version)
  BY <1>7, <1>9 DEF Reply
<1>11. answer'[c].status = status /\ answer'[c].version = h[2].version
  BY <1>10 DEF Reply
<1>12. status = h[2].status \/ (inv[c].op = "disable" /\ status = "internal")
  BY <1>2
<1> QED BY <1>1, <1>4, <1>5, <1>6, <1>8, <1>11, <1>12 DEF Answers, f

\* A request ends, or the scheduler reads: the command's own place.
LEMMA AnswerKeeps ==
  ASSUME IInv, RunInv, NEW c \in Commands,
         \/ Handle(c) \/ HandlerFails(c) \/ Cancelled(c)
         \/ LoadActions(c) \/ \E n \in Names : CacheGet(c, n)
  PROVE  ClientInv(c)' /\ DaemonInv(c)'
<1>1. ClientInv(c) /\ DaemonInv(c) /\ Functions
  BY DEF IInv, RunInv
<1>2. pc' = pc /\ inv' = inv /\ exit' = exit /\ daemon' = daemon
  BY DEF Handle, HandlerFails, Cancelled, LoadActions, CacheGet, clientVars
<1>3. CASE LoadActions(c) \/ \E n \in Names : CacheGet(c, n)
  <2>1. daemon[c].state = "serving" /\ req' = req /\ answer' = answer
    BY <1>3 DEF LoadActions, CacheGet, reqVars
  <2> QED BY <1>1, <1>2, <2>1 DEF ClientInv, DaemonInv
<1>4. CASE Handle(c) \/ HandlerFails(c) \/ Cancelled(c)
  <2>1. snap' = snap /\ cache' = cache /\ req[c] = "queued"
    BY <1>4 DEF Handle, HandlerFails, Cancelled, schedVars
  <2>2. DaemonInv(c)'
    BY <1>1, <1>2, <2>1 DEF DaemonInv
  <2>3. answer[c].status # "ok" /\ pc[c] \in {"await", "exited"}
    BY <1>1, <2>1 DEF ClientInv, NoAnswer
  <2>4. /\ req'[c] \in {"served", "dropped"}
        /\ req'[c] = "dropped" => answer'[c] = answer[c]
        /\ answer'[c].status \in {"none", "ok", "invalid", "not_found", "internal"}
    <3>1. CASE Handle(c)
      <4>1. Answers(c)
        BY <3>1, HandleAnswers
      <4> QED BY <4>1 DEF Answers, Kept
    <3>2. CASE HandlerFails(c)
      <4>1. req'[c] = "served" /\ answer'[c] = Reply("internal", 0)
        BY <1>1, <3>2 DEF HandlerFails, Functions
      <4> QED BY <4>1 DEF Reply
    <3>3. CASE Cancelled(c)
      BY <1>1, <3>3 DEF Cancelled, Functions, ClientInv
    <3> QED BY <1>4, <3>1, <3>2, <3>3
  <2>5. ClientInv(c)'
    BY <1>1, <1>2, <2>1, <2>3, <2>4 DEF ClientInv
  <2> QED BY <2>2, <2>5
<1> QED BY <1>3, <1>4

\* A path leads to one daemon, which serves.
LEMMA SocketStep ==
  ASSUME IInv, RunInv, NEW c \in Commands, Step(c)
  PROVE  SocketInv'
<1>1. SocketInv
  BY DEF RunInv
<1>2. \/ socket' \subseteq socket /\ (Gone(c) => \A s \in socket' : s[2] # c)
      \/ /\ Serve(c) /\ daemon'[c].state = "serving"
         /\ socket' = {s \in socket : s[1] # daemon[c].cfg["socket"]}
                        \cup {<<daemon[c].cfg["socket"], c>>}
  <2>1. ASSUME Gone(c) PROVE socket' \subseteq socket /\ \A s \in socket' : s[2] # c
    BY <2>1 DEF Gone
  <2>2. CASE NotReady(c) \/ Dies(c)
    BY <2>1, <2>2 DEF NotReady, Dies
  <2>3. CASE Serve(c)
    <3>1. daemon' = [daemon EXCEPT ![c].state = "serving"]
      BY <2>3 DEF Serve
    <3>2. daemon'[c].state = "serving"
      BY <3>1, StateChange
    <3> QED BY <2>3, <3>2 DEF Serve
  <2>4. \/ NotReady(c) \/ Dies(c) \/ Serve(c) \/ socket' \subseteq socket
    BY DEF Step, Begin, AcquireStartLock, Probe, Spawn, WaitReady, LoadActions, CacheGet, Request,
       Handle, HandlerFails, Cancelled, Answered, Unanswered
  <2> QED BY <2>1, <2>2, <2>3, <2>4
<1>3. ASSUME NEW s \in socket', s \in socket PROVE s[2] \in Commands /\ daemon'[s[2]].state = "serving"
  <2>1. s[2] \in Commands /\ daemon[s[2]].state = "serving"
    BY <1>1, <1>3 DEF SocketInv
  <2>2. ~(s[2] = c /\ Gone(c))
    <3>1. CASE Serve(c)
      BY <2>1, <3>1 DEF Serve
    <3> QED BY <1>2, <1>3, <3>1
  <2> QED BY <2>1, <2>2, ServingStays
<1>4. CASE socket' \subseteq socket
  BY <1>1, <1>3, <1>4 DEF SocketInv
<1>5. CASE /\ Serve(c) /\ daemon'[c].state = "serving"
           /\ socket' = {s \in socket : s[1] # daemon[c].cfg["socket"]}
                          \cup {<<daemon[c].cfg["socket"], c>>}
  <2> DEFINE new == <<daemon[c].cfg["socket"], c>>
  <2>1. new[2] = c /\ new[1] = daemon[c].cfg["socket"]
    OBVIOUS
  <2> HIDE DEF new
  <2>2. \A s \in socket' : s = new \/ (s \in socket /\ s[1] # new[1])
    BY <1>5, <2>1 DEF new
  <2>3. \A s \in socket' : s[2] \in Commands /\ daemon'[s[2]].state = "serving"
    BY <1>3, <1>5, <2>1, <2>2
  <2>4. \A s, t \in socket' : s[1] = t[1] => s = t
    BY <1>1, <2>2 DEF SocketInv
  <2> QED BY <2>3, <2>4 DEF SocketInv
<1> QED BY <1>2, <1>4, <1>5

\* Every database stays one, and only grows.
LEMMA DatabasesGrow ==
  ASSUME IInv, RunInv, NEW c \in Commands, Step(c)
  PROVE  db' \in [Databases -> Database] /\ \A f \in Databases : Grown(db[f], db'[f])
<1>1. db \in [Databases -> Database]
  BY DEF RunInv, MoreFunctions
<1>2. CASE db' = db
  BY <1>1, <1>2 DEF Grown, Extends
<1>3. CASE Handle(c)
  <2> DEFINE f == daemon[at[c]].cfg["database"]
  <2>1. Answers(c)
    BY <1>3, HandleAnswers
  <2>2. PICK reply : Kept(c, db[f], db'[f], reply)
    BY <2>1 DEF Answers
  <2>3. f \in Databases /\ db'[f] \in Database /\ Grown(db[f], db'[f])
    BY <2>1, <2>2 DEF Answers, Kept
  <2>4. db' = [db EXCEPT ![f] = db'[f]]
    BY <2>1 DEF Answers
  <2> HIDE DEF f
  <2>5. \A g \in Databases \ {f} : db'[g] = db[g]
    BY <1>1, <2>4
  <2>6. db' \in [Databases -> Database]
    <3> DEFINE D == db'[f]
    <3>1. db' = [db EXCEPT ![f] = D] /\ D \in Database
      BY <2>3, <2>4
    <3> HIDE DEF D
    <3> QED BY <1>1, <3>1
  <2>7. \A g : Grown(g, g)
    BY DEF Grown, Extends
  <2> QED BY <2>3, <2>5, <2>6, <2>7
<1>4. Handle(c) \/ db' = db
  BY DEF Step, Begin, AcquireStartLock, Probe, Spawn, WaitReady, NotReady, Serve, Dies, LoadActions,
     CacheGet, Request, HandlerFails, Cancelled, Answered, Unanswered
<1> QED BY <1>2, <1>3, <1>4

\* Every step of a command keeps the invariant.
LEMMA RunStep ==
  ASSUME IInv, RunInv, NEW c \in Commands, Step(c)
  PROVE  RunInv'
<1>1. ClientInv(c)' /\ DaemonInv(c)'
  <2>1. CASE \E i \in Invocations : Begin(c, i)
    BY <2>1, BeginKeeps
  <2>2. CASE \/ AcquireStartLock(c) \/ Probe(c) \/ WaitReady(c) \/ Request(c)
             \/ Answered(c) \/ Unanswered(c)
    BY <2>2, EnsureKeeps
  <2>3. CASE Spawn(c) \/ Serve(c) \/ NotReady(c) \/ Dies(c)
    BY <2>3, DaemonKeeps
  <2>4. CASE \/ Handle(c) \/ HandlerFails(c) \/ Cancelled(c)
             \/ LoadActions(c) \/ \E n \in Names : CacheGet(c, n)
    BY <2>4, AnswerKeeps
  <2> QED BY <2>1, <2>2, <2>3, <2>4 DEF Step
<1>2. \A e \in Commands : ClientInv(e)' /\ DaemonInv(e)'
  BY <1>1, OthersStay
<1>3. \A e \in Commands : LinkInv(e)'
  BY LinkStep
<1>4. SocketInv'
  BY SocketStep
<1>5. MoreFunctions'
  BY StepFrame, DatabasesGrow DEF MoreFunctions
<1> QED BY <1>2, <1>3, <1>4, <1>5 DEF RunInv

\* The invariant holds at the start.
LEMMA InitRunInv == Init => RunInv
<1> SUFFICES ASSUME Init PROVE RunInv
  OBVIOUS
<1> DEFINE empty == [versions |-> [n \in Names |-> <<>>], messages |-> {}]
<1>1. empty \in Database
  <2>1. <<>> \in Registry
    BY DEF Registry
  <2> QED BY <2>1 DEF Database
<1>2. db \in [Databases -> Database]
  <2>1. db = [f \in Databases |-> empty]
    BY DEF Init
  <2> HIDE DEF empty
  <2> QED BY <1>1, <2>1
<1>3. MoreFunctions
  BY <1>2 DEF Init, InitProcesses, MoreFunctions
<1>4. SocketInv
  BY DEF Init, InitProcesses, SocketInv
<1>5. ASSUME NEW c \in Commands PROVE ClientInv(c) /\ DaemonInv(c) /\ LinkInv(c)
  <2>1. ExitOK # None
    BY CodesAreSome
  <2>2. ClientInv(c)
    BY <2>1 DEF Init, InitProcesses, ClientInv, NoAnswer
  <2>3. DaemonInv(c)
    BY DEF Init, InitProcesses, DaemonInv, NoDaemon
  <2>4. LinkInv(c)
    BY DEF Init, InitProcesses, LinkInv
  <2> QED BY <2>2, <2>3, <2>4
<1> QED BY <1>3, <1>4, <1>5 DEF RunInv

\* Stuttering steps keep it as well.
LEMMA NextRunInv == IInv /\ RunInv /\ [Next]_vars => RunInv'
<1> SUFFICES ASSUME IInv, RunInv, [Next]_vars PROVE RunInv'
  OBVIOUS
<1>1. CASE UNCHANGED vars
  <2>1. UNCHANGED <<pc, inv, exit, daemon, socket, db, req, at, answer, snap, cache>>
    BY <1>1 DEF vars, clientVars, reqVars, schedVars
  <2>2. MoreFunctions' /\ SocketInv'
    BY <2>1 DEF RunInv, MoreFunctions, SocketInv
  <2>3. ASSUME NEW c \in Commands PROVE ClientInv(c)' /\ DaemonInv(c)' /\ LinkInv(c)'
    BY <2>1, <2>3 DEF RunInv, ClientInv, DaemonInv, LinkInv
  <2> QED BY <2>2, <2>3 DEF RunInv
<1>2. CASE Next
  <2>1. PICK c \in Commands : Step(c)
    BY <1>2 DEF Next, Step
  <2> QED BY <2>1, RunStep
<1> QED BY <1>1, <1>2

\* In every behaviour, whatever commands there are, every variable keeps its type,
\* a request waits only at a daemon that serves, and a path leads to one daemon at
\* most.
THEOREM CommandTyped == Spec => []TypeOK
<1>1. IInv /\ RunInv => TypeOK
  <2> SUFFICES ASSUME IInv, RunInv PROVE TypeOK
    OBVIOUS
  <2>1. ASSUME NEW c \in Commands PROVE inv[c] # None => inv[c] \in Invocations
    BY <2>1 DEF IInv, CommandInv, Begun, RunInv, ClientInv
  <2>2. db \in [Databases -> Database] /\ SocketInv
    BY DEF RunInv, MoreFunctions
  <2>3. \A f \in Databases : db[f].messages \subseteq Commands
    BY <2>2 DEF Database
  <2>4. \A V \in Versions : V \in Registry
    BY <2>2 DEF Versions, Database
  <2>5. \A V \in Versions : \A k \in DOMAIN V : V[k].enabled \in BOOLEAN
    <3> SUFFICES ASSUME NEW V \in Versions, NEW k \in DOMAIN V PROVE V[k].enabled \in BOOLEAN
      OBVIOUS
    <3>1. V \in Seq(Row)
      BY <2>4 DEF Registry
    <3>2. V[k] \in Row
      BY <3>1
    <3> QED BY <3>2 DEF Row
  <2>6. \A c \in Commands : ClientInv(c) /\ DaemonInv(c) /\ LinkInv(c)
    BY DEF RunInv
  <2>7. ASSUME NEW c \in Commands
        PROVE  /\ daemon[c].state \in {"none", "starting", "serving", "gone"}
               /\ (at[c] = None) = (req[c] = "none")
               /\ at[c] # None => at[c] \in Commands
               /\ req[c] = "queued" => daemon[at[c]].state = "serving"
    BY <2>6 DEF DaemonInv, LinkInv
  <2>8. ASSUME NEW c \in Commands
        PROVE  /\ pc[c] \in {"new", "lock", "request", "await", "daemon", "exited"} \cup Ensuring
               /\ (inv[c] = None) = (pc[c] = "new")
               /\ (exit[c] # None) = (pc[c] = "exited")
               /\ exit[c] # None => exit[c] \in 0..3
               /\ req[c] \in {"none", "queued", "served", "dropped"}
               /\ answer[c].status \in {"none", "ok", "invalid", "not_found", "internal"}
    BY <2>6 DEF ClientInv
  <2> QED BY <2>1, <2>2, <2>3, <2>5, <2>7, <2>8 DEF TypeOK, SocketInv
<1> QED BY <1>1, InitIInv, NextIInv, InitRunInv, NextRunInv, PTL DEF Spec

\* In every behaviour, no two neighbouring versions of an action differ only in
\* what formatting leaves open: applying a definition again, as a file or over
\* the socket, adds no version (ApplyAction, Canonical).
THEOREM ReapplyAddsNothing == Spec => []ReapplyIsNoOp
<1>1. RunInv => ReapplyIsNoOp
  <2> SUFFICES ASSUME RunInv, NEW V \in Versions, NEW k \in 2..Len(V)
               PROVE  Bare(V[k].def) # Bare(V[k - 1].def)
    BY DEF ReapplyIsNoOp
  <2>1. V \in Registry
    <3>1. db \in [Databases -> Database]
      BY DEF RunInv, MoreFunctions
    <3> QED BY <3>1 DEF Versions, Database
  <2>2. V \in Seq(Row) /\ V[k].def # V[k - 1].def
    BY <2>1 DEF Registry
  <2>3. k \in 1..Len(V) /\ k - 1 \in 1..Len(V)
    BY <2>2
  <2>4. V[k] \in Row /\ V[k - 1] \in Row
    BY <2>2, <2>3
  <2>5. V[k].def \in StoredDef /\ V[k - 1].def \in StoredDef
    BY <2>4 DEF Row
  <2> QED BY <2>2, <2>5, StoredIsBare
<1> QED BY <1>1, InitIInv, NextIInv, InitRunInv, NextRunInv, PTL DEF Spec

-----------------------------------------------------------------------------
(* What answers, snapshots and programs say of the databases.              *)

FileOf(c) == daemon[at[c]].cfg["database"]

\* What a daemon answered is true of its database.
PromiseInv(c) ==
  answer[c].status = "ok" => PromisedIn(c, db[FileOf(c)], answer[c].version)

\* What a scheduler has loaded or compiled is what its database has under that version.
MemoryInv(d) ==
  LET V == db[daemon[d].cfg["database"]].versions
  IN  /\ snap[d] # None =>
           \A n \in DOMAIN snap[d] :
             /\ n \in Names /\ snap[d][n].version \in DOMAIN V[n]
             /\ V[n][snap[d][n].version].def = snap[d][n].def
      /\ \A e \in cache[d] :
           /\ e.name \in Names /\ e.version \in DOMAIN V[e.name]
           /\ e.programs = Compile(V[e.name][e.version].def)

\* No request has asked the daemons of a database to enable an action.
NobodyEnables(f, n) ==
  \A e \in Commands :
    req[e] # "none" /\ FileOf(e) = f => inv[e].op # "enable" \/ inv[e].name # n

OffInv(c) ==
  /\ answer[c].status = "ok" /\ inv[c].op = "disable" /\ NobodyEnables(FileOf(c), inv[c].name)
  => ~Current(db[FileOf(c)].versions[inv[c].name]).enabled

DataInv == \A c \in Commands : PromiseInv(c) /\ MemoryInv(c) /\ OffInv(c)

\* A request stays the one that was made, to the database of its daemon.
LEMMA RequestStays ==
  ASSUME IInv, RunInv, NEW c \in Commands, Step(c), NEW e \in Commands, req[e] # "none"
  PROVE  /\ FileOf(e)' = FileOf(e) /\ FileOf(e) \in Databases
         /\ inv'[e] = inv[e] /\ req'[e] # "none"
<1>1. at[e] \in Commands /\ daemon[at[e]] # NoDaemon /\ DaemonInv(at[e]) /\ ClientInv(e)
  BY DEF RunInv, LinkInv
<1>2. pc[e] \in {"await", "exited"}
  BY <1>1 DEF ClientInv
<1>3. at'[e] = at[e] /\ req'[e] # "none"
  <2>1. ~(e = c /\ Request(c))
    BY <1>2 DEF Request
  <2> QED BY <2>1, RequestMoves
<1>4. daemon'[at[e]].cfg = daemon[at[e]].cfg
  BY <1>1, DaemonsKeep
<1>5. inv'[e] = inv[e]
  <2>1. CASE e # c
    <3>1. Frame(e)
      BY <2>1, FunctionsStep DEF Step
    <3> QED BY <3>1 DEF Frame
  <2>2. CASE e = c
    BY <1>2, <2>2 DEF Step, Begin, AcquireStartLock, Probe, Spawn, WaitReady, NotReady, Serve,
       Dies, LoadActions, CacheGet, Request, Handle, HandlerFails, Cancelled, Answered, Unanswered,
       clientVars
  <2> QED BY <2>1, <2>2
<1> QED BY <1>1, <1>3, <1>4, <1>5 DEF FileOf, DaemonInv

\* An answer, once given, stays.
LEMMA AnswerStays ==
  ASSUME IInv, RunInv, NEW c \in Commands, Step(c), NEW e \in Commands, answer'[e].status = "ok"
  PROVE  \/ e = c /\ Handle(c)
         \/ req[e] # "none" /\ answer'[e] = answer[e]
<1>1. ClientInv(e) /\ Functions
  BY DEF RunInv, IInv
<1>2. ASSUME answer'[e] = answer[e] PROVE req[e] # "none"
  BY <1>1, <1>2 DEF ClientInv, NoAnswer
<1>3. CASE e # c
  <2>1. Frame(e)
    BY <1>3, FunctionsStep DEF Step
  <2> QED BY <1>2, <2>1 DEF Frame
<1>4. CASE HandlerFails(c) /\ e = c
  <2>1. answer'[c] = Reply("internal", 0)
    BY <1>1, <1>4 DEF HandlerFails, Functions
  <2> QED BY <1>4, <2>1 DEF Reply
<1>5. CASE answer' = answer
  BY <1>2, <1>5
<1>6. Handle(c) \/ HandlerFails(c) \/ answer' = answer
  BY DEF Step, Begin, AcquireStartLock, Probe, Spawn, WaitReady, NotReady, Serve, Dies, Gone,
     LoadActions, CacheGet, Request, Cancelled, Answered, Unanswered, reqVars
<1> QED BY <1>3, <1>4, <1>5, <1>6

\* A promise is kept through every step.
LEMMA PromiseStep ==
  ASSUME IInv, RunInv, DataInv, NEW c \in Commands, Step(c), NEW e \in Commands
  PROVE  PromiseInv(e)'
<1> SUFFICES ASSUME answer'[e].status = "ok"
             PROVE  PromisedIn(e, db[FileOf(e)], answer[e].version)'
  BY DEF PromiseInv
<1>1. CASE e = c /\ Handle(c)
  <2> DEFINE f == FileOf(c)
  <2>1. Answers(c)
    BY <1>1, HandleAnswers
  <2>2. PICK reply : /\ Kept(c, db[f], db'[f], reply)
                     /\ answer'[c].version = reply.version
                     /\ answer'[c].status = reply.status
                        \/ (inv[c].op = "disable" /\ answer'[c].status = "internal")
    BY <2>1 DEF Answers, FileOf
  <2>3. PromisedIn(c, db'[f], answer'[c].version)
    BY <1>1, <2>2 DEF Kept
  <2>4. f' = f /\ inv'[c] = inv[c]
    BY <2>1, RequestStays DEF Answers
  <2> HIDE DEF f
  <2> QED BY <1>1, <2>3, <2>4 DEF PromisedIn, f
<1>2. CASE req[e] # "none" /\ answer'[e] = answer[e]
  <2>1. FileOf(e)' = FileOf(e) /\ FileOf(e) \in Databases /\ inv'[e] = inv[e]
    BY <1>2, RequestStays
  <2>2. PromisedIn(e, db[FileOf(e)], answer[e].version)
    BY <1>2 DEF DataInv, PromiseInv
  <2>3. PromisedIn(e, db'[FileOf(e)], answer[e].version)
    BY <2>1, <2>2, DatabasesGrow, PromiseLasts
  <2>4. PromisedIn(e, db'[FileOf(e)'], answer'[e].version)
    BY <1>2, <2>1, <2>3
  <2> QED BY <2>1, <2>4 DEF PromisedIn
<1> QED BY <1>1, <1>2, AnswerStays

\* What a scheduler has in memory stays true of its database.
LEMMA MemoryStep ==
  ASSUME IInv, RunInv, DataInv, NEW c \in Commands, Step(c), NEW d \in Commands
  PROVE  MemoryInv(d)'
<1> DEFINE f == daemon[d].cfg["database"]
           V == db[f].versions
           W == db'[f].versions
<1>1. MemoryInv(d) /\ DaemonInv(d) /\ MoreFunctions /\ DaemonInv(d)'
  <2>1. RunInv'
    BY RunStep
  <2> QED BY <2>1 DEF DataInv, RunInv
<1>2. CASE daemon'[d].state # "serving"
  BY <1>1, <1>2 DEF DaemonInv, MemoryInv
<1>3. CASE daemon'[d].state = "serving" /\ daemon[d].state # "serving"
  <2>1. snap[d] = None /\ cache[d] = {}
    BY <1>1, <1>3 DEF DaemonInv
  <2>2. snap'[d] = snap[d] /\ cache'[d] = cache[d]
    <3>1. CASE d # c
      BY <3>1, StepFrame
    <3>2. CASE d = c
      <4>1. ~Gone(c)
        BY <1>3, <3>2, GoneEffect
      <4>2. ~LoadActions(c) /\ ~\E n \in Names : CacheGet(c, n)
        BY <1>3, <3>2 DEF LoadActions, CacheGet
      <4> QED BY <3>2, <4>1, <4>2 DEF Step, Begin, AcquireStartLock, Probe, Spawn, WaitReady,
              NotReady, Serve, Dies, Request, Handle, HandlerFails, Cancelled, Answered, Unanswered,
              schedVars
    <3> QED BY <3>1, <3>2
  <2> QED BY <2>1, <2>2 DEF MemoryInv
<1>4. CASE daemon'[d].state = "serving" /\ daemon[d].state = "serving"
  <2>1. daemon[d] # NoDaemon
    BY <1>4 DEF NoDaemon
  <2>2. daemon'[d].cfg = daemon[d].cfg /\ f \in Databases
    BY <1>1, <2>1, DaemonsKeep DEF DaemonInv
  <2>3. Grown(db[f], db'[f]) /\ db[f] \in Database
    BY <1>1, <2>2, DatabasesGrow DEF MoreFunctions
  <2>4. \A n \in Names : Extends(V[n], W[n])
    BY <2>3 DEF Grown
  <2>5. /\ snap[d] # None =>
             \A n \in DOMAIN snap[d] :
               /\ n \in Names /\ snap[d][n].version \in DOMAIN V[n]
               /\ V[n][snap[d][n].version].def = snap[d][n].def
        /\ \A e \in cache[d] :
             /\ e.name \in Names /\ e.version \in DOMAIN V[e.name]
             /\ e.programs = Compile(V[e.name][e.version].def)
    BY <1>1 DEF MemoryInv
  <2> HIDE DEF V, W
  <2>6. /\ snap[d] # None =>
             \A n \in DOMAIN snap[d] :
               /\ n \in Names /\ snap[d][n].version \in DOMAIN W[n]
               /\ W[n][snap[d][n].version].def = snap[d][n].def
        /\ \A e \in cache[d] :
             /\ e.name \in Names /\ e.version \in DOMAIN W[e.name]
             /\ e.programs = Compile(W[e.name][e.version].def)
    BY <2>4, <2>5 DEF Extends
  <2>7. CASE snap'[d] = snap[d] /\ cache'[d] = cache[d]
    BY <2>2, <2>6, <2>7 DEF MemoryInv, W
  <2>8. CASE d = c /\ LoadActions(c)
    <3>1. W = V /\ cache'[d] = cache[d]
      BY <2>8 DEF LoadActions, V, W
    <3>2. snap'[d] = [n \in {m \in Names : V[m] # <<>>} |->
                        [version |-> Len(V[n]), def |-> Current(V[n]).def]]
      BY <1>1, <2>8 DEF LoadActions, MoreFunctions, V
    <3>3. ASSUME NEW n \in DOMAIN snap'[d]
          PROVE  /\ n \in Names /\ snap'[d][n].version \in DOMAIN V[n]
                 /\ V[n][snap'[d][n].version].def = snap'[d][n].def
      <4>1. n \in Names /\ V[n] # <<>>
        BY <3>2, <3>3
      <4>2. snap'[d][n] = [version |-> Len(V[n]), def |-> Current(V[n]).def]
        BY <3>2, <4>1
      <4>3. snap'[d][n].version = Len(V[n]) /\ snap'[d][n].def = V[n][Len(V[n])].def
        BY <4>1, <4>2 DEF Current
      <4>4. V[n] \in Seq(Row)
        BY <2>3, <4>1 DEF Database, Registry, V
      <4>5. Len(V[n]) \in DOMAIN V[n]
        BY <4>1, <4>4, EmptySeq
      <4> QED BY <4>1, <4>3, <4>5
    <3> QED BY <2>2, <2>6, <3>1, <3>3 DEF MemoryInv, W
  <2>9. ASSUME NEW n \in Names, d = c, CacheGet(c, n) PROVE MemoryInv(d)'
    <3> DEFINE new == [name |-> n, version |-> snap[d][n].version,
                       programs |-> Compile(snap[d][n].def)]
    <3>1. snap' = snap /\ snap[d] # None /\ n \in DOMAIN snap[d]
      BY <2>9 DEF CacheGet
    <3>2. cache'[d] = cache[d] \cup {new}
      BY <1>1, <2>9 DEF CacheGet, MoreFunctions
    <3>3. /\ new.name = n /\ new.version = snap[d][n].version
          /\ new.programs = Compile(snap[d][n].def)
      OBVIOUS
    <3> HIDE DEF new
    <3>4. \A e \in cache'[d] :
            /\ e.name \in Names /\ e.version \in DOMAIN W[e.name]
            /\ e.programs = Compile(W[e.name][e.version].def)
      BY <2>6, <3>1, <3>2, <3>3
    <3> QED BY <2>2, <2>6, <3>1, <3>4 DEF MemoryInv, W
  <2>10. CASE Gone(c) /\ d = c
    BY <1>4, <2>10, GoneEffect
  <2>11. \/ snap'[d] = snap[d] /\ cache'[d] = cache[d]
         \/ d = c /\ (LoadActions(c) \/ Gone(c) \/ \E n \in Names : CacheGet(c, n))
    <3>1. CASE d # c
      BY <3>1, StepFrame
    <3>2. CASE d = c
      BY <3>2 DEF Step, Begin, AcquireStartLock, Probe, Spawn, WaitReady,
         NotReady, Serve, Dies, Request, Handle, HandlerFails, Cancelled, Answered, Unanswered,
         schedVars
    <3> QED BY <3>1, <3>2
  <2> QED BY <2>7, <2>8, <2>9, <2>10, <2>11
<1> QED BY <1>2, <1>3, <1>4

\* What was disabled stays so while nobody asks for it.
LEMMA OffStep ==
  ASSUME IInv, RunInv, DataInv, NEW c \in Commands, Step(c), NEW e \in Commands
  PROVE  OffInv(e)'
<1> DEFINE f == FileOf(e)
           n == inv[e].name
<1> SUFFICES ASSUME answer'[e].status = "ok", inv'[e].op = "disable",
                    NobodyEnables(FileOf(e), inv[e].name)'
             PROVE  (~Current(db[FileOf(e)].versions[inv[e].name]).enabled)'
  BY DEF OffInv
<1>1. req[e] # "none"
  BY AnswerStays DEF Handle
<1>2. FileOf(e)' = f /\ f \in Databases /\ inv'[e] = inv[e]
  BY <1>1, RequestStays
<1>3. PromiseInv(e)'
  BY PromiseStep
<1>4. n \in Names
  BY <1>2, <1>3 DEF PromiseInv, PromisedIn
<1> SUFFICES ~Current(db'[f].versions[n]).enabled
  BY <1>2
<1>5. CASE e = c /\ Handle(c)
  <2>1. Answers(c)
    BY <1>5, HandleAnswers
  <2>2. PICK reply : /\ Kept(c, db[f], db'[f], reply)
                     /\ answer'[c].status = reply.status
                        \/ (inv[c].op = "disable" /\ answer'[c].status = "internal")
    BY <1>5, <2>1 DEF Answers, FileOf
  <2> QED BY <1>2, <1>5, <2>2 DEF Kept
<1>6. CASE answer'[e] = answer[e]
  <2>1. NobodyEnables(f, n)
    <3> SUFFICES ASSUME NEW g \in Commands, req[g] # "none", FileOf(g) = f
                 PROVE  inv[g].op # "enable" \/ inv[g].name # n
      BY DEF NobodyEnables
    <3>1. FileOf(g)' = FileOf(g) /\ inv'[g] = inv[g] /\ req'[g] # "none"
      BY RequestStays
    <3> QED BY <1>2, <3>1 DEF NobodyEnables
  <2>2. ~Current(db[f].versions[n]).enabled
    BY <1>2, <1>6, <2>1 DEF DataInv, OffInv
  <2>3. db[f].versions[n] # <<>>
    <3>1. answer[e].version \in DOMAIN db[f].versions[n]
      BY <1>2, <1>6 DEF DataInv, PromiseInv, PromisedIn
    <3> QED BY <3>1
  <2>4. CASE db'[f] = db[f]
    BY <2>2, <2>4
  <2>5. CASE Handle(c) /\ FileOf(c) = f
    <3>1. Answers(c) /\ req[c] # "none"
      BY <2>5, HandleAnswers DEF Answers
    <3>2. PICK reply : Kept(c, db[f], db'[f], reply)
      BY <2>5, <3>1 DEF Answers, FileOf
    <3>3. StaysOff(c, db[f], db'[f])
      BY <3>2 DEF Kept
    <3>4. inv[c].op # "enable" \/ inv[c].name # n
      BY <2>1, <2>5, <3>1 DEF NobodyEnables
    <3> QED BY <1>4, <2>2, <2>3, <3>3, <3>4 DEF StaysOff
  <2>6. db'[f] = db[f] \/ (Handle(c) /\ FileOf(c) = f)
    <3>1. CASE Handle(c)
      <4>1. Answers(c)
        BY <3>1, HandleAnswers
      <4>2. db' = [db EXCEPT ![FileOf(c)] = db'[FileOf(c)]] /\ db \in [Databases -> Database]
        BY <4>1 DEF Answers, FileOf, RunInv, MoreFunctions
      <4> HIDE DEF f
      <4> QED BY <1>2, <3>1, <4>2
    <3>2. CASE ~Handle(c)
      BY <3>2 DEF Step, Begin, AcquireStartLock, Probe, Spawn, WaitReady, NotReady, Serve, Dies,
         LoadActions, CacheGet, Request, HandlerFails, Cancelled, Answered, Unanswered
    <3> QED BY <3>1, <3>2
  <2> QED BY <2>4, <2>5, <2>6
<1> QED BY <1>5, <1>6, AnswerStays

\* What answers, snapshots and programs say is true at the start.
LEMMA InitDataInv == Init => DataInv
<1> SUFFICES ASSUME Init, NEW c \in Commands PROVE PromiseInv(c) /\ MemoryInv(c) /\ OffInv(c)
  BY DEF DataInv
<1>1. answer[c].status # "ok" /\ snap[c] = None /\ cache[c] = {}
  BY DEF Init, InitProcesses, NoAnswer
<1> QED BY <1>1 DEF PromiseInv, MemoryInv, OffInv

\* Every step keeps it.
LEMMA NextDataInv == IInv /\ RunInv /\ DataInv /\ [Next]_vars => DataInv'
<1> SUFFICES ASSUME IInv, RunInv, DataInv, [Next]_vars PROVE DataInv'
  OBVIOUS
<1>1. CASE UNCHANGED vars
  <2>1. UNCHANGED <<pc, inv, exit, daemon, socket, db, req, at, answer, snap, cache>>
    BY <1>1 DEF vars, clientVars, reqVars, schedVars
  <2> QED BY <2>1 DEF DataInv, PromiseInv, PromisedIn, MemoryInv, OffInv, NobodyEnables, FileOf
<1>2. CASE Next
  <2>1. PICK c \in Commands : Step(c)
    BY <1>2 DEF Next, Step
  <2> QED BY <2>1, PromiseStep, MemoryStep, OffStep DEF DataInv
<1> QED BY <1>1, <1>2

\* The inductive invariant of the command, its daemon and the databases: where
\* everybody is, what every request has come to, and what every answer, snapshot
\* and compiled program says of the database behind it.
THEOREM CommandInvHolds == Spec => [](IInv /\ RunInv /\ DataInv)
BY InitIInv, NextIInv, InitRunInv, NextRunInv, InitDataInv, NextDataInv, PTL DEF Spec

\* In every behaviour, exit code 0 is a promise that lasts: whichever daemons come
\* and go and whatever other commands do, the database of the daemon that answered
\* has the message, the definition under the version it reported, or the action
\* (send, actionApply, Client.post).
THEOREM SuccessLasts == Spec => []SuccessIsDurable
<1>1. IInv /\ RunInv /\ DataInv => SuccessIsDurable
  <2> SUFFICES ASSUME RunInv, DataInv PROVE SuccessIsDurable
    OBVIOUS
  <2>1. ASSUME NEW c \in Commands, exit[c] = ExitOK,
               inv[c].op \in {"send", "apply", "post", "enable", "disable", "show"}
        PROVE  at[c] # None /\ PromisedIn(c, db[FileOf(c)], answer[c].version)
    <3>1. ClientInv(c) /\ LinkInv(c) /\ PromiseInv(c)
      BY DEF RunInv, DataInv
    <3>2. answer[c].status = "ok"
      BY <2>1, <3>1 DEF ClientInv
    <3>3. req[c] = "served"
      BY <3>1, <3>2 DEF ClientInv, NoAnswer
    <3> QED BY <3>1, <3>2, <3>3 DEF LinkInv, PromiseInv
  <2> QED BY <2>1 DEF SuccessIsDurable, PromisedIn, FileOf
<1> QED BY <1>1, CommandInvHolds, PTL

\* In every behaviour, a disable that succeeded stays in force through any number
\* of new versions and restarts of the daemon, until somebody asks for an enable
\* (ApplyAction, SetActionEnabled).
THEOREM DisabledStaysOff == Spec => []DisableSticks
<1>1. IInv /\ RunInv /\ DataInv => DisableSticks
  <2> SUFFICES ASSUME RunInv, DataInv, NEW c \in Commands,
                      exit[c] = ExitOK, inv[c].op = "disable",
                      NobodyEnables(FileOf(c), inv[c].name)
               PROVE  ~Current(db[FileOf(c)].versions[inv[c].name]).enabled
    BY DEF DisableSticks, NobodyEnables, FileOf
  <2>1. ClientInv(c) /\ OffInv(c)
    BY DEF RunInv, DataInv
  <2>2. answer[c].status = "ok"
    BY <2>1 DEF ClientInv
  <2> QED BY <2>1, <2>2 DEF OffInv
<1> QED BY <1>1, CommandInvHolds, PTL

\* In every behaviour, the programs that a scheduler keeps under a version are
\* those of the definition that its database has under that version, whichever
\* daemon stored it: an entry never goes stale (Cache.Get, ApplyAction).
THEOREM CacheStaysCoherent == Spec => []CacheCoherent
<1>1. IInv /\ RunInv /\ DataInv => CacheCoherent
  BY DEF DataInv, MemoryInv, CacheCoherent
<1> QED BY <1>1, CommandInvHolds, PTL

=============================================================================
