--------------------------- MODULE ConversionProofs ----------------------------
(***************************************************************************)
(* Theorems about what a conversion comes to and what a command leaves:    *)
(* StepConversion for all documents, any number of conversions and every   *)
(* size of the cache of intents, and CommandLine for all files, names of   *)
(* outputs and contents.                                                   *)
(***************************************************************************)
EXTENDS StepConversion, CommandLine, CommonLemmas

-----------------------------------------------------------------------------
(***************************************************************************)
(* StepConversion                                                          *)
(*                                                                         *)
(* The course of a conversion is a function of its document alone. The     *)
(* invariant says that the running conversion stands on the course of its  *)
(* document, and that each one before it came to what the end of its       *)
(* course says. Two courses of a document agree, which is shown by the     *)
(* least step where they would not: a suite is then a function of its      *)
(* document.                                                               *)
(***************************************************************************)

\* What a conversion has come to, and what one step of the document makes of it: the
\* cache of intents has no part in it.
At(t, l, k) == [todo |-> t, lines |-> l, keywords |-> k]
Now == At(todo, lines, keywords)

Started(d) == At(StepsOf(d), <<d.title>> \o Placeholder(d), <<>>)

Intent(step) == Intents[WordsOf(step)]
KeywordsOf(d, step) ==
    IF IsStructured(step) THEN StructuredKeywords(step)
    ELSE IF Intent(step) = "credential_input" THEN CredentialKeywords
    ELSE <<SingleKeyword(LibraryContext(d), Intent(step), step)>>

Refusal(d, step) ==
    /\ ~IsStructured(step) /\ Intent(step) # "credential_input"
    /\ Intent(step) \in {"db_query", "db_modify"}
    /\ Suggestions(LibraryContext(d), WordsOf(step)) = <<>>
    /\ Dangerous(SqlOf(Intent(step), step))

Over(d, x) == x.todo = <<>> \/ Refusal(d, Head(x.todo))

With(x, generated) ==
    At(Tail(x.todo),
       x.lines \o Comments(Head(x.todo)) \o [i \in DOMAIN generated |-> generated[i].line],
       x.keywords \o generated)
After(d, x) == With(x, KeywordsOf(d, Head(x.todo)))

\* A conversion of d up to its step n.
Course(d, n, c) ==
    /\ n \in Nat
    /\ c[0] = Started(d)
    /\ \A i \in 0..(n - 1) : ~Over(d, c[i]) /\ c[i + 1] = After(d, c[i])

Outcome(d, outcome, imports, ks) ==
    [doc |-> d, outcome |-> outcome, imports |-> imports, keywords |-> ks]

Result(d, x) ==
    IF x.todo = <<>>
       THEN Outcome(d, "suite", LibraryContext(d) \cup LibrariesIn(x.lines, FALSE), x.keywords)
       ELSE Outcome(d, "refused", {}, <<>>)

\* What a conversion of s.doc comes to, whatever was converted before.
IsOutcome(s) ==
    \/ s.doc.templated /\ s = Outcome(s.doc, "from template", {}, <<>>)
    \/ ~s.doc.templated /\ s.doc.tests = <<>> /\ s = Outcome(s.doc, "no tests", {}, <<>>)
    \/ /\ ~s.doc.templated /\ s.doc.tests # <<>>
       /\ \E n, c : Course(s.doc, n, c) /\ Over(s.doc, c[n]) /\ s = Result(s.doc, c[n])

\* The cache holds what would be found for the text again.
IntentsRight(cache) ==
    \E S : cache \in Seq(S) /\ \A e \in S : e.intent = Intents[e.text]

Running ==
    /\ ~doc.templated /\ doc.tests # <<>> /\ context = LibraryContext(doc)
    /\ \E n, c : Course(doc, n, c) /\ c[n] = Now

ConversionInv ==
    /\ phase \in {"idle", "generate"}
    /\ IntentsRight(intents)
    /\ (phase = "generate" => Running)
    /\ \A s \in converted : IsOutcome(s)

-----------------------------------------------------------------------------
(* One course *)

LEMMA CoursesAgree ==
    ASSUME NEW d, NEW n, NEW m, NEW c, NEW e, Course(d, n, c), Course(d, m, e),
           NEW i \in 0..n, i <= m
    PROVE  c[i] = e[i]
<1> SUFFICES ASSUME c[i] # e[i] PROVE FALSE
  OBVIOUS
<1> DEFINE T == {j \in 0..n : j <= m /\ c[j] # e[j]}
<1>1. n \in Nat /\ m \in Nat
  BY DEF Course
<1>2. T \subseteq Nat /\ i \in T
  BY <1>1
<1>3. PICK j \in T : \A k \in T : j <= k
  BY <1>2, Least
<1>4. j \in 0..n /\ j <= m /\ c[j] # e[j]
  BY <1>3
<1>5. j # 0
  BY <1>4 DEF Course
<1>6. j - 1 \in 0..(n - 1) /\ j - 1 \in 0..(m - 1) /\ (j - 1) + 1 = j /\ j - 1 \notin T
  BY <1>1, <1>3, <1>4, <1>5
<1>7. c[j - 1] = e[j - 1]
  BY <1>1, <1>6
<1>8. c[(j - 1) + 1] = After(d, c[j - 1]) /\ e[(j - 1) + 1] = After(d, e[j - 1])
  BY <1>6 DEF Course
<1>9. QED
  BY <1>4, <1>6, <1>7, <1>8

LEMMA CoursesEnd ==
    ASSUME NEW d, NEW n, NEW m, NEW c, NEW e, Course(d, n, c), Course(d, m, e),
           Over(d, c[n]), Over(d, e[m]), n <= m
    PROVE  c[n] = e[m]
<1>1. n \in Nat /\ m \in Nat
  BY DEF Course
<1>2. c[n] = e[n]
  BY <1>1, CoursesAgree
<1>3. n = m
  <2>1. SUFFICES ASSUME n # m PROVE FALSE
    OBVIOUS
  <2>2. n \in 0..(m - 1)
    BY <1>1, <2>1
  <2>3. ~Over(d, e[n])
    BY <2>2 DEF Course
  <2>4. QED
    BY <1>2, <2>3
<1>4. QED
  BY <1>2, <1>3

LEMMA OutcomeIsOne ==
    ASSUME NEW s, NEW t, IsOutcome(s), IsOutcome(t), s.doc = t.doc
    PROVE  s = t
<1>1. CASE s.doc.templated \/ s.doc.tests = <<>>
  BY <1>1 DEF IsOutcome
<1>2. CASE ~s.doc.templated /\ s.doc.tests # <<>>
  <2>1. PICK n, c : Course(s.doc, n, c) /\ Over(s.doc, c[n]) /\ s = Result(s.doc, c[n])
    BY <1>2 DEF IsOutcome
  <2>2. PICK m, e : Course(s.doc, m, e) /\ Over(s.doc, e[m]) /\ t = Result(s.doc, e[m])
    BY <1>2 DEF IsOutcome
  <2>3. n \in Nat /\ m \in Nat
    BY <2>1, <2>2 DEF Course
  <2>4. n <= m \/ m <= n
    BY <2>3
  <2>5. c[n] = e[m]
    BY <2>1, <2>2, <2>4, CoursesEnd
  <2>6. QED
    BY <2>1, <2>2, <2>5
<1>3. QED
  BY <1>1, <1>2

LEMMA CourseGoesOn ==
    ASSUME NEW d, NEW n, NEW c, Course(d, n, c), ~Over(d, c[n])
    PROVE  \E e : Course(d, n + 1, e) /\ e[n + 1] = After(d, c[n])
<1>1. n \in Nat
  BY DEF Course
<1> DEFINE e == [i \in 0..(n + 1) |-> IF i = n + 1 THEN After(d, c[n]) ELSE c[i]]
<1>2. e[n + 1] = After(d, c[n]) /\ \A i \in 0..n : e[i] = c[i]
  BY <1>1
<1> HIDE DEF e
<1>3. e[0] = Started(d)
  BY <1>1, <1>2 DEF Course
<1>4. ASSUME NEW i \in 0..n PROVE ~Over(d, e[i]) /\ e[i + 1] = After(d, e[i])
  <2>1. CASE i = n
    BY <1>1, <1>2, <2>1
  <2>2. CASE i # n
    <3>1. i \in 0..(n - 1) /\ i + 1 \in 0..n
      BY <1>1, <1>4, <2>2
    <3>2. ~Over(d, c[i]) /\ c[i + 1] = After(d, c[i])
      BY <3>1 DEF Course
    <3>3. QED
      BY <1>2, <3>1, <3>2
  <2>3. QED
    BY <2>1, <2>2
<1>5. n + 1 \in Nat /\ (n + 1) - 1 = n
  BY <1>1
<1>6. Course(d, n + 1, e)
  BY <1>3, <1>4, <1>5 DEF Course
<1>7. QED
  BY <1>2, <1>6

-----------------------------------------------------------------------------
(* The cache of intents *)

LEMMA CacheKnows == ASSUME IntentsRight(intents), NEW text PROVE Recognised(text) = Intents[text]
<1>1. CASE Known(text)
  <2> DEFINE k == CHOOSE i \in DOMAIN intents : intents[i].text = text
  <2>1. k \in DOMAIN intents /\ intents[k].text = text
    BY <1>1 DEF Known
  <2>2. PICK S : intents \in Seq(S) /\ \A e \in S : e.intent = Intents[e.text]
    BY DEF IntentsRight
  <2>3. intents[k] \in S
    BY <2>1, <2>2
  <2>4. intents[k].intent = Intents[text]
    BY <2>1, <2>2, <2>3
  <2> HIDE DEF k
  <2>5. Recognised(text) = intents[k].intent
    BY <1>1 DEF Recognised, k
  <2>6. QED
    BY <2>4, <2>5
<1>2. CASE ~Known(text)
  BY <1>2 DEF Recognised
<1>3. QED
  BY <1>1, <1>2

LEMMA RememberRight ==
    ASSUME NEW cache, NEW text, IntentsRight(cache)
    PROVE  IntentsRight(Remember(cache, text))
<1>1. PICK S : cache \in Seq(S) /\ \A e \in S : e.intent = Intents[e.text]
  BY DEF IntentsRight
<1> DEFINE entry == [text |-> text, intent |-> Intents[text]]
           rest == SubSeq(cache, IntentCacheLimit + 1, Len(cache))
<1>2. IntentsRight(Append(cache, entry))
  <2> DEFINE U == S \cup {entry}
  <2>1. \A e \in U : e.intent = Intents[e.text]
    BY <1>1
  <2>2. cache \in Seq(U)
    BY <1>1
  <2>3. Append(cache, entry) \in Seq(U)
    BY <2>2
  <2> HIDE DEF U
  <2>4. QED
    BY <2>1, <2>3 DEF IntentsRight
<1>3. ASSUME ~(Len(cache) < IntentCacheLimit) PROVE IntentsRight(rest)
  <2>1. Len(cache) \in Nat /\ IntentCacheLimit \in Nat
    BY <1>1, ConversionAssumption
  <2>2. \A i \in (IntentCacheLimit + 1)..Len(cache) : cache[i] \in S
    BY <1>1, <2>1
  <2>3. rest \in Seq(S)
    BY <1>1, <1>3, <2>1, <2>2, SubSeqProperties
  <2> HIDE DEF rest
  <2>4. QED
    BY <1>1, <2>3 DEF IntentsRight
<1>4. \/ Remember(cache, text) \in {cache, Append(cache, entry)}
      \/ /\ ~(Len(cache) < IntentCacheLimit)
         /\ Remember(cache, text) = rest
  BY DEF Remember
<1> HIDE DEF rest, entry
<1>5. QED
  BY <1>2, <1>3, <1>4

-----------------------------------------------------------------------------
(* Steps *)

LEMMA ConvertKeeps ==
    ASSUME ConversionInv, NEW d \in Inputs, Convert(d)
    PROVE  ConversionInv'
<1>1. IntentsRight(intents) /\ intents' = intents /\ doc' = d
  BY DEF Convert, ConversionInv
<1>2. CASE d.templated
  <2>1. phase' = "idle" /\ converted' = converted \cup {Outcome(d, "from template", {}, <<>>)}
    BY <1>1, <1>2 DEF Convert, Return, Outcome
  <2>2. IsOutcome(Outcome(d, "from template", {}, <<>>))
    BY <1>2 DEF IsOutcome, Outcome
  <2>3. QED
    BY <1>1, <2>1, <2>2 DEF ConversionInv
<1>3. CASE ~d.templated /\ d.tests = <<>>
  <2>1. phase' = "idle" /\ converted' = converted \cup {Outcome(d, "no tests", {}, <<>>)}
    BY <1>1, <1>3 DEF Convert, Return, Outcome
  <2>2. IsOutcome(Outcome(d, "no tests", {}, <<>>))
    BY <1>3 DEF IsOutcome, Outcome
  <2>3. QED
    BY <1>1, <2>1, <2>2 DEF ConversionInv
<1>4. CASE ~d.templated /\ d.tests # <<>>
  <2>1. /\ phase' = "generate" /\ converted' = converted /\ context' = LibraryContext(d)
        /\ Now' = Started(d)
    BY <1>4 DEF Convert, Now, At, Started
  <2> DEFINE c == [i \in {0} |-> Started(d)]
  <2>2. Course(d, 0, c) /\ c[0] = Now'
    BY <2>1 DEF Course
  <2> HIDE DEF c
  <2>3. Running'
    BY <1>1, <1>4, <2>1, <2>2 DEF Running
  <2>4. QED
    BY <1>1, <2>1, <2>3 DEF ConversionInv
<1>5. QED
  BY <1>2, <1>3, <1>4

\* A step of the document that makes these keywords.
LEMMA EmitKeeps ==
    ASSUME ConversionInv, phase = "generate", todo # <<>>, ~Refusal(doc, Head(todo)),
           Emit(KeywordsOf(doc, Head(todo)), Head(todo)), IntentsRight(intents')
    PROVE  ConversionInv'
<1>1. PICK n, c : Course(doc, n, c) /\ c[n] = Now
  BY DEF ConversionInv, Running
<1>2. ~Over(doc, c[n])
  BY <1>1 DEF Over, Now, At
<1>3. Now' = After(doc, c[n])
  BY <1>1 DEF Now, At, After, With, Emit
<1>4. PICK e : Course(doc, n + 1, e) /\ e[n + 1] = Now'
  BY <1>1, <1>2, <1>3, CourseGoesOn
<1>5. UNCHANGED <<doc, context, phase, converted>>
  BY DEF Emit
<1>6. Running'
  BY <1>4, <1>5 DEF Running, ConversionInv
<1>7. QED
  BY <1>5, <1>6 DEF ConversionInv

LEMMA GenerateKeeps ==
    ASSUME ConversionInv, GenerateMultiple \/ GenerateCredentials \/ GenerateSingle
    PROVE  ConversionInv'
<1>1. IntentsRight(intents) /\ phase = "generate" /\ todo # <<>>
  BY DEF ConversionInv, GenerateMultiple, GenerateCredentials, GenerateSingle, Single
<1> DEFINE step == Head(todo)
<1>2. Recognised(WordsOf(step)) = Intent(step) /\ context = LibraryContext(doc)
  BY <1>1, CacheKnows DEF Intent, ConversionInv, Running
<1>3. IntentsRight(intents')
  BY <1>1, RememberRight
     DEF GenerateMultiple, GenerateCredentials, GenerateSingle, Single
<1>4. ~Refusal(doc, step)
  BY <1>2 DEF GenerateMultiple, GenerateCredentials, GenerateSingle, Single, Refused, Refusal
<1>5. Emit(KeywordsOf(doc, step), step)
  BY <1>2 DEF GenerateMultiple, GenerateCredentials, GenerateSingle, Single, KeywordsOf
<1>6. QED
  BY <1>1, <1>3, <1>4, <1>5, EmitKeeps

LEMMA AbandonKeeps == ASSUME ConversionInv, Abandon PROVE ConversionInv'
<1>1. IntentsRight(intents) /\ phase = "generate" /\ todo # <<>>
  BY DEF ConversionInv, Abandon, Single
<1>2. Recognised(WordsOf(Head(todo))) = Intent(Head(todo)) /\ context = LibraryContext(doc)
  BY <1>1, CacheKnows DEF Intent, ConversionInv, Running
<1>3. IntentsRight(intents')
  BY <1>1, RememberRight DEF Abandon, Single
<1>4. Refusal(doc, Head(todo))
  BY <1>2 DEF Abandon, Single, Refused, Refusal
<1>5. PICK n, c : Course(doc, n, c) /\ c[n] = Now /\ ~doc.templated /\ doc.tests # <<>>
  BY <1>1 DEF ConversionInv, Running
<1>6. Over(doc, c[n]) /\ Result(doc, c[n]) = Outcome(doc, "refused", {}, <<>>)
  BY <1>1, <1>4, <1>5 DEF Over, Result, Now, At
<1>7. IsOutcome(Outcome(doc, "refused", {}, <<>>))
  <2>1. Outcome(doc, "refused", {}, <<>>).doc = doc
    BY DEF Outcome
  <2>2. QED
    BY <1>5, <1>6, <2>1 DEF IsOutcome
<1>8. phase' = "idle" /\ converted' = converted \cup {Outcome(doc, "refused", {}, <<>>)}
  BY DEF Abandon, Return, Outcome
<1>9. QED
  BY <1>3, <1>7, <1>8 DEF ConversionInv

LEMMA FinishKeeps == ASSUME ConversionInv, Finish PROVE ConversionInv'
<1>1. phase = "generate" /\ todo = <<>> /\ intents' = intents
  BY DEF Finish
<1>2. PICK n, c : /\ Course(doc, n, c) /\ c[n] = Now /\ ~doc.templated /\ doc.tests # <<>>
                  /\ context = LibraryContext(doc)
  BY <1>1 DEF ConversionInv, Running
<1>3. Over(doc, c[n]) /\ Result(doc, c[n]) = Outcome(doc, "suite", Imports, keywords)
  BY <1>1, <1>2 DEF Over, Result, Now, At, Imports
<1>4. IsOutcome(Outcome(doc, "suite", Imports, keywords))
  <2>1. Outcome(doc, "suite", Imports, keywords).doc = doc
    BY DEF Outcome
  <2>2. QED
    BY <1>2, <1>3, <2>1 DEF IsOutcome
<1>5. phase' = "idle" /\ converted' = converted \cup {Outcome(doc, "suite", Imports, keywords)}
  BY DEF Finish, Return, Outcome
<1>6. QED
  BY <1>1, <1>4, <1>5 DEF ConversionInv

-----------------------------------------------------------------------------
(* Theorems *)

LEMMA ConversionStart == ConversionInit => ConversionInv
<1> SUFFICES ASSUME ConversionInit PROVE ConversionInv
  OBVIOUS
<1>1. IntentsRight(<<>>)
  <2>1. PICK S : S = {}
    OBVIOUS
  <2>2. <<>> \in Seq(S) /\ \A e \in S : e.intent = Intents[e.text]
    BY <2>1
  <2>3. QED
    BY <2>2 DEF IntentsRight
<1>2. QED
  BY <1>1 DEF ConversionInit, ConversionInv

LEMMA ConversionStep == ConversionInv /\ [ConversionNext]_conversionVars => ConversionInv'
<1> SUFFICES ASSUME ConversionInv, [ConversionNext]_conversionVars PROVE ConversionInv'
  OBVIOUS
<1>1. CASE UNCHANGED conversionVars
  BY <1>1 DEF conversionVars, ConversionInv, Running, Now
<1>2. CASE ConversionNext
  BY <1>2, ConvertKeeps, GenerateKeeps, AbandonKeeps, FinishKeeps DEF ConversionNext
<1>3. QED
  BY <1>1, <1>2

\* A running conversion stands where its document alone has led it, and so did every
\* one before it end: the engine's library context is set anew, and its cache of
\* intents answers as the detection would (GenericConversionEngine.convert).
THEOREM ConversionInvariant == ConversionSpec => []ConversionInv
<1>1. ConversionInit => ConversionInv
  BY ConversionStart
<1>2. ConversionInv /\ [ConversionNext]_conversionVars => ConversionInv'
  BY ConversionStep
<1>3. QED
  BY <1>1, <1>2, PTL DEF ConversionSpec

\* A document comes to the same suite whenever it is converted, for any documents, in
\* any order, with refusals between them, and whatever the size of the cache.
THEOREM ConversionIsFunction == ConversionSpec => []ConversionRepeats
<1>1. ConversionInv => ConversionRepeats
  BY OutcomeIsOne DEF ConversionInv, ConversionRepeats
<1>2. QED
  BY <1>1, ConversionInvariant, PTL

-----------------------------------------------------------------------------
(***************************************************************************)
(* CommandLine                                                             *)
(*                                                                         *)
(* A command empties the file it writes and then fills it, so that the     *)
(* exit status tells what stands under a name only when every other name   *)
(* is settled, and when a command that has written a JSON file to convert  *)
(* it converts that one and nothing else.                                  *)
(***************************************************************************)

Improving == {"suggest", "openImproved", "writeImproved", "backup", "temp"}
Fetching == {"fetch", "openPayload", "writePayload", "meta"}
Converting == {"load", "open", "write"}
Later == {"rest", "list", "load", "suggest"}
Stages == {"list"} \cup Later \cup Improving \cup Fetching \cup Converting

Commands ==
    [at : Stages, after : Later, todo : Seq(JsonFiles), out : SUBSET Stems, content : Contents]

\* A conversion has its files, and suggestions are for one file.
Ready(where, files) ==
    /\ where \in Improving \cup Converting => files # <<>>
    /\ where \in Improving => Head(files) \in Improvable /\ Len(files) = 1

Proper(job) ==
    /\ Ready(job.at, job.todo)
    /\ job.at \in Fetching => Ready(job.after, job.todo)

CommandTypes ==
    /\ json \in [JsonFiles -> Contents]
    /\ robot \in [Stems -> Contents]
    /\ made \in [Stems -> Contents]
    /\ temp \in Contents /\ saves \in 0..MaxSaves
    /\ command \in Commands /\ Proper(command)

\* What stands under a name: what was made for it, or what was there before.
Settled(s) == robot[s] = IF made[s] = NoFile THEN atStart[s] ELSE made[s]

\* Only the output that is being written is not settled.
OutputsKept ==
    /\ ~Stage("rest") => \A s \in Stems : Settled(s) \/ (Stage("write") /\ s = Output)
    /\ Stage("write") => robot[Output] = Broken /\ made[Output] = command.content
    /\ command.at \in {"open", "write"} => Convertible(command.content)

\* A command that has written a JSON file to convert it converts that and nothing else.
OwnKept ==
    /\ own \subseteq JsonFiles \ UserFiles
    /\ command.at \in {"list", "suggest", "openImproved", "writeImproved",
                       "fetch", "openPayload", "writePayload"} => own = {}
    /\ command.at \in Improving \cup Fetching =>
          /\ temp = NoFile
          /\ \A s \in Stems : made[s] = NoFile
    /\ Stage("rest") => temp = NoFile
    /\ command.at \in Improving \ {"suggest"} => command.content # NoFile
    /\ command.at \in {"backup", "temp"} => \A f \in own : json[f] = command.content
    /\ Stage("meta") /\ own # {} =>
          own = {Payload} /\ command.after = "load" /\ command.todo = <<Payload>>
    /\ command.at \in Converting /\ own # {} => Len(command.todo) = 1
    /\ Stage("load") => \A f \in own :
          \/ temp # NoFile /\ temp = json[f]
          \/ temp = NoFile /\ Head(command.todo) = f
    /\ command.at \in {"open", "write"} => \A f \in own : command.content = json[f]
    /\ command.at \in {"load", "open"} /\ own # {} => \A s \in Stems : made[s] = NoFile
    /\ Stage("write") /\ own # {} => \A s \in Stems \ {Output} : made[s] = NoFile

CommandInv == CommandTypes /\ OutputsKept /\ OwnKept /\ ExitTellsOutputs

LEMMA LongTail ==
    ASSUME NEW S, NEW q \in Seq(S), Len(q) > 1
    PROVE  Tail(q) # <<>>
<1> DEFINE t == Tail(q)
<1>1. Len(t) = Len(q) - 1 /\ Len(q) \in Nat
  BY HeadTailProperties
<1> HIDE DEF t
<1>2. Len(t) # 0
  BY <1>1
<1>3. t # <<>>
  BY <1>2, EmptySeq
<1>4. QED
  BY <1>3 DEF t

USE CommandAssumption
USE DEF Improving, Fetching, Converting, Later, Stages

-----------------------------------------------------------------------------
(* Files and contents *)

LEMMA SpecialContents ==
    /\ {NoFile, Broken, NoCases} \subseteq Contents
    /\ NoFile # Broken /\ NoFile # NoCases
    /\ \A n \in 0..MaxSaves, i \in BOOLEAN : Cases(n, i) \in Contents /\ Cases(n, i) # NoFile
    /\ \A c \in Contents : Convertible(c) => c # NoFile /\ c # Broken
  BY DEF NoFile, Broken, NoCases, Cases, Contents, Convertible

LEMMA FilesAre ==
    /\ UserFiles \subseteq JsonFiles /\ Payload \in JsonFiles /\ Meta \in JsonFiles
    /\ \A f \in Improvable : f \in JsonFiles /\ ImprovedOf[f] \in JsonFiles \ UserFiles
    /\ \A f \in JsonFiles : Stem[f] \in Stems
    /\ {Payload, Meta} \cap UserFiles = {}
    /\ IsFiniteSet(JsonFiles)
<1>1. IsFiniteSet({ImprovedOf[f] : f \in Improvable})
  <2> DEFINE T == {ImprovedOf[f] : f \in Improvable}
             g == [f \in Improvable |-> ImprovedOf[f]]
  <2>1. g \in Surjection(Improvable, T)
    BY DEF Surjection
  <2>2. IsFiniteSet(Improvable)
    BY FS_Singleton, FS_Union DEF Improvable
  <2>3. QED
    BY <2>1, <2>2, FS_Surjection
<1>2. IsFiniteSet({Payload, Meta})
  <2>1. IsFiniteSet({Payload}) /\ IsFiniteSet({Meta})
    BY FS_Singleton
  <2>2. IsFiniteSet({Payload} \cup {Meta})
    BY <2>1, FS_Union
  <2>3. {Payload, Meta} = {Payload} \cup {Meta}
    OBVIOUS
  <2>4. QED
    BY <2>2, <2>3
<1>3. IsFiniteSet(JsonFiles)
  BY <1>1, <1>2, FS_Union DEF JsonFiles
<1>4. QED
  BY <1>3 DEF JsonFiles, Stems, Improvable

LEMMA OutputIsStem == ASSUME CommandTypes, command.at \in Converting PROVE Output \in Stems
<1>1. CASE command.out = {}
  <2>1. Head(command.todo) \in JsonFiles
    BY DEF CommandTypes, Commands, Proper, Ready
  <2>2. QED
    BY <1>1, <2>1, FilesAre DEF Output
<1>2. CASE command.out # {}
  BY <1>2 DEF Output, CommandTypes, Commands
<1>3. QED
  BY <1>1, <1>2

LEMMA InputIsContent == ASSUME CommandTypes, command.at \in Converting PROVE Input \in Contents
<1>1. Head(command.todo) \in JsonFiles
  BY DEF CommandTypes, Commands, Proper, Ready
<1>2. QED
  BY <1>1 DEF Input, CommandTypes

-----------------------------------------------------------------------------
(* Types *)

\* A step further: of the same part of the command, or to what follows a fetch.
Follows(where) ==
    \/ where \in Improving /\ command.at \in Improving
    \/ where \in Fetching /\ command.at \in Fetching
    \/ where \in Converting /\ command.at \in Improving \cup Converting
    \/ where = command.after /\ command.at \in Fetching

LEMMA IntoTypes ==
    ASSUME CommandTypes, NEW where \in Stages, NEW c \in Contents, Follows(where),
           command' = [[command EXCEPT !.at = where] EXCEPT !.content = c]
    PROVE  /\ command' \in Commands /\ Proper(command')
           /\ command'.at = where /\ command'.after = command.after
           /\ command'.todo = command.todo
           /\ command'.out = command.out /\ command'.content = c
<1>1. command \in Commands
  BY DEF CommandTypes
<1>2. command' = [at |-> where, after |-> command.after, todo |-> command.todo,
                  out |-> command.out, content |-> c]
  BY <1>1 DEF Commands
<1>3. command' \in Commands
  BY <1>1, <1>2 DEF Commands
<1>4. /\ command'.at = where /\ command'.after = command.after
      /\ command'.todo = command.todo
      /\ command'.out = command.out /\ command'.content = c
  BY <1>2
<1>5. Ready(where, command.todo)
  BY DEF CommandTypes, Proper, Ready, Follows
<1>6. where \in Fetching => Ready(command.after, command.todo)
  BY <1>1 DEF CommandTypes, Commands, Proper, Follows
<1>7. QED
  BY <1>3, <1>4, <1>5, <1>6 DEF Proper

\* Into leaves the content as it is.
LEMMA IntoKeeps ==
    ASSUME CommandTypes, NEW where, Into(where)
    PROVE  command' = [[command EXCEPT !.at = where] EXCEPT !.content = command.content]
  BY DEF CommandTypes, Commands, Into

LEMMA ExitTypes ==
    ASSUME NEW how, Exits(how)
    PROVE  /\ command' \in Commands /\ Proper(command')
           /\ command'.at = "rest" /\ temp' = NoFile
           /\ exit' = how /\ temp' \in Contents
<1>1. command' = [at |-> "rest", after |-> "rest", todo |-> <<>>, out |-> {},
                  content |-> NoFile]
  BY DEF Exits, NoCommand, Job
<1>2. QED
  BY <1>1, SpecialContents DEF Exits, Commands, Proper, Ready

Begins(job) ==
    /\ Starts(job)
    /\ job \in Commands /\ job.at \in {"list", "load", "suggest", "fetch"}
    /\ Proper(job)

\* The jobs a command line may name.
Given(job) == job \in {NoCommand} \cup Conversions

LEMMA JobsAre ==
    ASSUME NEW job, Given(job)
    PROVE  /\ job \in Commands /\ job.at \in Later /\ Ready(job.at, job.todo)
           /\ job # NoCommand => job.at # "rest"
           /\ job.after = "rest"
<1>1. CASE job = NoCommand
  BY <1>1, SpecialContents DEF NoCommand, Job, Commands, Ready
<1>2. CASE job = WholeDirectory
  <2>1. <<>> \in Seq(JsonFiles) /\ {} \in SUBSET Stems
    OBVIOUS
  <2>2. job \in Commands /\ job.at = "list" /\ job.after = "rest"
    BY <1>2, <2>1, SpecialContents DEF WholeDirectory, Job, Commands
  <2>3. QED
    BY <2>2 DEF Ready
<1>3. CASE job \in OneFile
  <2>1. PICK f \in NamedFiles, s \in OutputNames : job = Job("load", <<f>>, {s})
    BY <1>3 DEF OneFile, Job
  <2>2. <<f>> \in Seq(JsonFiles) /\ <<f>> # <<>> /\ {s} \in SUBSET Stems
    <3>1. f \in JsonFiles /\ s \in Stems
      BY CommandAssumption
    <3>2. QED
      BY <3>1
  <2>3. job \in Commands /\ job.at = "load" /\ job.after = "rest" /\ job.todo = <<f>>
    BY <2>1, <2>2, SpecialContents DEF Job, Commands
  <2>4. QED
    BY <2>2, <2>3 DEF Ready
<1>4. CASE job \in WithSuggestions
  <2>1. PICK f \in Improvable, s \in OutputNames : job = Job("suggest", <<f>>, {s})
    BY <1>4 DEF WithSuggestions, Job
  <2>2. /\ <<f>> \in Seq(JsonFiles) /\ <<f>> # <<>> /\ {s} \in SUBSET Stems
        /\ Head(<<f>>) = f /\ Len(<<f>>) = 1
    BY FilesAre
  <2>3. job \in Commands /\ job.at = "suggest" /\ job.after = "rest" /\ job.todo = <<f>>
    BY <2>1, <2>2, SpecialContents DEF Job, Commands
  <2>4. QED
    BY <2>2, <2>3 DEF Ready
<1>5. CASE job \in SeveralFiles
  <2>1. PICK f \in NamedFiles, g \in NamedFiles : job = Job("load", <<f, g>>, {})
    BY <1>5 DEF SeveralFiles, Job
  <2>2. <<f, g>> \in Seq(JsonFiles) /\ <<f, g>> # <<>> /\ {} \in SUBSET Stems
    <3>1. f \in JsonFiles /\ g \in JsonFiles
      BY CommandAssumption
    <3>2. QED
      BY <3>1
  <2>3. job \in Commands /\ job.at = "load" /\ job.after = "rest" /\ job.todo = <<f, g>>
    BY <2>1, <2>2, SpecialContents DEF Job, Commands
  <2>4. QED
    BY <2>2, <2>3 DEF Ready
<1>6. QED
  BY <1>1, <1>2, <1>3, <1>4, <1>5 DEF Given, Conversions

LEMMA CommandsStart ==
    ASSUME ConvertFile \/ ConvertFiles \/ ConvertDirectory \/ ApplySuggestions \/ Fetch
    PROVE  \E job : Begins(job)
<1>1. CASE ConvertFile \/ ConvertFiles \/ ConvertDirectory \/ ApplySuggestions
  <2>1. PICK job \in Conversions : Starts(job)
    BY <1>1 DEF Conversions, ConvertFile, ConvertFiles, ConvertDirectory, ApplySuggestions
  <2>2. Given(job)
    BY DEF Given
  <2>3. job # NoCommand
    BY FilesAre DEF Conversions, NoCommand, WholeDirectory, OneFile, WithSuggestions, SeveralFiles, Job
  <2>4. job \in Commands /\ job.at \in {"list", "load", "suggest"} /\ Ready(job.at, job.todo)
    BY <2>2, <2>3, JobsAre
  <2>5. Begins(job)
    BY <2>1, <2>4 DEF Begins, Proper
  <2>6. QED
    BY <2>5
<1>2. CASE Fetch
  <2>1. PICK job \in {NoCommand} \cup Conversions :
            Starts([job EXCEPT !.at = "fetch", !.after = job.at])
    BY <1>2 DEF Fetch
  <2>2. job \in Commands /\ job.at \in Later /\ Ready(job.at, job.todo)
    BY JobsAre DEF Given
  <2> DEFINE fetch == [job EXCEPT !.at = "fetch", !.after = job.at]
  <2>3. /\ fetch \in Commands /\ fetch.at = "fetch" /\ fetch.after = job.at
        /\ fetch.todo = job.todo
    BY <2>2 DEF Commands
  <2> HIDE DEF fetch
  <2>4. Begins(fetch)
    <3>1. Starts(fetch)
      BY <2>1 DEF fetch
    <3>2. Proper(fetch)
      BY <2>2, <2>3 DEF Proper, Ready
    <3>3. QED
      BY <2>3, <3>1, <3>2 DEF Begins
  <2>5. QED
    BY <2>4
<1>3. QED
  BY <1>1, <1>2

\* The files of a directory, in an order.
LEMMA ListedFiles ==
    ASSUME NEW shown \in SUBSET JsonFiles, shown # {}, NEW files \in SetToSeqs(shown)
    PROVE  files \in Seq(JsonFiles) /\ files # <<>>
<1> DEFINE n == Cardinality(shown)
<1>1. IsFiniteSet(shown)
  BY FilesAre, FS_Subset
<1>2. n \in Nat /\ n # 0
  BY <1>1, FS_CardinalityType, FS_EmptySet
<1>3. files \in [1..n -> JsonFiles]
  BY DEF SetToSeqs
<1>4. QED
  BY <1>2, <1>3

\* The next file of several, or the first of a directory, is loaded.
LEMMA NextFiles ==
    ASSUME CommandTypes, NEW files \in Seq(JsonFiles), files # <<>>,
           command' = [command EXCEPT !.at = "load", !.todo = files]
    PROVE  /\ command' \in Commands /\ Proper(command') /\ command'.at = "load"
           /\ command'.out = command.out
<1>1. command \in Commands
  BY DEF CommandTypes
<1>2. command' = [at |-> "load", after |-> command.after, todo |-> files,
                  out |-> command.out, content |-> command.content]
  BY <1>1 DEF Commands
<1>3. QED
  BY <1>1, <1>2 DEF Commands, Proper, Ready

LEMMA NextFile ==
    ASSUME CommandTypes, Len(command.todo) > 1,
           command' = [command EXCEPT !.at = "load", !.todo = Tail(@)]
    PROVE  /\ command' \in Commands /\ Proper(command') /\ command'.at = "load"
           /\ command'.out = command.out
<1>1. command.todo \in Seq(JsonFiles) /\ Tail(command.todo) \in Seq(JsonFiles)
  BY DEF CommandTypes, Commands
<1>2. Tail(command.todo) # <<>>
  BY <1>1, LongTail
<1>3. command' = [command EXCEPT !.at = "load", !.todo = Tail(command.todo)]
  OBVIOUS
<1>4. QED
  BY <1>1, <1>2, <1>3, NextFiles

LEMMA Lists ==
    ASSUME CommandTypes, ListDirectory
    PROVE  \/ Exits("error")
           \/ /\ command' \in Commands /\ Proper(command') /\ command'.at = "load"
              /\ UNCHANGED <<temp, exit>>
<1>1. PICK shown \in {Present, Present \ Fetched} :
          IF shown = {}
             THEN Exits("error")
             ELSE /\ \E order \in SetToSeqs(shown) :
                        command' = [command EXCEPT !.at = "load", !.todo = order]
                  /\ UNCHANGED <<temp, exit>>
  BY DEF ListDirectory
<1>2. CASE shown = {}
  BY <1>1, <1>2
<1>3. CASE shown # {}
  <2>1. PICK order \in SetToSeqs(shown) :
            command' = [command EXCEPT !.at = "load", !.todo = order]
    BY <1>1, <1>3
  <2>2. shown \in SUBSET JsonFiles
    BY DEF Present
  <2>3. order \in Seq(JsonFiles) /\ order # <<>>
    BY <1>3, <2>2, ListedFiles
  <2>4. QED
    BY <1>1, <1>3, <2>1, <2>3, NextFiles
<1>4. QED
  BY <1>2, <1>3

LEMMA TypesStep == ASSUME CommandTypes, CommandNext PROVE CommandTypes'
<1>1. CASE ConvertFile \/ ConvertFiles \/ ConvertDirectory \/ ApplySuggestions \/ Fetch
  <2>1. PICK job : Begins(job)
    BY <1>1, CommandsStart
  <2>2. made' \in [Stems -> Contents]
    BY <2>1, SpecialContents DEF Begins, Starts
  <2>3. QED
    BY <2>1, <2>2 DEF Begins, Starts, CommandTypes
<1> USE DEF Stage
<1>2. CASE LoadInput
  <2>1. Input \in Contents
    BY <1>2, InputIsContent DEF LoadInput
  <2>2. command' = [[command EXCEPT !.at = "open"] EXCEPT !.content = Input]
    BY <1>2 DEF LoadInput
  <2>3. QED
    BY <1>2, <2>1, <2>2, IntoTypes DEF Follows, LoadInput, CommandTypes, history
<1>3. CASE InputFails
  BY <1>3, ExitTypes DEF InputFails, CommandTypes, history
<1>4. CASE OpenOutput
  <2>1. command.content \in Contents /\ Output \in Stems /\ Broken \in Contents
    BY <1>4, OutputIsStem, SpecialContents DEF OpenOutput, CommandTypes, Commands
  <2>2. robot' \in [Stems -> Contents] /\ made' \in [Stems -> Contents]
    BY <1>4, <2>1 DEF OpenOutput, CommandTypes
  <2>3. command' = [[command EXCEPT !.at = "write"] EXCEPT !.content = command.content]
    BY <1>4, IntoKeeps DEF OpenOutput
  <2>4. QED
    BY <1>4, <2>1, <2>2, <2>3, IntoTypes DEF Follows, OpenOutput, CommandTypes
<1>5. CASE WriteOutput
  <2>1. command.content \in Contents /\ Output \in Stems
    BY <1>5, OutputIsStem DEF WriteOutput, CommandTypes, Commands
  <2>2. robot' \in [Stems -> Contents] /\ made' \in [Stems -> Contents]
    BY <1>5, <2>1 DEF WriteOutput, CommandTypes, history
  <2>3. CASE Len(command.todo) > 1
    BY <1>5, <2>2, <2>3, NextFile DEF WriteOutput, CommandTypes, history
  <2>4. CASE ~(Len(command.todo) > 1)
    BY <1>5, <2>2, <2>4, ExitTypes DEF WriteOutput, CommandTypes, history
  <2>5. QED
    BY <2>3, <2>4
<1>6. CASE LoadAndImprove
  <2>1. CASE json[Head(command.todo)] \in {NoFile, Broken}
    BY <1>6, <2>1, ExitTypes DEF LoadAndImprove, CommandTypes, history
  <2>2. CASE json[Head(command.todo)] \notin {NoFile, Broken}
    <3> DEFINE content == json[Head(command.todo)]
    <3>1. content \in Contents
      BY <1>6, FilesAre DEF LoadAndImprove, CommandTypes, Proper, Ready
    <3>2. PICK improved \in {content, [content EXCEPT !.improved = TRUE]} :
              command' = [command EXCEPT !.at = "openImproved", !.content = improved]
      BY <1>6, <2>2 DEF LoadAndImprove
    <3>3. improved \in Contents
      BY <3>1, <3>2 DEF Contents
    <3>4. command' = [[command EXCEPT !.at = "openImproved"] EXCEPT !.content = improved]
      BY <3>2
    <3>5. QED
      BY <1>6, <2>2, <3>3, <3>4, IntoTypes DEF Follows, LoadAndImprove, CommandTypes, history
  <2>3. QED
    BY <2>1, <2>2
<1>7. CASE OpenImproved
  <2>1. json' \in [JsonFiles -> Contents]
    BY <1>7, FilesAre, SpecialContents DEF OpenImproved, CommandTypes, Proper, Ready
  <2>2. command.content \in Contents
        /\ command' = [[command EXCEPT !.at = "writeImproved"] EXCEPT !.content = command.content]
    BY <1>7, IntoKeeps DEF OpenImproved, CommandTypes, Commands
  <2>3. QED
    BY <1>7, <2>1, <2>2, IntoTypes DEF Follows, OpenImproved, CommandTypes, history
<1>8. CASE WriteImproved
  <2>1. json' \in [JsonFiles -> Contents]
    BY <1>8, FilesAre, SpecialContents DEF WriteImproved, CommandTypes, Proper, Ready, Commands
  <2>2. command.content \in Contents
        /\ command' = [[command EXCEPT !.at = "backup"] EXCEPT !.content = command.content]
    BY <1>8, IntoKeeps DEF WriteImproved, CommandTypes, Commands
  <2>3. QED
    BY <1>8, <2>1, <2>2, IntoTypes DEF Follows, WriteImproved, CommandTypes
<1>9. CASE BackUp
  <2>1. command.content \in Contents
        /\ command' = [[command EXCEPT !.at = "temp"] EXCEPT !.content = command.content]
    BY <1>9, IntoKeeps DEF BackUp, CommandTypes, Commands
  <2>2. QED
    BY <1>9, <2>1, IntoTypes DEF Follows, BackUp, CommandTypes, history
<1>10. CASE MakeTemp
  <2>1. command.content \in Contents
        /\ command' = [[command EXCEPT !.at = "load"] EXCEPT !.content = command.content]
    BY <1>10, IntoKeeps DEF MakeTemp, CommandTypes, Commands
  <2>2. QED
    BY <1>10, <2>1, IntoTypes DEF Follows, MakeTemp, CommandTypes, history
<1>11. CASE FetchAnswers
  <2>1. PICK pages \in BOOLEAN :
            /\ pages => saves < MaxSaves
            /\ saves' = IF pages THEN saves + 1 ELSE saves
            /\ command' = [command EXCEPT !.at = "openPayload",
                              !.content = IF pages THEN Cases(saves + 1, FALSE) ELSE NoCases]
    BY <1>11 DEF FetchAnswers
  <2> DEFINE c == IF pages THEN Cases(saves + 1, FALSE) ELSE NoCases
  <2>2. saves' \in 0..MaxSaves
    BY <2>1 DEF CommandTypes
  <2>3. c \in Contents
    <3>1. pages => saves + 1 \in 0..MaxSaves
      BY <2>1, <2>2
    <3>2. QED
      BY <3>1, SpecialContents
  <2>4. command' = [[command EXCEPT !.at = "openPayload"] EXCEPT !.content = c]
    BY <2>1
  <2> HIDE DEF c
  <2>5. QED
    BY <1>11, <2>2, <2>3, <2>4, IntoTypes DEF Follows, FetchAnswers, CommandTypes, history
<1>12. CASE OpenPayload
  <2>1. json' \in [JsonFiles -> Contents]
    BY <1>12, FilesAre, SpecialContents DEF OpenPayload, CommandTypes
  <2>2. command.content \in Contents
        /\ command' = [[command EXCEPT !.at = "writePayload"] EXCEPT !.content = command.content]
    BY <1>12, IntoKeeps DEF OpenPayload, CommandTypes, Commands
  <2>3. QED
    BY <1>12, <2>1, <2>2, IntoTypes DEF Follows, OpenPayload, CommandTypes, history
<1>13. CASE WritePayload
  <2>1. json' \in [JsonFiles -> Contents]
    BY <1>13, FilesAre, SpecialContents DEF WritePayload, CommandTypes, Commands
  <2>2. command.content \in Contents
        /\ command' = [[command EXCEPT !.at = "meta"] EXCEPT !.content = command.content]
    BY <1>13, IntoKeeps DEF WritePayload, CommandTypes, Commands
  <2>3. QED
    BY <1>13, <2>1, <2>2, IntoTypes DEF Follows, WritePayload, CommandTypes
<1>14. CASE WriteMetadata
  <2>1. json' \in [JsonFiles -> Contents]
    BY <1>14, FilesAre, SpecialContents DEF WriteMetadata, CommandTypes
  <2>2. CASE command.after = "rest"
    BY <1>14, <2>1, <2>2, ExitTypes DEF WriteMetadata, CommandTypes, history
  <2>3. CASE command.after # "rest"
    <3>1. /\ command.content \in Contents /\ command.after \in Stages
          /\ command' = [[command EXCEPT !.at = command.after] EXCEPT !.content = command.content]
      BY <1>14, <2>3, IntoKeeps DEF WriteMetadata, CommandTypes, Commands
    <3>2. QED
      BY <1>14, <2>1, <2>3, <3>1, IntoTypes DEF Follows, WriteMetadata, CommandTypes, history
  <2>4. QED
    BY <2>2, <2>3
<1>15. CASE OperationFails
  BY <1>15, ExitTypes DEF OperationFails, CommandTypes, history
<1>16. CASE CommandDies
  BY <1>16, ExitTypes DEF CommandDies, CommandTypes, history
<1>17. ASSUME NEW f \in UserFiles, UserSaves(f) PROVE CommandTypes'
  <2>1. saves + 1 \in 0..MaxSaves
    BY <1>17 DEF UserSaves, CommandTypes
  <2>2. json' \in [JsonFiles -> Contents]
    BY <1>17, <2>1, SpecialContents DEF UserSaves, CommandTypes
  <2>3. QED
    BY <1>17, <2>1, <2>2 DEF UserSaves, CommandTypes, history
<1>18. CASE ListDirectory
  BY <1>18, Lists, ExitTypes DEF ListDirectory, CommandTypes, history
<1>19. QED
  BY <1>1, <1>2, <1>3, <1>4, <1>5, <1>6, <1>7, <1>8, <1>9, <1>10, <1>11, <1>12, <1>13,
     <1>14, <1>15, <1>16, <1>17, <1>18 DEF CommandNext

-----------------------------------------------------------------------------
(* Outputs *)

LEMMA SettledStays ==
    ASSUME UNCHANGED <<robot, made, atStart>>
    PROVE  \A s \in Stems : Settled(s) => Settled(s)'
  BY DEF Settled

\* A step on the way that leaves the outputs alone.
LEMMA OutputsUntouched ==
    ASSUME OutputsKept, ~Stage("rest"), ~Stage("write"), ~Stage("write")',
           UNCHANGED <<robot, made, atStart>>,
           Stage("open")' => Convertible(command'.content)
    PROVE  OutputsKept'
  BY SettledStays DEF OutputsKept, Stage

LEMMA OutputsAtRest == ASSUME Stage("rest")' PROVE OutputsKept'
  BY DEF OutputsKept, Stage

LEMMA OutputsStep == ASSUME CommandTypes, OutputsKept, CommandNext PROVE OutputsKept'
<1> USE DEF Stage
<1>1. CASE ConvertFile \/ ConvertFiles \/ ConvertDirectory \/ ApplySuggestions \/ Fetch
  <2>1. PICK job : Begins(job)
    BY <1>1, CommandsStart
  <2>2. command'.at \in {"list", "load", "suggest", "fetch"} /\ Starts(job)
    BY <2>1 DEF Begins, Starts
  <2>3. \A s \in Stems : Settled(s)'
    BY <2>2 DEF Starts, Settled
  <2>4. QED
    BY <2>2, <2>3 DEF OutputsKept
<1>2. CASE LoadInput
  <2>1. command' = [[command EXCEPT !.at = "open"] EXCEPT !.content = Input]
        /\ command \in Commands
    BY <1>2 DEF LoadInput, CommandTypes
  <2>2. command'.at = "open" /\ command'.content = Input
    BY <2>1 DEF Commands
  <2>3. QED
    BY <1>2, <2>2, OutputsUntouched DEF LoadInput, history
<1>3. CASE InputFails
  BY <1>3, ExitTypes, OutputsAtRest DEF InputFails
<1>4. CASE OpenOutput
  <2>1. command' = [[command EXCEPT !.at = "write"] EXCEPT !.content = command.content]
        /\ command \in Commands
    BY <1>4, IntoKeeps DEF OpenOutput, CommandTypes
  <2>2. /\ command'.at = "write" /\ command'.content = command.content
        /\ command'.todo = command.todo /\ command'.out = command.out
    BY <2>1 DEF Commands
  <2>3. Output' = Output /\ Output \in Stems
    BY <1>4, <2>2, OutputIsStem DEF OpenOutput, Output
  <2>4. robot'[Output] = Broken /\ made'[Output] = command.content
    BY <1>4, <2>3 DEF OpenOutput, CommandTypes
  <2>5. \A s \in Stems \ {Output} : Settled(s)'
    BY <1>4, <2>3 DEF OpenOutput, OutputsKept, Settled, CommandTypes
  <2>6. Convertible(command'.content)
    BY <1>4, <2>2 DEF OpenOutput, OutputsKept
  <2>7. QED
    BY <2>2, <2>3, <2>4, <2>5, <2>6 DEF OutputsKept
<1>5. CASE WriteOutput
  <2>1. CASE Len(command.todo) > 1
    <3>1. command'.at = "load"
      BY <1>5, <2>1, NextFile DEF WriteOutput
    <3>2. \A s \in Stems : Settled(s)'
      <4>1. Output \in Stems /\ made[Output] = command.content /\ command.content # NoFile
        BY <1>5, OutputIsStem, SpecialContents
           DEF WriteOutput, OutputsKept, CommandTypes, Commands
      <4>2. QED
        BY <1>5, <4>1 DEF WriteOutput, OutputsKept, Settled, CommandTypes, history
    <3>3. QED
      BY <3>1, <3>2 DEF OutputsKept
  <2>2. CASE ~(Len(command.todo) > 1)
    BY <1>5, <2>2, ExitTypes, OutputsAtRest DEF WriteOutput
  <2>3. QED
    BY <2>1, <2>2
<1>6. CASE LoadAndImprove
  <2>1. CASE json[Head(command.todo)] \in {NoFile, Broken}
    BY <1>6, <2>1, ExitTypes, OutputsAtRest DEF LoadAndImprove
  <2>2. CASE json[Head(command.todo)] \notin {NoFile, Broken}
    <3>1. command'.at = "openImproved"
      BY <1>6, <2>2 DEF LoadAndImprove, CommandTypes, Commands
    <3>2. QED
      BY <1>6, <3>1, OutputsUntouched DEF LoadAndImprove, history
  <2>3. QED
    BY <2>1, <2>2
<1>7. CASE OpenImproved \/ OpenPayload
  <2>1. command'.at \in {"writeImproved", "writePayload"}
    BY <1>7 DEF OpenImproved, OpenPayload, CommandTypes, Commands, Into
  <2>2. QED
    BY <1>7, <2>1, OutputsUntouched DEF OpenImproved, OpenPayload, history
<1>8. CASE WriteImproved \/ WritePayload
  <2>1. command'.at \in {"backup", "meta"}
    BY <1>8 DEF WriteImproved, WritePayload, CommandTypes, Commands, Into
  <2>2. QED
    BY <1>8, <2>1, OutputsUntouched DEF WriteImproved, WritePayload
<1>9. CASE BackUp \/ MakeTemp \/ FetchAnswers
  <2>1. command'.at \in {"temp", "load", "openPayload"}
    BY <1>9 DEF BackUp, MakeTemp, FetchAnswers, CommandTypes, Commands, Into
  <2>2. QED
    BY <1>9, <2>1, OutputsUntouched DEF BackUp, MakeTemp, FetchAnswers, history
<1>10. CASE WriteMetadata
  <2>1. CASE command.after = "rest"
    BY <1>10, <2>1, ExitTypes, OutputsAtRest DEF WriteMetadata
  <2>2. CASE command.after # "rest"
    <3>1. command'.at \in {"list", "load", "suggest"}
      BY <1>10, <2>2 DEF WriteMetadata, CommandTypes, Commands, Into
    <3>2. QED
      BY <1>10, <3>1, OutputsUntouched DEF WriteMetadata, history
  <2>3. QED
    BY <2>1, <2>2
<1>11. CASE OperationFails \/ CommandDies
  BY <1>11, ExitTypes, OutputsAtRest DEF OperationFails, CommandDies
<1>12. ASSUME NEW f \in UserFiles, UserSaves(f) PROVE OutputsKept'
  <2>1. Output' = Output
    BY <1>12 DEF UserSaves, Output
  <2>2. QED
    BY <1>12, <2>1 DEF UserSaves, OutputsKept, Settled, history
<1>13. CASE ListDirectory
  <2>1. CASE Exits("error")
    BY <2>1, ExitTypes, OutputsAtRest
  <2>2. CASE command'.at = "load"
    BY <1>13, <2>2, OutputsUntouched DEF ListDirectory, history
  <2>3. QED
    BY <1>13, <2>1, <2>2, Lists
<1>14. QED
  BY <1>1, <1>2, <1>3, <1>4, <1>5, <1>6, <1>7, <1>8, <1>9, <1>10, <1>11, <1>12, <1>13
     DEF CommandNext

-----------------------------------------------------------------------------
(* What a command wrote itself *)

LEMMA OwnAtRest ==
    ASSUME OwnKept, Stage("rest")', temp' = NoFile, own' = own
    PROVE  OwnKept'
  BY DEF OwnKept, Stage

LEMMA OwnStep ==
    ASSUME CommandTypes, OutputsKept, OwnKept, CommandNext
    PROVE  OwnKept'
<1> USE DEF Stage
<1>1. CASE ConvertFile \/ ConvertFiles \/ ConvertDirectory \/ ApplySuggestions \/ Fetch
  <2>1. PICK job : Begins(job)
    BY <1>1, CommandsStart
  <2>2. /\ command'.at \in {"list", "load", "suggest", "fetch"}
        /\ own' = {} /\ temp' = NoFile
        /\ \A s \in Stems : made'[s] = NoFile
    BY <2>1 DEF Begins, Starts, OwnKept
  <2>3. QED
    BY <2>2 DEF OwnKept
<1>2. CASE LoadInput
  <2>1. command \in Commands
    BY DEF CommandTypes
  <2>2. command'.at = "open" /\ command'.content = Input /\ command'.todo = command.todo
    BY <1>2, <2>1 DEF LoadInput, Commands
  <2>3. \A f \in own : Input = json[f]
    BY <1>2 DEF LoadInput, OwnKept, Input
  <2>4. QED
    BY <1>2, <2>2, <2>3 DEF LoadInput, OwnKept, history
<1>3. CASE InputFails
  BY <1>3, ExitTypes, OwnAtRest DEF InputFails, history
<1>4. CASE OpenOutput
  <2>1. /\ command'.at = "write" /\ command'.content = command.content
        /\ command'.todo = command.todo /\ command'.out = command.out
    BY <1>4 DEF OpenOutput, CommandTypes, Commands, Into
  <2>2. Output' = Output
    BY <2>1 DEF Output
  <2>3. own # {} => \A s \in Stems \ {Output} : made'[s] = NoFile
    BY <1>4 DEF OpenOutput, OwnKept, CommandTypes
  <2>4. QED
    BY <1>4, <2>1, <2>2, <2>3 DEF OpenOutput, OwnKept
<1>5. CASE WriteOutput
  <2>1. CASE Len(command.todo) > 1
    <3>1. command'.at = "load" /\ own = {}
      <4>1. own # {} => Len(command.todo) = 1
        BY <1>5 DEF WriteOutput, OwnKept
      <4>2. own = {}
        <5> DEFINE n == Len(command.todo)
        <5>1. n > 1
          BY <2>1
        <5> HIDE DEF n
        <5>2. n # 1
          BY <5>1
        <5>3. QED
          BY <4>1, <5>2 DEF n
      <4>3. command'.at = "load"
        BY <1>5, <2>1, NextFile DEF WriteOutput
      <4>4. QED
        BY <4>2, <4>3
    <3>2. QED
      BY <1>5, <3>1 DEF WriteOutput, OwnKept, history
  <2>2. CASE ~(Len(command.todo) > 1)
    BY <1>5, <2>2, ExitTypes, OwnAtRest DEF WriteOutput, history
  <2>3. QED
    BY <2>1, <2>2
<1>6. CASE LoadAndImprove
  <2>1. CASE json[Head(command.todo)] \in {NoFile, Broken}
    BY <1>6, <2>1, ExitTypes, OwnAtRest DEF LoadAndImprove, history
  <2>2. CASE json[Head(command.todo)] \notin {NoFile, Broken}
    <3> DEFINE content == json[Head(command.todo)]
    <3>1. content \in Contents /\ content # NoFile
      BY <1>6, <2>2, FilesAre DEF LoadAndImprove, CommandTypes, Proper, Ready
    <3>2. PICK improved \in {content, [content EXCEPT !.improved = TRUE]} :
              command' = [command EXCEPT !.at = "openImproved", !.content = improved]
      BY <1>6, <2>2 DEF LoadAndImprove
    <3>3. improved # NoFile
      <4>1. [content EXCEPT !.improved = TRUE].improved = TRUE
        BY <3>1 DEF Contents
      <4>2. NoFile.improved = FALSE
        BY DEF NoFile, Cases
      <4>3. QED
        BY <3>1, <3>2, <4>1, <4>2
    <3>4. /\ command'.at = "openImproved" /\ command'.content = improved
          /\ command'.todo = command.todo
      BY <3>2 DEF CommandTypes, Commands
    <3>5. QED
      BY <1>6, <2>2, <3>3, <3>4 DEF LoadAndImprove, OwnKept, history
  <2>3. QED
    BY <2>1, <2>2
<1>7. CASE OpenImproved \/ OpenPayload
  <2>1. /\ command'.at = IF OpenImproved THEN "writeImproved" ELSE "writePayload"
        /\ command'.content = command.content /\ command'.todo = command.todo
    BY <1>7 DEF OpenImproved, OpenPayload, CommandTypes, Commands, Into
  <2>2. QED
    BY <1>7, <2>1 DEF OpenImproved, OpenPayload, OwnKept, history
<1>8. CASE WriteImproved
  <2> DEFINE f == ImprovedOf[Head(command.todo)]
  <2>1. /\ command'.at = "backup" /\ command'.content = command.content
        /\ command'.todo = command.todo
    BY <1>8 DEF WriteImproved, CommandTypes, Commands, Into
  <2>2. f \in JsonFiles \ UserFiles /\ json'[f] = command.content /\ own' = {f}
    BY <1>8, FilesAre DEF WriteImproved, CommandTypes, Proper, Ready
  <2>3. QED
    BY <1>8, <2>1, <2>2 DEF WriteImproved, OwnKept
<1>9. CASE BackUp
  <2>1. /\ command'.at = "temp" /\ command'.content = command.content
        /\ command'.todo = command.todo
    BY <1>9 DEF BackUp, CommandTypes, Commands, Into
  <2>2. QED
    BY <1>9, <2>1 DEF BackUp, OwnKept, history
<1>10. CASE MakeTemp
  <2>1. /\ command'.at = "load" /\ command'.content = command.content
        /\ command'.todo = command.todo
    BY <1>10 DEF MakeTemp, CommandTypes, Commands, Into
  <2>2. Len(command.todo) = 1
    BY <1>10 DEF MakeTemp, CommandTypes, Proper, Ready
  <2>3. QED
    BY <1>10, <2>1, <2>2 DEF MakeTemp, OwnKept, history
<1>11. CASE FetchAnswers
  <2>1. command'.at = "openPayload" /\ command'.todo = command.todo /\ command'.content # NoFile
    <3>1. PICK pages \in BOOLEAN :
              /\ pages => saves < MaxSaves
              /\ command' = [command EXCEPT !.at = "openPayload",
                                !.content = IF pages THEN Cases(saves + 1, FALSE) ELSE NoCases]
      BY <1>11 DEF FetchAnswers
    <3>2. QED
      BY <3>1 DEF CommandTypes, Commands, NoFile, NoCases, Cases
  <2>2. QED
    BY <1>11, <2>1 DEF FetchAnswers, OwnKept, history
<1>12. CASE WritePayload
  <2>1. /\ command'.at = "meta" /\ command'.todo = command.todo
        /\ command'.after = command.after
    BY <1>12 DEF WritePayload, CommandTypes, Commands, Into
  <2>2. own' # {} =>
            /\ own' = {Payload} /\ Payload \in JsonFiles \ UserFiles
            /\ command.after = "load" /\ command.todo = <<Payload>>
    BY <1>12, FilesAre DEF WritePayload
  <2>3. QED
    BY <1>12, <2>1, <2>2 DEF WritePayload, OwnKept
<1>13. CASE WriteMetadata
  <2>1. CASE command.after = "rest"
    BY <1>13, <2>1, ExitTypes, OwnAtRest DEF WriteMetadata, history
  <2>2. CASE command.after # "rest"
    <3>1. /\ command'.at = command.after /\ command'.todo = command.todo
          /\ command.after \in {"list", "load", "suggest"}
      BY <1>13, <2>2 DEF WriteMetadata, CommandTypes, Commands, Into
    <3>2. own # {} => /\ own = {Payload} /\ command.after = "load"
                      /\ Head(command.todo) = Payload /\ Len(command.todo) = 1
      BY <1>13 DEF WriteMetadata, OwnKept
    <3>3. temp' = NoFile /\ \A s \in Stems : made'[s] = NoFile
      BY <1>13, <2>2 DEF WriteMetadata, OwnKept, history
    <3>4. QED
      BY <1>13, <3>1, <3>2, <3>3 DEF WriteMetadata, OwnKept, history
  <2>3. QED
    BY <2>1, <2>2
<1>14. CASE OperationFails \/ CommandDies
  BY <1>14, ExitTypes, OwnAtRest DEF OperationFails, CommandDies, history
<1>15. ASSUME NEW f \in UserFiles, UserSaves(f) PROVE OwnKept'
  <2>1. \A g \in own : json'[g] = json[g]
    BY <1>15 DEF UserSaves, OwnKept, CommandTypes
  <2>2. Output' = Output
    BY <1>15 DEF UserSaves, Output
  <2>3. QED
    BY <1>15, <2>1, <2>2 DEF UserSaves, OwnKept, history
<1>16. CASE ListDirectory
  <2>1. CASE Exits("error")
    BY <1>16, <2>1, ExitTypes, OwnAtRest DEF ListDirectory, history
  <2>2. CASE command'.at = "load"
    BY <1>16, <2>2 DEF ListDirectory, OwnKept, history
  <2>3. QED
    BY <1>16, <2>1, <2>2, Lists
<1>17. QED
  BY <1>1, <1>2, <1>3, <1>4, <1>5, <1>6, <1>7, <1>8, <1>9, <1>10, <1>11, <1>12, <1>13,
     <1>14, <1>15, <1>16 DEF CommandNext

-----------------------------------------------------------------------------
(* The exit status *)

LEMMA NotAtRest == ASSUME ~Stage("rest")' PROVE ExitTellsOutputs'
  BY DEF ExitTellsOutputs, Stage

\* Wherever it stops, at most the output that was being written is in neither state.
LEMMA StopsTell ==
    ASSUME CommandTypes, OutputsKept, ~Stage("rest"), NEW how, how # "ok", Exits(how),
           UNCHANGED <<robot, made, atStart>>
    PROVE  ExitTellsOutputs'
<1>1. Stage("rest")' /\ exit' # "ok"
  BY ExitTypes DEF Stage
<1>2. \A s \in Stems : robot[s] \in {atStart[s], made[s], Broken}
  BY DEF OutputsKept, Settled
<1> DEFINE torn == {s \in Stems : robot[s] \notin {atStart[s], made[s]}}
<1>3. torn \subseteq {Output}
  BY DEF OutputsKept, Settled
<1>4. Cardinality(torn) <= 1
  <2>1. IsFiniteSet({Output}) /\ Cardinality({Output}) = 1
    BY FS_Singleton
  <2>2. QED
    BY <1>3, <2>1, FS_Subset
<1>5. torn' = torn
  OBVIOUS
<1> HIDE DEF torn
<1>6. Cardinality(torn') <= 1
  BY <1>4, <1>5
<1>7. \A s \in Stems : robot'[s] \in {atStart'[s], made'[s], Broken}
  BY <1>2
<1>8. QED
  BY <1>1, <1>6, <1>7 DEF ExitTellsOutputs, torn

\* Success, with every output settled.
LEMMA SuccessTells ==
    ASSUME Stage("rest")', \A s \in Stems : Settled(s)',
           \A f \in own' : {made'[s] : s \in Stems} \ {NoFile} = {json'[f]}
    PROVE  ExitTellsOutputs'
<1>1. \A s \in Stems : robot'[s] = IF made'[s] = NoFile THEN atStart'[s] ELSE made'[s]
  BY DEF Settled
<1>2. {s \in Stems : robot'[s] \notin {atStart'[s], made'[s]}} = {}
  BY <1>1
<1>3. Cardinality({s \in Stems : robot'[s] \notin {atStart'[s], made'[s]}}) <= 1
  <2>1. PICK torn : torn = {s \in Stems : robot'[s] \notin {atStart'[s], made'[s]}}
    OBVIOUS
  <2>2. torn = {}
    BY ONLY <1>2, <2>1
  <2>3. Cardinality(torn) = 0
    BY ONLY <2>2, FS_EmptySet
  <2>4. Cardinality(torn) <= 1
    BY ONLY <2>3
  <2>5. QED
    BY ONLY <2>1, <2>4
<1>4. QED
  BY <1>1, <1>3 DEF ExitTellsOutputs

LEMMA ExitStep == ASSUME CommandInv, CommandNext PROVE ExitTellsOutputs'
<1> USE DEF Stage
<1>1. CASE ConvertFile \/ ConvertFiles \/ ConvertDirectory \/ ApplySuggestions \/ Fetch
  <2>1. PICK job : Begins(job)
    BY <1>1, CommandsStart
  <2>2. command'.at # "rest"
    BY <2>1 DEF Begins, Starts
  <2>3. QED
    BY <2>2, NotAtRest
<1>2. CASE LoadInput \/ OpenOutput \/ OpenImproved \/ WriteImproved \/ BackUp \/ MakeTemp
           \/ FetchAnswers \/ OpenPayload \/ WritePayload
  <2>1. command'.at # "rest"
    BY <1>2 DEF LoadInput, OpenOutput, OpenImproved, WriteImproved, BackUp, MakeTemp,
        FetchAnswers, OpenPayload, WritePayload, Into, CommandInv, CommandTypes, Commands
  <2>2. QED
    BY <2>1, NotAtRest
<1>3. CASE InputFails \/ OperationFails \/ CommandDies
  BY <1>3, StopsTell DEF InputFails, OperationFails, CommandDies, CommandInv, history
<1>4. CASE WriteOutput
  <2>1. CASE Len(command.todo) > 1
    <3>1. command'.at # "rest"
      BY <1>4, <2>1, NextFile DEF WriteOutput, CommandInv
    <3>2. QED
      BY <3>1, NotAtRest
  <2>2. CASE ~(Len(command.todo) > 1)
    <3>1. command'.at = "rest"
      BY <1>4, <2>2, ExitTypes DEF WriteOutput
    <3>2. Output \in Stems /\ made[Output] = command.content /\ command.content # NoFile
      BY <1>4, OutputIsStem, SpecialContents
         DEF CommandInv, WriteOutput, OutputsKept, CommandTypes, Commands
    <3>3. \A s \in Stems : Settled(s)'
      BY <1>4, <3>2 DEF CommandInv, WriteOutput, OutputsKept, Settled, CommandTypes, history
    <3>4. ASSUME NEW f \in own PROVE {made[s] : s \in Stems} \ {NoFile} = {json[f]}
      <4>1. command.content = json[f] /\ \A s \in Stems \ {Output} : made[s] = NoFile
        BY <1>4, <3>4 DEF WriteOutput, CommandInv, OwnKept
      <4>2. QED
        BY <3>2, <4>1
    <3>5. \A f \in own' : {made'[s] : s \in Stems} \ {NoFile} = {json'[f]}
      BY <1>4, <3>4 DEF WriteOutput, history
    <3>6. QED
      BY <3>1, <3>3, <3>5, SuccessTells
  <2>3. QED
    BY <2>1, <2>2
<1>5. CASE LoadAndImprove
  <2>1. CASE json[Head(command.todo)] \in {NoFile, Broken}
    BY <1>5, <2>1, StopsTell DEF LoadAndImprove, CommandInv, history
  <2>2. CASE json[Head(command.todo)] \notin {NoFile, Broken}
    <3>1. command'.at # "rest"
      BY <1>5, <2>2 DEF LoadAndImprove, CommandInv, CommandTypes, Commands
    <3>2. QED
      BY <3>1, NotAtRest
  <2>3. QED
    BY <2>1, <2>2
<1>6. CASE WriteMetadata
  <2>1. CASE command.after = "rest"
    <3>1. command'.at = "rest"
      BY <1>6, <2>1, ExitTypes DEF WriteMetadata
    <3>2. \A s \in Stems : Settled(s)'
      BY <1>6, SettledStays DEF WriteMetadata, CommandInv, OutputsKept, history
    <3>3. own' = {}
      BY <1>6, <2>1 DEF WriteMetadata, CommandInv, OwnKept, history
    <3>4. QED
      BY <3>1, <3>2, <3>3, SuccessTells
  <2>2. CASE command.after # "rest"
    <3>1. command'.at # "rest"
      BY <1>6, <2>2 DEF WriteMetadata, CommandInv, CommandTypes, Commands, Into
    <3>2. QED
      BY <3>1, NotAtRest
  <2>3. QED
    BY <2>1, <2>2
<1>7. ASSUME NEW f \in UserFiles, UserSaves(f) PROVE ExitTellsOutputs'
  <2>1. \A g \in own : json'[g] = json[g]
    BY <1>7 DEF UserSaves, CommandInv, OwnKept, CommandTypes
  <2>2. QED
    <3> DEFINE torn == {s \in Stems : robot[s] \notin {atStart[s], made[s]}}
               inputs == {made[s] : s \in Stems} \ {NoFile}
               kept == \A s \in Stems : robot[s] = IF made[s] = NoFile THEN atStart[s] ELSE made[s]
               left == \A s \in Stems : robot[s] \in {atStart[s], made[s], Broken}
    <3>1. torn' = torn /\ inputs' = inputs /\ kept' = kept /\ left' = left
      BY <1>7 DEF UserSaves, history
    <3>2. own' = own /\ exit' = exit /\ Stage("rest")' = Stage("rest")
      BY <1>7 DEF UserSaves, history
    <3>3. ExitTellsOutputs =
              (Stage("rest") => /\ exit = "ok" => kept /\ \A g \in own : inputs = {json[g]}
                                /\ left /\ Cardinality(torn) <= 1)
      BY DEF ExitTellsOutputs
    <3>4. ExitTellsOutputs' =
              (Stage("rest")' => /\ exit' = "ok" => kept' /\ \A g \in own' : inputs' = {json'[g]}
                                 /\ left' /\ Cardinality(torn') <= 1)
      BY DEF ExitTellsOutputs
    <3>5. ExitTellsOutputs
      BY DEF CommandInv
    <3> HIDE DEF torn, inputs, kept, left
    <3>6. QED
      BY <2>1, <3>1, <3>2, <3>3, <3>4, <3>5
<1>8. CASE ListDirectory
  <2>1. CASE Exits("error")
    BY <1>8, <2>1, StopsTell DEF ListDirectory, CommandInv, history
  <2>2. CASE command'.at = "load"
    BY <2>2, NotAtRest
  <2>3. QED
    BY <1>8, <2>1, <2>2, Lists DEF CommandInv
<1>9. QED
  BY <1>1, <1>2, <1>3, <1>4, <1>5, <1>6, <1>7, <1>8 DEF CommandNext

-----------------------------------------------------------------------------
(* Theorems *)

LEMMA CommandInitInv == CommandInit => CommandInv
<1> SUFFICES ASSUME CommandInit PROVE CommandInv
  OBVIOUS
<1>1. CommandTypes
  <2>1. command = [at |-> "rest", after |-> "rest", todo |-> <<>>, out |-> {},
                   content |-> NoFile]
    BY DEF CommandInit, NoCommand, Job
  <2>2. command \in Commands
    BY <2>1, SpecialContents DEF Commands
  <2>3. QED
    BY <2>1, <2>2, SpecialContents DEF CommandInit, CommandTypes, Proper, Ready
<1>2. OutputsKept /\ OwnKept
  BY DEF CommandInit, NoCommand, Job, OutputsKept, OwnKept, Stage
<1>3. ExitTellsOutputs
  <2>1. {s \in Stems : robot[s] \notin {atStart[s], made[s]}} = {}
    BY DEF CommandInit
  <2>2. QED
    BY <2>1, FS_EmptySet DEF CommandInit, ExitTellsOutputs
<1>4. QED
  BY <1>1, <1>2, <1>3 DEF CommandInv

LEMMA CommandStep == CommandInv /\ [CommandNext]_commandVars => CommandInv'
<1> SUFFICES ASSUME CommandInv, [CommandNext]_commandVars PROVE CommandInv'
  OBVIOUS
<1>1. CASE CommandNext
  BY <1>1, TypesStep, OutputsStep, OwnStep, ExitStep DEF CommandInv
<1>2. CASE UNCHANGED commandVars
  BY <1>2 DEF commandVars, CommandInv, CommandTypes, OutputsKept, OwnKept, ExitTellsOutputs,
      Stage, Settled, Output
<1>3. QED
  BY <1>1, <1>2

\* Between any two steps of a command, of main() over core/converter.py, the outputs
\* but the one being written are settled, and a command that wrote a JSON file to
\* convert it, a payload fetched as its input or a file with suggestions, converts
\* that file and nothing else.
THEOREM CommandInvariant == CommandSpec => []CommandInv
<1>1. CommandInit => CommandInv
  BY CommandInitInv
<1>2. CommandInv /\ [CommandNext]_commandVars => CommandInv'
  BY CommandStep
<1>3. QED
  BY <1>1, <1>2, PTL DEF CommandSpec

\* The exit status tells of the outputs: after success they hold what was converted
\* for them last, whole, a fetched input and a file with suggestions as they were left
\* on disk, and the others are as they were; after a failure at most the output that
\* was being written is in neither state.
THEOREM ExitIsTrue == CommandSpec => []ExitTellsOutputs
<1>1. CommandInv => ExitTellsOutputs
  BY DEF CommandInv
<1>2. QED
  BY <1>1, CommandInvariant, PTL
=============================================================================
