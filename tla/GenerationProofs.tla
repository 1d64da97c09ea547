---------------------------- MODULE GenerationProofs ----------------------------
(***************************************************************************)
(* Theorems about what generated tests are made from: BlueprintRegistry    *)
(* for every number of programs, all template sources, edits and limits,   *)
(* and TestGeneration for all requests over four categories, totals,       *)
(* scenario types and sizes of a batch, and any number of suites.          *)
(***************************************************************************)
EXTENDS BlueprintRegistry, TestGeneration, CommonLemmas

-----------------------------------------------------------------------------
(***************************************************************************)
(* BlueprintRegistry                                                       *)
(*                                                                         *)
(* The files make a path of places, one after the other, which is a        *)
(* function of them: the cache on disk has no part in it, as a hit is of   *)
(* the stat that was just taken, and a blob that is not torn is of the     *)
(* content that the file had at that stat, whoever wrote it.  The          *)
(* invariant says that a configuration that nobody disturbed stands on the *)
(* path, and that one that has ended came to what the path concludes.      *)
(***************************************************************************)

\* What a configuration knows, without the suite settings, and where it stands in the
\* entries: the steps of an analysis and of its cache file are one place.
Knows(learned, imported, keyed, baseDir) ==
    [learned |-> learned, imported |-> imported, templates |-> keyed, baseDir |-> baseDir]
Spot(at, entry, pos, ingested, got, knows) ==
    [at |-> at, entry |-> entry, pos |-> pos, ingested |-> ingested, got |-> got, knows |-> knows]

KnownTo(r) == Knows(r.learned, r.imported, r.templates, r.baseDir)
Reading == {"load", "read"}
Analysed == {"open", "write", "replace", "register"}
Spotted(q, r) ==
    Spot(IF q.at \in Reading THEN "file" ELSE IF q.at \in Analysed THEN "register" ELSE q.at,
         q.entry, q.pos, q.ingested, q.got, KnownTo(r))

FileAt(x) == Sources[x.entry].files[x.pos]
FactIn(files, f) == [file |-> f, stat |-> files[f].stat, text |-> files[f].text]

\* What the files make of a place.
FirstSpot == Spot("entry", 1, 0, 0, 0, KnownTo(Cleared))
Skipped(x) == Spot("entry", x.entry + 1, x.pos, x.ingested, x.got, x.knows)
Entered(x) ==
    Spot("file", x.entry, 1, x.ingested, x.ingested,
         Knows(x.knows.learned, x.knows.imported, x.knows.templates,
               IF x.knows.baseDir = 0 THEN x.entry ELSE x.knows.baseDir))
Left(x) == Spot("entry", x.entry + 1, 0, x.got, 0, x.knows)
Passed(x) == Spot("file", x.entry, x.pos + 1, x.ingested, x.got, x.knows)
Barred(x) == Spot("entry", x.entry + 1, 0, x.ingested, 0, x.knows)
Taken(x, k) == Spot("file", x.entry, x.pos + 1, x.ingested, x.got + 1, k)
Learned(files, x, imported) ==
    Knows(Append(x.knows.learned, FactIn(files, FileAt(x))), x.knows.imported \cup imported,
          x.knows.templates, x.knows.baseDir)
Keyed(keyed, fact, x) ==
    LET keys == IF Sources[x.entry].keys # {} THEN Sources[x.entry].keys ELSE KeysOf[FileAt(x)]
    IN  [k \in TemplateKeys |-> IF k \in keys /\ keyed[k] = NoFact THEN fact ELSE keyed[k]]

\* The place looks at a file.
AtFile(files, x) ==
    /\ x.at = "file" /\ x.pos <= Len(Sources[x.entry].files)
    /\ Sources[x.entry].directory => files[FileAt(x)].text # "missing"

OnwardFromFile(files, x) ==
    LET text == files[FileAt(x)].text IN
    IF \/ text \in {"missing", "unfit"}
       \/ KindOf[FileAt(x)] = "resource" /\ text = "disallowed"
       THEN Barred(x)
    ELSE IF KindOf[FileAt(x)] = "template"
       THEN Spot("register", x.entry, x.pos, x.ingested, x.got, Learned(files, x, {}))
    ELSE IF KindOf[FileAt(x)] = "resource"
       THEN Taken(x, Learned(files, x, {FileAt(x)}))
       ELSE Taken(x, Learned(files, x, {}))

Onward(files, x) ==
    IF x.at = "entry"
       THEN IF ~Sources[x.entry].directory /\ files[Sources[x.entry].files[1]].text = "missing"
               THEN Skipped(x) ELSE Entered(x)
    ELSE IF x.at = "file" /\ x.pos > Len(Sources[x.entry].files) THEN Left(x)
    ELSE IF AtFile(files, x) THEN OnwardFromFile(files, x)
    ELSE IF x.at = "file" THEN Passed(x)
    ELSE IF files[FileAt(x)].text = "disallowed" THEN Barred(x)
         ELSE Taken(x, Knows(x.knows.learned, x.knows.imported,
                        Keyed(x.knows.templates, FactIn(files, FileAt(x)), x), x.knows.baseDir))

\* A configuration ends at a place.
Concluding(files, x) ==
    \/ x.at = "entry" /\ x.entry > Len(Sources)
    \/ AtFile(files, x) /\ (x.got >= MaxFiles \/ files[FileAt(x)].text = "foreign")
Verdict(x) ==
    [knows |-> x.knows,
     enabled |-> IF x.at = "entry" THEN x.ingested > 0 ELSE x.got >= MaxFiles /\ x.got > 0]

Path(files, n, c) ==
    /\ n \in Nat
    /\ c[0] = FirstSpot
    /\ \A i \in 0..(n - 1) : ~Concluding(files, c[i]) /\ c[i + 1] = Onward(files, c[i])

Concludes(files, r) ==
    \E n, c : /\ Path(files, n, c) /\ Concluding(files, c[n])
              /\ Verdict(c[n]) = [knows |-> KnownTo(r), enabled |-> r.enabled]
Stands(files, x) == \E n, c : Path(files, n, c) /\ c[n] = x

-----------------------------------------------------------------------------
(* One path *)

\* Two paths through the same files agree.
LEMMA PathsAgree ==
    ASSUME NEW files, NEW n, NEW m, NEW c, NEW e, Path(files, n, c), Path(files, m, e),
           NEW i \in 0..n, i <= m
    PROVE  c[i] = e[i]
<1> SUFFICES ASSUME c[i] # e[i] PROVE FALSE
  OBVIOUS
<1> DEFINE T == {j \in 0..n : j <= m /\ c[j] # e[j]}
<1>1. n \in Nat /\ m \in Nat
  BY DEF Path
<1>2. T \subseteq Nat /\ i \in T
  BY <1>1
<1>3. PICK j \in T : \A k \in T : j <= k
  BY <1>2, Least
<1>4. j \in 0..n /\ j <= m /\ c[j] # e[j]
  BY <1>3
<1>5. j # 0
  BY <1>4 DEF Path
<1>6. j - 1 \in 0..(n - 1) /\ j - 1 \in 0..(m - 1) /\ (j - 1) + 1 = j /\ j - 1 \notin T
  BY <1>1, <1>3, <1>4, <1>5
<1>7. c[j - 1] = e[j - 1]
  BY <1>1, <1>6
<1>8. c[(j - 1) + 1] = Onward(files, c[j - 1]) /\ e[(j - 1) + 1] = Onward(files, e[j - 1])
  BY <1>6 DEF Path
<1>9. QED
  BY <1>4, <1>6, <1>7, <1>8

\* Two paths that end do so at the same place.
LEMMA PathsEnd ==
    ASSUME NEW files, NEW n, NEW m, NEW c, NEW e, Path(files, n, c), Path(files, m, e),
           Concluding(files, c[n]), Concluding(files, e[m]), n <= m
    PROVE  c[n] = e[m]
<1>1. n \in Nat /\ m \in Nat
  BY DEF Path
<1>2. c[n] = e[n]
  BY <1>1, PathsAgree
<1>3. n = m
  <2>1. SUFFICES ASSUME n # m PROVE FALSE
    OBVIOUS
  <2>2. n \in 0..(m - 1)
    BY <1>1, <2>1
  <2>3. ~Concluding(files, e[n])
    BY <2>2 DEF Path
  <2>4. QED
    BY <1>2, <2>3
<1>4. QED
  BY <1>2, <1>3

\* Files have one conclusion.
LEMMA ConclusionIsOne ==
    ASSUME NEW files, NEW r, NEW s, Concludes(files, r), Concludes(files, s)
    PROVE  KnownTo(r) = KnownTo(s) /\ r.enabled = s.enabled
<1>1. PICK n, c : /\ Path(files, n, c) /\ Concluding(files, c[n])
                  /\ Verdict(c[n]) = [knows |-> KnownTo(r), enabled |-> r.enabled]
  BY DEF Concludes
<1>2. PICK m, e : /\ Path(files, m, e) /\ Concluding(files, e[m])
                  /\ Verdict(e[m]) = [knows |-> KnownTo(s), enabled |-> s.enabled]
  BY DEF Concludes
<1>3. n \in Nat /\ m \in Nat
  BY <1>1, <1>2 DEF Path
<1>4. n <= m \/ m <= n
  BY <1>3
<1>5. c[n] = e[m]
  BY <1>1, <1>2, <1>4, PathsEnd
<1>6. QED
  BY <1>1, <1>2, <1>5

\* A place that is no conclusion is followed by the next one.
LEMMA PathGoesOn ==
    ASSUME NEW files, NEW x, Stands(files, x), ~Concluding(files, x)
    PROVE  Stands(files, Onward(files, x))
<1>1. PICK n, c : Path(files, n, c) /\ c[n] = x
  BY DEF Stands
<1>2. n \in Nat
  BY <1>1 DEF Path
<1> DEFINE e == [i \in 0..(n + 1) |-> IF i = n + 1 THEN Onward(files, x) ELSE c[i]]
<1>3. e[n + 1] = Onward(files, x) /\ \A i \in 0..n : e[i] = c[i]
  BY <1>2
<1> HIDE DEF e
<1>4. e[0] = FirstSpot
  BY <1>1, <1>2, <1>3 DEF Path
<1>5. ASSUME NEW i \in 0..n PROVE ~Concluding(files, e[i]) /\ e[i + 1] = Onward(files, e[i])
  <2>1. CASE i = n
    BY <1>1, <1>2, <1>3, <2>1
  <2>2. CASE i # n
    <3>1. i \in 0..(n - 1) /\ i + 1 \in 0..n
      BY <1>2, <1>5, <2>2
    <3>2. ~Concluding(files, c[i]) /\ c[i + 1] = Onward(files, c[i])
      BY <1>1, <3>1 DEF Path
    <3>3. QED
      BY <1>3, <3>1, <3>2
  <2>3. QED
    BY <2>1, <2>2
<1>6. n + 1 \in Nat /\ (n + 1) - 1 = n
  BY <1>2
<1>7. Path(files, n + 1, e)
  BY <1>4, <1>5, <1>6 DEF Path
<1>8. QED
  BY <1>3, <1>7 DEF Stands

\* Every path begins at the first entry with nothing learned.
LEMMA PathBegins == ASSUME NEW files PROVE Stands(files, FirstSpot)
<1> DEFINE c == [i \in {0} |-> FirstSpot]
<1>1. c[0] = FirstSpot
  OBVIOUS
<1> HIDE DEF c
<1>2. Path(files, 0, c)
  BY <1>1 DEF Path
<1>3. QED
  BY <1>1, <1>2 DEF Stands

\* A place at which a configuration ends concludes its files.
LEMMA PathConcludes ==
    ASSUME NEW files, NEW x, Stands(files, x), Concluding(files, x), NEW r,
           Verdict(x) = [knows |-> KnownTo(r), enabled |-> r.enabled]
    PROVE  Concludes(files, r)
  BY DEF Stands, Concludes

-----------------------------------------------------------------------------
(* The invariant *)

Wheres == {"rest", "entry", "file"} \cup Reading \cup Analysed
Configs ==
    [at : Wheres, entry : Nat, pos : Nat, ingested : Nat, got : Nat, stat : Stats,
     fact : Facts \cup {NoFact}, inode : Nat]
Registries ==
    [templates : [TemplateKeys -> Facts \cup {NoFact}], learned : Seq(Facts),
     imported : SUBSET TemplateFiles, settings : Seq(Facts), baseDir : Nat, enabled : BOOLEAN]

\* Facts are of contents the files had, and of the present one if the stat is.
Genuine(files, fact) ==
    /\ fact \in Facts /\ fact.text \notin {"missing", "foreign"}
    /\ fact.stat <= files[fact.file].stat
    /\ fact.stat = files[fact.file].stat => fact.text = files[fact.file].text

\* Where a configuration may stand, and what it has in hand there.
InPlace(files, q) ==
    /\ q.at = "entry" => q.entry \in 1..(Len(Sources) + 1)
    /\ q.at \notin {"rest", "entry"} => q.entry \in 1..Len(Sources) /\ q.pos \in Nat \ {0}
    /\ q.at \in Reading \cup Analysed =>
          q.pos <= Len(Sources[q.entry].files) /\ q.stat <= files[FileAt(q)].stat
    /\ q.at \in Analysed \cup {"load"} => KindOf[FileAt(q)] = "template"
    /\ q.at \in Analysed =>
          Genuine(files, q.fact) /\ q.fact.file = FileAt(q) /\ q.stat <= q.fact.stat

\* What has been learned is of the present contents.
Sound(files, r) ==
    /\ \A i \in 1..Len(r.learned) : r.learned[i] = FactIn(files, r.learned[i].file)
    /\ \A k \in TemplateKeys : r.templates[k] # NoFact =>
          /\ r.templates[k].text # "disallowed"
          /\ \E i \in 1..Len(r.learned) : r.learned[i] = r.templates[k]
    /\ r.learned # <<>> => r.baseDir # 0

\* A configuration that runs while the files are left alone.
OnPath(files, q, r) ==
    /\ q.at = "rest" =>
          Concludes(files, r) /\ (r.enabled => r.learned # <<>>)
    /\ q.at # "rest" =>
          /\ Stands(files, Spotted(q, r)) /\ ~r.enabled
          /\ q.ingested > 0 \/ q.got > 0 => r.learned # <<>>
    /\ q.at \notin {"rest", "entry"} => r.baseDir # 0
    /\ q.at \in Reading =>
          /\ AtFile(files, Spotted(q, r)) /\ q.got < MaxFiles
          /\ q.stat = files[FileAt(q)].stat /\ files[FileAt(q)].text \notin {"missing", "unfit"}
    /\ q.at \in Analysed =>
          /\ q.fact = FactIn(files, FileAt(q))
          /\ \E i \in 1..Len(r.learned) : r.learned[i] = q.fact
    /\ Sound(files, r)

\* Each inode belongs to one file.
DiskRight ==
    \E owner \in [1..Len(blobs) -> TemplateFiles] :
        /\ \A f \in TemplateFiles :
              /\ cacheFile[f] # 0 => owner[cacheFile[f]] = f
              /\ tmpFile[f] # 0 => owner[tmpFile[f]] = f
        /\ \A p \in Programs : Configures(p, "write") =>
              /\ configuring[p].inode \in 1..Len(blobs)
              /\ owner[configuring[p].inode] = Current(p)
        /\ \A i \in 1..Len(blobs) : blobs[i] # Torn =>
              /\ Genuine(templates, blobs[i].fact) /\ blobs[i].stat <= blobs[i].fact.stat
              /\ blobs[i].fact.file = owner[i]

BlueprintInv ==
    /\ edits \in Stats /\ templates \in [TemplateFiles -> [stat : 0..edits, text : Texts]]
    /\ blobs \in Seq(Payloads)
    /\ cacheFile \in [TemplateFiles -> 0..Len(blobs)]
    /\ tmpFile \in [TemplateFiles -> 0..Len(blobs)]
    /\ configuring \in [Programs -> Configs] /\ registries \in [Programs -> Registries]
    /\ undisturbed \subseteq Programs
    /\ \A p \in Programs : InPlace(templates, configuring[p])
    /\ \A p \in undisturbed : OnPath(templates, configuring[p], registries[p])
    /\ \A r \in agreed : r \in Registries /\ Concludes(templates, r)
    /\ DiskRight

-----------------------------------------------------------------------------
(* One program moves *)

\* What a step must do that changes one program only, and no file.
LEMMA OneMoves ==
    ASSUME BlueprintInv, NEW p \in Programs, NEW q \in Configs, NEW r \in Registries,
           configuring' = [configuring EXCEPT ![p] = q],
           registries' = [registries EXCEPT ![p] = r],
           templates' = templates, edits' = edits, InPlace(templates, q),
           undisturbed' \subseteq undisturbed \cup {p},
           p \in undisturbed' => OnPath(templates, q, r),
           \A s \in agreed' : s \in agreed \/ (s \in Registries /\ Concludes(templates, s)),
           blobs' \in Seq(Payloads), cacheFile' \in [TemplateFiles -> 0..Len(blobs')],
           tmpFile' \in [TemplateFiles -> 0..Len(blobs')], DiskRight'
    PROVE  BlueprintInv'
<1>1. configuring' \in [Programs -> Configs] /\ registries' \in [Programs -> Registries]
  BY DEF BlueprintInv
<1>2. \A o \in Programs \ {p} : configuring'[o] = configuring[o] /\ registries'[o] = registries[o]
  BY DEF BlueprintInv
<1>3. configuring'[p] = q /\ registries'[p] = r
  BY DEF BlueprintInv
<1>4. undisturbed' \subseteq Programs
  BY DEF BlueprintInv
<1>5. \A o \in Programs : InPlace(templates, configuring'[o])
  BY <1>2, <1>3 DEF BlueprintInv
<1>6. \A o \in undisturbed' : OnPath(templates, configuring'[o], registries'[o])
  <2>1. SUFFICES ASSUME NEW o \in undisturbed'
                 PROVE  OnPath(templates, configuring'[o], registries'[o])
    OBVIOUS
  <2>2. CASE o = p
    BY <1>3, <2>2
  <2>3. CASE o # p
    <3>1. o \in undisturbed /\ o \in Programs
      BY <1>4, <2>3
    <3>2. QED
      BY <1>2, <2>3, <3>1 DEF BlueprintInv
  <2>4. QED
    BY <2>2, <2>3
<1>7. \A s \in agreed' : s \in Registries /\ Concludes(templates, s)
  BY DEF BlueprintInv
<1>8. edits' \in Stats /\ templates' \in [TemplateFiles -> [stat : 0..(edits'), text : Texts]]
  BY DEF BlueprintInv
<1>9. QED
  BY <1>1, <1>4, <1>5, <1>6, <1>7, <1>8 DEF BlueprintInv

\* A move that leaves the disk alone.
LEMMA OneMovesOn ==
    ASSUME BlueprintInv, NEW p \in Programs, NEW q \in Configs, NEW r \in Registries,
           configuring' = [configuring EXCEPT ![p] = q],
           registries' = [registries EXCEPT ![p] = r],
           UNCHANGED filesVars, InPlace(templates, q), q.at # "write",
           undisturbed' \subseteq undisturbed \cup {p},
           p \in undisturbed' => OnPath(templates, q, r),
           \A s \in agreed' : s \in agreed \/ (s \in Registries /\ Concludes(templates, s))
    PROVE  BlueprintInv'
<1>1. /\ templates' = templates /\ edits' = edits /\ blobs' = blobs
      /\ cacheFile' = cacheFile /\ tmpFile' = tmpFile
  BY DEF filesVars
<1>2. blobs' \in Seq(Payloads) /\ cacheFile' \in [TemplateFiles -> 0..Len(blobs')]
      /\ tmpFile' \in [TemplateFiles -> 0..Len(blobs')]
  BY <1>1 DEF BlueprintInv
<1>3. DiskRight'
  <2>1. PICK owner \in [1..Len(blobs) -> TemplateFiles] :
            /\ \A f \in TemplateFiles :
                  /\ cacheFile[f] # 0 => owner[cacheFile[f]] = f
                  /\ tmpFile[f] # 0 => owner[tmpFile[f]] = f
            /\ \A o \in Programs : Configures(o, "write") =>
                  /\ configuring[o].inode \in 1..Len(blobs)
                  /\ owner[configuring[o].inode] = Current(o)
            /\ \A i \in 1..Len(blobs) : blobs[i] # Torn =>
                  /\ Genuine(templates, blobs[i].fact) /\ blobs[i].stat <= blobs[i].fact.stat
                  /\ blobs[i].fact.file = owner[i]
    BY DEF BlueprintInv, DiskRight
  <2>2. ASSUME NEW o \in Programs, configuring'[o].at = "write"
        PROVE  /\ configuring'[o].inode \in 1..Len(blobs)
               /\ owner[configuring'[o].inode] =
                     Sources[configuring'[o].entry].files[configuring'[o].pos]
    <3>1. o # p /\ configuring'[o] = configuring[o]
      BY <2>2 DEF BlueprintInv
    <3>2. QED
      BY <2>1, <2>2, <3>1 DEF Configures, Current, Source
  <2>3. QED
    BY <1>1, <2>1, <2>2 DEF DiskRight, Configures, Current, Source
<1>4. QED
  BY <1>1, <1>2, <1>3, OneMoves

-----------------------------------------------------------------------------
(* Records *)

\* A configuration that is between two files or entries is what Between says.
LEMMA BetweenIs ==
    ASSUME NEW at \in Wheres, NEW entry \in Nat, NEW pos \in Nat, NEW ingested \in Nat,
           NEW got \in Nat, NEW q, q = Between(at, entry, pos, ingested, got)
    PROVE  /\ q \in Configs
           /\ q.at = at /\ q.entry = entry /\ q.pos = pos /\ q.ingested = ingested /\ q.got = got
<1>1. 0 \in Stats /\ NoFact \in Facts \cup {NoFact} /\ 0 \in Nat
  BY BlueprintAssumption DEF Stats
<1> HIDE DEF Wheres
<1>2. QED
  BY <1>1 DEF Between, Configs

\* A fact about a template file is what the file has now.
LEMMA FactInIs ==
    ASSUME BlueprintInv, NEW f \in TemplateFiles
    PROVE  /\ FactIn(templates, f) \in Facts /\ Fact(f) = FactIn(templates, f)
           /\ templates[f].stat \in Nat /\ templates[f].stat <= edits /\ templates[f].text \in Texts
<1>1. templates[f] \in [stat : 0..edits, text : Texts] /\ edits \in 0..MaxEdits /\ MaxEdits \in Nat
  BY BlueprintAssumption DEF BlueprintInv, Stats
<1>2. templates[f].stat \in 0..MaxEdits /\ templates[f].text \in Texts /\ templates[f].stat <= edits
  <2> HIDE DEF Texts
  <2>1. QED
    BY <1>1
<1> HIDE DEF Texts
<1>3. QED
  BY <1>1, <1>2 DEF Fact, FactIn, Facts, Stats

\* A list with one element more.
LEMMA AppendIs ==
    ASSUME NEW S, NEW s \in Seq(S), NEW e \in S
    PROVE  /\ Append(s, e) \in Seq(S) /\ Append(s, e) # <<>>
           /\ Len(Append(s, e)) = Len(s) + 1 /\ Len(s) \in Nat
           /\ Append(s, e)[Len(s) + 1] = e
           /\ \A i \in 1..Len(s) : Append(s, e)[i] = s[i]
  OBVIOUS

\* A registry that learns a fact has it last, and all else as before.
LEMMA LearnIs ==
    ASSUME NEW reg \in Registries, NEW fact \in Facts, NEW cached \in BOOLEAN,
           NEW r, r = Learn(reg, fact, cached)
    PROVE  /\ r \in Registries /\ r.learned = Append(reg.learned, fact)
           /\ r.templates = reg.templates /\ r.imported = reg.imported
           /\ r.baseDir = reg.baseDir /\ r.enabled = reg.enabled
<1>1. reg.learned \in Seq(Facts) /\ reg.settings \in Seq(Facts)
  BY DEF Registries
<1>2. PICK s : s = IF fact.text = "settings" /\ ~cached THEN Append(reg.settings, fact)
                   ELSE reg.settings
  OBVIOUS
<1>3. s \in Seq(Facts) /\ Append(reg.learned, fact) \in Seq(Facts)
  BY <1>1, <1>2, AppendIs
<1>4. PICK l \in Seq(Facts) : l = Append(reg.learned, fact)
  BY <1>3
<1>5. r = [reg EXCEPT !.learned = l, !.settings = s]
  BY <1>2, <1>4 DEF Learn
<1>6. reg \in Registries /\ s \in Seq(Facts) /\ l \in Seq(Facts)
  BY <1>3, <1>4
<1>7. /\ r \in Registries /\ r.learned = l
      /\ r.templates = reg.templates /\ r.imported = reg.imported
      /\ r.baseDir = reg.baseDir /\ r.enabled = reg.enabled
  BY ONLY <1>5, <1>6 DEF Registries
<1>8. QED
  BY <1>4, <1>7

\* A new fact of a present content.
LEMMA SoundGrows ==
    ASSUME NEW files, NEW reg \in Registries, NEW r \in Registries, NEW fact \in Facts,
           Sound(files, reg), reg.baseDir # 0, fact = FactIn(files, fact.file),
           r.learned = Append(reg.learned, fact),
           r.templates = reg.templates, r.baseDir = reg.baseDir
    PROVE  Sound(files, r) /\ r.learned # <<>> /\ \E i \in 1..Len(r.learned) : r.learned[i] = fact
<1>1. reg.learned \in Seq(Facts)
  BY DEF Registries
<1> DEFINE n == Len(reg.learned)
<1>2. /\ r.learned # <<>> /\ Len(r.learned) = n + 1 /\ n \in Nat /\ r.learned[n + 1] = fact
      /\ \A i \in 1..n : r.learned[i] = reg.learned[i]
  BY <1>1, AppendIs
<1> HIDE DEF n
<1>3. \A i \in 1..(n + 1) : i \in 1..n \/ i = n + 1
  BY <1>2
<1>4. \A i \in 1..Len(r.learned) : r.learned[i] = FactIn(files, r.learned[i].file)
  <2>1. \A i \in 1..n : reg.learned[i] = FactIn(files, reg.learned[i].file)
    BY DEF Sound, n
  <2>2. SUFFICES ASSUME NEW i \in 1..(n + 1)
                 PROVE  r.learned[i] = FactIn(files, r.learned[i].file)
    BY <1>2
  <2>3. QED
    BY <1>2, <1>3, <2>1
<1>5. \A i \in 1..n : i \in 1..Len(r.learned)
  BY <1>2
<1>6. \A k \in TemplateKeys : r.templates[k] # NoFact =>
          /\ r.templates[k].text # "disallowed"
          /\ \E i \in 1..Len(r.learned) : r.learned[i] = r.templates[k]
  <2>1. \A k \in TemplateKeys : reg.templates[k] # NoFact =>
          /\ reg.templates[k].text # "disallowed"
          /\ \E i \in 1..n : reg.learned[i] = reg.templates[k]
    BY DEF Sound, n
  <2>2. QED
    BY <1>2, <1>5, <2>1
<1>7. n + 1 \in 1..Len(r.learned)
  BY <1>2
<1>8. QED
  BY <1>2, <1>4, <1>6, <1>7 DEF Sound

\* What the invariant says of one program.
LEMMA HereIs ==
    ASSUME BlueprintInv, NEW p \in Programs
    PROVE  /\ configuring[p] \in Configs /\ registries[p] \in Registries
           /\ InPlace(templates, configuring[p])
           /\ p \in undisturbed => OnPath(templates, configuring[p], registries[p])
           /\ registries = [registries EXCEPT ![p] = registries[p]]
           /\ Source(p) = Sources[configuring[p].entry] /\ Current(p) = FileAt(configuring[p])
<1> HIDE DEF Configs, Registries, InPlace, OnPath
<1>1. QED
  BY DEF BlueprintInv, Source, Current, FileAt

\* The fields of a configuration.
LEMMA ConfigIs ==
    ASSUME NEW q \in Configs
    PROVE  /\ q.at \in Wheres /\ q.entry \in Nat /\ q.pos \in Nat /\ q.ingested \in Nat
           /\ q.got \in Nat /\ q.stat \in Stats /\ q.inode \in Nat
<1> HIDE DEF Wheres, Facts, Stats
<1>1. QED
  BY DEF Configs

\* An element of a list.
LEMMA ElementIs ==
    ASSUME NEW S, NEW s \in Seq(S), NEW i \in 1..Len(s)
    PROVE  s[i] \in S /\ i \in DOMAIN s
  OBVIOUS

\* The fields of an entry of the template sources.
LEMMA EntryIs ==
    ASSUME NEW i \in 1..Len(Sources)
    PROVE  /\ Sources[i].directory \in BOOLEAN /\ Sources[i].files \in Seq(TemplateFiles)
           /\ Sources[i].keys \subseteq TemplateKeys /\ Len(Sources[i].files) \in Nat
           /\ \A j \in 1..Len(Sources[i].files) : Sources[i].files[j] \in TemplateFiles
           /\ ~Sources[i].directory => Len(Sources[i].files) = 1
<1>1. Sources \in Seq([directory : BOOLEAN, files : Seq(TemplateFiles), keys : SUBSET TemplateKeys])
  BY BlueprintAssumption
<1>2. Sources[i] \in [directory : BOOLEAN, files : Seq(TemplateFiles), keys : SUBSET TemplateKeys]
      /\ i \in DOMAIN Sources
  BY ONLY <1>1, i \in 1..Len(Sources), ElementIs
<1>3. ~Sources[i].directory => Len(Sources[i].files) = 1
  BY <1>2, BlueprintAssumption
<1>4. QED
  BY <1>2, <1>3

\* The fields of a place.
LEMMA SpottedIs ==
    ASSUME NEW q, NEW r, NEW x, x = Spotted(q, r)
    PROVE  /\ x.entry = q.entry /\ x.pos = q.pos /\ x.ingested = q.ingested /\ x.got = q.got
           /\ x.knows = KnownTo(r) /\ FileAt(x) = FileAt(q)
           /\ x.at = IF q.at \in Reading THEN "file"
                     ELSE IF q.at \in Analysed THEN "register" ELSE q.at
<1> HIDE DEF Reading, Analysed, KnownTo
<1>1. QED
  BY DEF Spotted, Spot, FileAt

\* The fields of what a registry knows.
LEMMA KnownIs ==
    ASSUME NEW r
    PROVE  /\ KnownTo(r).learned = r.learned /\ KnownTo(r).imported = r.imported
           /\ KnownTo(r).templates = r.templates /\ KnownTo(r).baseDir = r.baseDir
  BY DEF KnownTo, Knows

\* A registry that was cleared knows nothing, which nothing contradicts.
LEMMA ClearedIs ==
    ASSUME NEW files
    PROVE  Cleared \in Registries /\ Sound(files, Cleared) /\ ~Cleared.enabled
<1> HIDE DEF Facts
<1>1. Cleared \in Registries
  BY DEF Cleared, Registries
<1>2. QED
  BY <1>1 DEF Cleared, Sound

-----------------------------------------------------------------------------
(* The actions *)

\* configure_template_sources begins: the registry is cleared.
LEMMA ConfigureKeeps ==
    ASSUME BlueprintInv, NEW p \in Programs, Configure(p) PROVE BlueprintInv'
<1>1. PICK q : q = Between("entry", 1, 0, 0, 0)
  OBVIOUS
<1>2. PICK r : r = Cleared
  OBVIOUS
<1>3. q \in Configs /\ q.at = "entry" /\ q.entry = 1 /\ q.pos = 0 /\ q.ingested = 0 /\ q.got = 0
  <2>1. "entry" \in Wheres
    BY DEF Wheres
  <2>2. QED
    BY ONLY <1>1, <2>1, BetweenIs
<1>4. r \in Registries /\ Sound(templates, r) /\ ~r.enabled
  BY <1>2, ClearedIs
<1>5. Spotted(q, r) = FirstSpot
  BY <1>2, <1>3 DEF Spotted, FirstSpot, Reading, Analysed
<1>6. InPlace(templates, q)
  <2>1. 1 \in 1..(Len(Sources) + 1)
    BY BlueprintAssumption
  <2>2. QED
    BY <1>3, <2>1 DEF InPlace, Reading, Analysed
<1>7. OnPath(templates, q, r)
  BY <1>3, <1>4, <1>5, PathBegins DEF OnPath, Reading, Analysed
<1>8. QED
  BY <1>1, <1>2, <1>3, <1>4, <1>6, <1>7, OneMovesOn DEF Configure

\* A configuration that ends, at a place where the path does.
LEMMA EndKeeps ==
    ASSUME BlueprintInv, NEW p \in Programs, NEW enabled \in BOOLEAN, Ends(p, enabled),
           UNCHANGED filesVars, undisturbed' = undisturbed, ~Configures(p, "rest"),
           p \in undisturbed =>
              /\ Concluding(templates, Spotted(configuring[p], registries[p]))
              /\ Verdict(Spotted(configuring[p], registries[p])).enabled = enabled
              /\ enabled => configuring[p].ingested > 0 \/ configuring[p].got > 0
    PROVE  BlueprintInv'
<1>1. PICK q : q = Outside
  OBVIOUS
<1>2. PICK r : r = [registries[p] EXCEPT !.enabled = enabled]
  OBVIOUS
<1>3. q \in Configs /\ q.at = "rest"
  <2>1. "rest" \in Wheres /\ 0 \in Nat
    BY DEF Wheres
  <2>2. q = Between("rest", 0, 0, 0, 0)
    BY <1>1 DEF Outside
  <2>3. QED
    BY ONLY <2>1, <2>2, BetweenIs
<1>4. /\ r \in Registries /\ r.enabled = enabled /\ r.learned = registries[p].learned
      /\ r.templates = registries[p].templates /\ r.imported = registries[p].imported
      /\ r.baseDir = registries[p].baseDir
  <2>1. registries[p] \in Registries
    BY HereIs
  <2> HIDE DEF Facts
  <2>2. QED
    BY <1>2, <2>1 DEF Registries
<1>5. KnownTo(r) = KnownTo(registries[p])
  BY <1>4 DEF KnownTo
<1>6. p \in undisturbed => Concludes(templates, r) /\ OnPath(templates, q, r)
  <2>1. SUFFICES ASSUME p \in undisturbed
                 PROVE  Concludes(templates, r) /\ OnPath(templates, q, r)
    OBVIOUS
  <2>2. OnPath(templates, configuring[p], registries[p]) /\ configuring[p].at # "rest"
    BY <2>1, HereIs DEF Configures
  <2>3. PICK x : x = Spotted(configuring[p], registries[p])
    OBVIOUS
  <2>4. Stands(templates, x) /\ Concluding(templates, x) /\ Sound(templates, registries[p])
    BY <2>1, <2>2, <2>3 DEF OnPath
  <2>5. Verdict(x) = [knows |-> KnownTo(r), enabled |-> r.enabled]
    <3>1. x.knows = KnownTo(r)
      BY <1>5, <2>3, SpottedIs
    <3>2. QED
      BY <1>4, <2>1, <2>3, <3>1 DEF Verdict
  <2>6. Concludes(templates, r)
    BY <2>4, <2>5, PathConcludes
  <2>7. Sound(templates, r)
    BY <1>4, <2>4 DEF Sound
  <2>8. r.enabled => r.learned # <<>>
    BY <1>4, <2>1, <2>2 DEF OnPath
  <2>9. QED
    BY <1>3, <2>6, <2>7, <2>8 DEF OnPath, Reading, Analysed
<1>7. InPlace(templates, q)
  BY <1>3 DEF InPlace, Reading, Analysed
<1>8. \A s \in agreed' : s \in agreed \/ (s \in Registries /\ Concludes(templates, s))
  <2>1. agreed' = IF agreed = {} /\ p \in undisturbed THEN {r} ELSE agreed
    BY <1>2 DEF Ends
  <2>2. QED
    BY <1>4, <1>6, <2>1
<1>9. QED
  BY <1>1, <1>2, <1>3, <1>4, <1>6, <1>7, <1>8, OneMovesOn DEF Ends

\* All entries are done: the templates are enabled if a file was ingested.
LEMMA EndOfEntriesKeeps ==
    ASSUME BlueprintInv, NEW p \in Programs, EndOfEntries(p) PROVE BlueprintInv'
<1>1. PICK x : x = Spotted(configuring[p], registries[p])
  OBVIOUS
<1>2. configuring[p].at = "entry" /\ configuring[p].entry > Len(Sources)
  BY DEF EndOfEntries, Configures
<1>3. x.at = "entry" /\ x.entry > Len(Sources) /\ x.ingested = configuring[p].ingested
  BY <1>1, <1>2, SpottedIs DEF Reading, Analysed
<1>4. Concluding(templates, x) /\ Verdict(x).enabled = (configuring[p].ingested > 0)
  BY <1>3 DEF Concluding, Verdict
<1>5. (configuring[p].ingested > 0) \in BOOLEAN
  OBVIOUS
<1>6. Ends(p, configuring[p].ingested > 0) /\ UNCHANGED filesVars /\ undisturbed' = undisturbed
      /\ ~Configures(p, "rest")
  BY <1>2 DEF EndOfEntries, Configures
<1>7. QED
  BY <1>1, <1>4, <1>5, <1>6, EndKeeps

\* The limit of files ends the configuration.
LEMMA LimitReachedKeeps ==
    ASSUME BlueprintInv, NEW p \in Programs, LimitReached(p) PROVE BlueprintInv'
<1>1. PICK x : x = Spotted(configuring[p], registries[p])
  OBVIOUS
<1>2. configuring[p].at = "file" /\ configuring[p].got >= MaxFiles
  BY DEF LimitReached, Configures
<1>3. /\ x.at = "file" /\ x.entry = configuring[p].entry /\ x.pos = configuring[p].pos
      /\ x.got = configuring[p].got /\ FileAt(x) = Current(p)
  <2>1. Current(p) = FileAt(configuring[p])
    BY HereIs
  <2>2. QED
    BY <1>1, <1>2, <2>1, SpottedIs DEF Reading, Analysed
<1>4. AtFile(templates, x)
  BY <1>3 DEF AtFile, LimitReached, Source, Found
<1>5. Concluding(templates, x) /\ Verdict(x).enabled = (configuring[p].got > 0)
  BY <1>2, <1>3, <1>4 DEF Concluding, Verdict
<1>6. (configuring[p].got > 0) \in BOOLEAN
  OBVIOUS
<1>7. Ends(p, configuring[p].got > 0) /\ UNCHANGED filesVars /\ undisturbed' = undisturbed
      /\ ~Configures(p, "rest")
  BY <1>2 DEF LimitReached, Configures
<1>8. QED
  BY <1>1, <1>5, <1>6, <1>7, EndKeeps

\* A file that cannot be decoded ends the configuration.
LEMMA ReadRaisesKeeps ==
    ASSUME BlueprintInv, NEW p \in Programs, ReadRaises(p) PROVE BlueprintInv'
<1>1. PICK x : x = Spotted(configuring[p], registries[p])
  OBVIOUS
<1>2. configuring[p].at = "read" /\ Current(p) = FileAt(configuring[p])
  BY HereIs DEF ReadRaises, Configures
<1>3. x.at = "file" /\ x.got = configuring[p].got /\ FileAt(x) = Current(p)
  BY <1>1, <1>2, SpottedIs DEF Reading
<1>4. p \in undisturbed => Concluding(templates, x) /\ Verdict(x).enabled = FALSE
  <2>1. SUFFICES ASSUME p \in undisturbed
                 PROVE  Concluding(templates, x) /\ Verdict(x).enabled = FALSE
    OBVIOUS
  <2>2. OnPath(templates, configuring[p], registries[p])
    BY <2>1, HereIs
  <2>3. AtFile(templates, x) /\ configuring[p].got < MaxFiles
    BY <1>1, <1>2, <2>2 DEF OnPath, Reading
  <2>4. templates[FileAt(x)].text = "foreign"
    BY <1>3 DEF ReadRaises
  <2>5. configuring[p].got \in Nat /\ MaxFiles \in Nat
    BY HereIs, ConfigIs, BlueprintAssumption
  <2>6. ~(x.got >= MaxFiles)
    BY <1>3, <2>3, <2>5
  <2>7. QED
    BY <1>3, <2>3, <2>4, <2>6 DEF Concluding, Verdict
<1>5. Ends(p, FALSE) /\ UNCHANGED filesVars /\ undisturbed' = undisturbed
      /\ ~Configures(p, "rest")
  BY <1>2 DEF ReadRaises, Configures
<1>6. QED
  BY <1>1, <1>4, <1>5, EndKeeps

\* A program dies: its registry is gone, and what it has on disk stays.
LEMMA ProgramDiesKeeps ==
    ASSUME BlueprintInv, NEW p \in Programs, ProgramDies(p) PROVE BlueprintInv'
<1>1. PICK q : q = Outside
  OBVIOUS
<1>2. PICK r : r = Cleared
  OBVIOUS
<1>3. q \in Configs /\ q.at = "rest"
  <2>1. "rest" \in Wheres /\ 0 \in Nat
    BY DEF Wheres
  <2>2. q = Between("rest", 0, 0, 0, 0)
    BY <1>1 DEF Outside
  <2>3. QED
    BY ONLY <2>1, <2>2, BetweenIs
<1>4. r \in Registries
  BY <1>2, ClearedIs
<1>5. InPlace(templates, q)
  BY <1>3 DEF InPlace, Reading, Analysed
<1>6. p \notin undisturbed'
  BY DEF ProgramDies
<1>7. QED
  BY <1>1, <1>2, <1>3, <1>4, <1>5, <1>6, OneMovesOn DEF ProgramDies

\* On from an undisturbed place.
LEMMA GoesOn ==
    ASSUME BlueprintInv, NEW p \in undisturbed, ~Configures(p, "rest"),
           NEW x, x = Spotted(configuring[p], registries[p]), ~Concluding(templates, x)
    PROVE  Stands(templates, Onward(templates, x))
<1>1. p \in Programs
  BY DEF BlueprintInv
<1>2. OnPath(templates, configuring[p], registries[p])
  BY <1>1, HereIs
<1>3. Stands(templates, x)
  BY <1>2 DEF OnPath, Configures
<1>4. QED
  BY <1>3, PathGoesOn

\* An entry is begun, or is passed over as its single file is missing.
LEMMA TakeEntryKeeps ==
    ASSUME BlueprintInv, NEW p \in Programs, TakeEntry(p) PROVE BlueprintInv'
<1> DEFINE e == configuring[p].entry
           skips == ~Source(p).directory /\ ~Found(Source(p).files[1])
<1>1. /\ configuring[p] \in Configs /\ registries[p] \in Registries
      /\ InPlace(templates, configuring[p]) /\ Source(p) = Sources[e]
      /\ registries = [registries EXCEPT ![p] = registries[p]]
      /\ p \in undisturbed => OnPath(templates, configuring[p], registries[p])
  BY HereIs
<1>2. configuring[p].at = "entry" /\ e <= Len(Sources) /\ e \in 1..Len(Sources)
  <2>1. configuring[p].at = "entry" /\ e <= Len(Sources)
    BY DEF TakeEntry, Configures
  <2>2. e \in 1..(Len(Sources) + 1) /\ Len(Sources) \in Nat
    BY <1>1, <2>1, BlueprintAssumption DEF InPlace
  <2>3. QED
    BY <2>1, <2>2
<1>3. /\ configuring[p].pos \in Nat /\ configuring[p].ingested \in Nat /\ configuring[p].got \in Nat
      /\ e \in Nat
  BY <1>1, ConfigIs
<1>4. PICK x : x = Spotted(configuring[p], registries[p])
  OBVIOUS
<1>5. /\ x.at = "entry" /\ x.entry = e /\ x.pos = configuring[p].pos
      /\ x.ingested = configuring[p].ingested /\ x.got = configuring[p].got
      /\ x.knows = KnownTo(registries[p])
  BY <1>2, <1>4, SpottedIs DEF Reading, Analysed
<1>6. ~Concluding(templates, x)
  BY <1>2, <1>3, <1>5, BlueprintAssumption DEF Concluding, AtFile
<1>7. skips <=> ~Sources[x.entry].directory
                /\ templates[Sources[x.entry].files[1]].text = "missing"
  BY <1>1, <1>5 DEF Found
<1>8. p \in undisturbed => Stands(templates, IF skips THEN Skipped(x) ELSE Entered(x))
  <2>1. SUFFICES ASSUME p \in undisturbed
                 PROVE  Stands(templates, IF skips THEN Skipped(x) ELSE Entered(x))
    OBVIOUS
  <2>2. ~Configures(p, "rest")
    BY <1>2 DEF Configures
  <2>3. Stands(templates, Onward(templates, x))
    BY <1>4, <1>6, <2>1, <2>2, GoesOn
  <2>4. Onward(templates, x) = IF skips THEN Skipped(x) ELSE Entered(x)
    BY <1>5, <1>7 DEF Onward
  <2>5. QED
    BY <2>3, <2>4
<1>9. UNCHANGED filesVars /\ undisturbed' = undisturbed /\ agreed' = agreed
  BY DEF TakeEntry
<1>10. CASE skips
  <2>1. PICK q : q = [configuring[p] EXCEPT !.entry = e + 1]
    OBVIOUS
  <2>2. /\ q \in Configs /\ q.at = "entry" /\ q.entry = e + 1 /\ q.pos = configuring[p].pos
        /\ q.ingested = configuring[p].ingested /\ q.got = configuring[p].got
    BY SMTT(30), <1>1, <1>2, <1>3, <2>1 DEF Configs
  <2>3. configuring' = [configuring EXCEPT ![p] = q] /\ registries' = registries
    BY <1>10, <2>1 DEF TakeEntry
  <2>4. InPlace(templates, q)
    BY <1>2, <2>2, BlueprintAssumption DEF InPlace, Reading, Analysed
  <2>5. Spotted(q, registries[p]) = Skipped(x)
    BY <1>5, <2>2 DEF Spotted, Skipped, Reading, Analysed
  <2>6. p \in undisturbed => OnPath(templates, q, registries[p])
    BY <1>1, <1>2, <1>8, <1>10, <2>2, <2>5 DEF OnPath, Reading, Analysed
  <2>7. QED
    BY <1>1, <1>9, <2>2, <2>3, <2>4, <2>6, OneMovesOn
<1>11. CASE ~skips
  <2>1. PICK q : q = Between("file", e, 1, configuring[p].ingested, configuring[p].ingested)
    OBVIOUS
  <2>2. PICK b \in Nat : b = IF registries[p].baseDir = 0 THEN e ELSE registries[p].baseDir
    BY <1>1, <1>3 DEF Registries
  <2>3. PICK r : r = [registries[p] EXCEPT !.baseDir = b]
    OBVIOUS
  <2>4. /\ q \in Configs /\ q.at = "file" /\ q.entry = e /\ q.pos = 1
        /\ q.ingested = configuring[p].ingested /\ q.got = configuring[p].ingested
    <3>1. "file" \in Wheres /\ 1 \in Nat /\ 0 \in Stats
      BY BlueprintAssumption DEF Wheres, Stats
    <3>2. QED
      BY <1>3, <2>1, <3>1 DEF Between, Configs
  <2>5. /\ r \in Registries /\ r.baseDir = b /\ r.learned = registries[p].learned
        /\ r.templates = registries[p].templates /\ r.imported = registries[p].imported
        /\ r.enabled = registries[p].enabled
    BY <1>1, <2>3 DEF Registries
  <2>6. configuring' = [configuring EXCEPT ![p] = q] /\ registries' = [registries EXCEPT ![p] = r]
    BY <1>1, <1>11, <2>1, <2>2, <2>3 DEF TakeEntry
  <2>7. InPlace(templates, q)
    BY <1>2, <2>4 DEF InPlace, Reading, Analysed
  <2>8. Spotted(q, r) = Entered(x)
    BY <1>5, <2>2, <2>4, <2>5, KnownIs DEF Spotted, Entered, KnownTo, Reading, Analysed
  <2>9. p \in undisturbed => OnPath(templates, q, r)
    <3>1. SUFFICES ASSUME p \in undisturbed PROVE OnPath(templates, q, r)
      OBVIOUS
    <3>2. OnPath(templates, configuring[p], registries[p]) /\ Stands(templates, Spotted(q, r))
      BY <1>1, <1>8, <1>11, <2>8, <3>1
    <3>3. b # 0
      BY <1>2, <2>2
    <3>4. Sound(templates, r)
      BY <2>5, <3>2, <3>3 DEF OnPath, Sound
    <3>5. QED
      BY <1>2, <1>3, <2>4, <2>5, <3>2, <3>3, <3>4 DEF OnPath, Reading, Analysed
  <2>10. QED
    BY <1>9, <2>4, <2>5, <2>6, <2>7, <2>9, OneMovesOn
<1>12. QED
  BY <1>10, <1>11

\* The files of an entry are done.
LEMMA EndOfEntryKeeps ==
    ASSUME BlueprintInv, NEW p \in Programs, EndOfEntry(p) PROVE BlueprintInv'
<1> DEFINE e == configuring[p].entry
<1>1. /\ configuring[p] \in Configs /\ registries[p] \in Registries
      /\ InPlace(templates, configuring[p]) /\ Source(p) = Sources[e]
      /\ registries = [registries EXCEPT ![p] = registries[p]]
      /\ p \in undisturbed => OnPath(templates, configuring[p], registries[p])
  BY HereIs
<1>2. configuring[p].at = "file" /\ e \in 1..Len(Sources) /\ configuring[p].pos > Len(Sources[e].files)
  BY <1>1 DEF EndOfEntry, Configures, InPlace
<1>3. configuring[p].pos \in Nat /\ configuring[p].got \in Nat /\ e \in Nat
  BY <1>1, ConfigIs
<1>4. PICK x : x = Spotted(configuring[p], registries[p])
  OBVIOUS
<1>5. /\ x.at = "file" /\ x.entry = e /\ x.pos = configuring[p].pos /\ x.got = configuring[p].got
      /\ x.knows = KnownTo(registries[p])
  BY <1>2, <1>4, SpottedIs DEF Reading, Analysed
<1>6. ~Concluding(templates, x)
  BY <1>2, <1>3, <1>5, EntryIs DEF Concluding, AtFile
<1>7. PICK q : q = Between("entry", e + 1, 0, configuring[p].got, 0)
  OBVIOUS
<1>8. /\ q \in Configs /\ q.at = "entry" /\ q.entry = e + 1 /\ q.pos = 0
      /\ q.ingested = configuring[p].got /\ q.got = 0
  <2>1. "entry" \in Wheres /\ e + 1 \in Nat /\ 0 \in Stats
    BY <1>3, BlueprintAssumption DEF Wheres, Stats
  <2>2. QED
    BY <1>3, <1>7, <2>1 DEF Between, Configs
<1>9. InPlace(templates, q)
  BY <1>2, <1>8, BlueprintAssumption DEF InPlace, Reading, Analysed
<1>10. Onward(templates, x) = Spotted(q, registries[p])
  BY <1>2, <1>5, <1>8 DEF Onward, Left, Spotted, Reading, Analysed
<1>11. p \in undisturbed => OnPath(templates, q, registries[p])
  <2>1. SUFFICES ASSUME p \in undisturbed PROVE OnPath(templates, q, registries[p])
    OBVIOUS
  <2>2. ~Configures(p, "rest")
    BY <1>2 DEF Configures
  <2>3. Stands(templates, Spotted(q, registries[p]))
    BY <1>4, <1>6, <1>10, <2>1, <2>2, GoesOn
  <2>4. QED
    BY <1>1, <1>2, <1>8, <2>1, <2>3 DEF OnPath, Reading, Analysed
<1>12. /\ UNCHANGED filesVars /\ undisturbed' = undisturbed /\ agreed' = agreed
       /\ registries' = registries /\ configuring' = [configuring EXCEPT ![p] = q]
  BY <1>7 DEF EndOfEntry
<1>13. QED
  BY <1>1, <1>8, <1>9, <1>11, <1>12, OneMovesOn

\* A file of a directory that is missing is passed over.
LEMMA PassOverKeeps ==
    ASSUME BlueprintInv, NEW p \in Programs, PassOver(p) PROVE BlueprintInv'
<1> DEFINE e == configuring[p].entry
<1>1. /\ configuring[p] \in Configs /\ registries[p] \in Registries
      /\ InPlace(templates, configuring[p]) /\ Source(p) = Sources[e]
      /\ Current(p) = FileAt(configuring[p])
      /\ registries = [registries EXCEPT ![p] = registries[p]]
      /\ p \in undisturbed => OnPath(templates, configuring[p], registries[p])
  BY HereIs
<1>2. /\ configuring[p].at = "file" /\ e \in 1..Len(Sources)
      /\ configuring[p].pos <= Len(Sources[e].files) /\ Sources[e].directory
      /\ templates[FileAt(configuring[p])].text = "missing"
  BY <1>1 DEF PassOver, Configures, InPlace, Found
<1>3. configuring[p].pos \in Nat /\ e \in Nat
  BY <1>1, ConfigIs
<1>4. PICK x : x = Spotted(configuring[p], registries[p])
  OBVIOUS
<1>5. /\ x.at = "file" /\ x.entry = e /\ x.pos = configuring[p].pos /\ x.got = configuring[p].got
      /\ x.ingested = configuring[p].ingested
      /\ x.knows = KnownTo(registries[p]) /\ FileAt(x) = FileAt(configuring[p])
  BY <1>2, <1>4, SpottedIs DEF Reading, Analysed
<1>6. ~AtFile(templates, x)
  BY <1>2, <1>5 DEF AtFile
<1>7. ~Concluding(templates, x)
  BY <1>5, <1>6 DEF Concluding
<1>8. PICK q : q = [configuring[p] EXCEPT !.pos = configuring[p].pos + 1]
  OBVIOUS
<1>9. /\ q \in Configs /\ q.at = "file" /\ q.entry = e /\ q.pos = configuring[p].pos + 1
      /\ q.ingested = configuring[p].ingested /\ q.got = configuring[p].got
  BY SMTT(30), <1>1, <1>2, <1>3, <1>8 DEF Configs
<1>10. InPlace(templates, q)
  BY <1>2, <1>3, <1>9 DEF InPlace, Reading, Analysed
<1>11. Onward(templates, x) = Spotted(q, registries[p])
  <2>1. ~(x.pos > Len(Sources[x.entry].files))
    BY <1>2, <1>3, <1>5, EntryIs
  <2>2. QED
    BY <1>5, <1>6, <1>9, <2>1 DEF Onward, Passed, Spotted, Reading, Analysed
<1>12. p \in undisturbed => OnPath(templates, q, registries[p])
  <2>1. SUFFICES ASSUME p \in undisturbed PROVE OnPath(templates, q, registries[p])
    OBVIOUS
  <2>2. ~Configures(p, "rest")
    BY <1>2 DEF Configures
  <2>3. Stands(templates, Spotted(q, registries[p]))
    BY <1>4, <1>7, <1>11, <2>1, <2>2, GoesOn
  <2>4. QED
    BY <1>1, <1>2, <1>9, <2>1, <2>3 DEF OnPath, Reading, Analysed
<1>13. /\ UNCHANGED filesVars /\ undisturbed' = undisturbed /\ agreed' = agreed
       /\ registries' = registries /\ configuring' = [configuring EXCEPT ![p] = q]
  BY <1>8 DEF PassOver
<1>14. QED
  BY <1>1, <1>9, <1>10, <1>12, <1>13, OneMovesOn

\* A configuration that is at a file has an entry and a position.
LEMMA StayIs ==
    ASSUME BlueprintInv, NEW p \in Programs, configuring[p].at \notin {"rest", "entry"},
           configuring[p].pos <= Len(Source(p).files)
    PROVE  /\ configuring[p].entry \in 1..Len(Sources) /\ configuring[p].pos \in Nat \ {0}
           /\ Current(p) \in TemplateFiles /\ FileAt(configuring[p]) = Current(p)
           /\ Source(p) = Sources[configuring[p].entry]
<1>1. /\ configuring[p] \in Configs /\ InPlace(templates, configuring[p])
      /\ Source(p) = Sources[configuring[p].entry] /\ Current(p) = FileAt(configuring[p])
  BY HereIs
<1>2. configuring[p].entry \in 1..Len(Sources) /\ configuring[p].pos \in Nat \ {0}
  BY <1>1 DEF InPlace
<1>3. configuring[p].pos \in 1..Len(Sources[configuring[p].entry].files)
  BY <1>1, <1>2, EntryIs
<1>4. QED
  BY <1>1, <1>2, <1>3, EntryIs DEF FileAt

\* The rest of an entry is refused.
LEMMA RejectKeeps ==
    ASSUME BlueprintInv, NEW p \in Programs, Reject(p), registries' = registries,
           UNCHANGED filesVars, undisturbed' = undisturbed, agreed' = agreed,
           configuring[p].at \notin {"rest", "entry"},
           NEW x, x = Spotted(configuring[p], registries[p]),
           p \in undisturbed => ~Concluding(templates, x) /\ Onward(templates, x) = Barred(x)
    PROVE  BlueprintInv'
<1> DEFINE e == configuring[p].entry
<1>1. /\ configuring[p] \in Configs /\ registries[p] \in Registries
      /\ InPlace(templates, configuring[p])
      /\ registries = [registries EXCEPT ![p] = registries[p]]
      /\ p \in undisturbed => OnPath(templates, configuring[p], registries[p])
  BY HereIs
<1>2. e \in 1..Len(Sources) /\ e \in Nat /\ configuring[p].ingested \in Nat
  BY <1>1, ConfigIs DEF InPlace
<1>3. PICK q : q = Between("entry", e + 1, 0, configuring[p].ingested, 0)
  OBVIOUS
<1>4. /\ q \in Configs /\ q.at = "entry" /\ q.entry = e + 1 /\ q.pos = 0
      /\ q.ingested = configuring[p].ingested /\ q.got = 0
  <2>1. "entry" \in Wheres /\ e + 1 \in Nat /\ 0 \in Stats
    BY <1>2, BlueprintAssumption DEF Wheres, Stats
  <2>2. QED
    BY <1>2, <1>3, <2>1 DEF Between, Configs
<1>5. InPlace(templates, q)
  BY SMTT(30), <1>2, <1>4, BlueprintAssumption DEF InPlace, Reading, Analysed
<1>6. Barred(x) = Spotted(q, registries[p])
  BY <1>4, SpottedIs DEF Barred, Spotted, Reading, Analysed
<1>7. p \in undisturbed => OnPath(templates, q, registries[p])
  <2>1. SUFFICES ASSUME p \in undisturbed PROVE OnPath(templates, q, registries[p])
    OBVIOUS
  <2>2. ~Configures(p, "rest") /\ ~Concluding(templates, x)
    BY <2>1 DEF Configures
  <2>3. Stands(templates, Spotted(q, registries[p]))
    BY <1>6, <2>1, <2>2, GoesOn
  <2>4. QED
    BY <1>1, <1>4, <2>1, <2>3 DEF OnPath, Reading, Analysed
<1>8. configuring' = [configuring EXCEPT ![p] = q]
  BY <1>3 DEF Reject
<1>9. QED
  BY <1>1, <1>4, <1>5, <1>7, <1>8, OneMovesOn

\* A file is counted.
LEMMA CountedKeeps ==
    ASSUME BlueprintInv, NEW p \in Programs, Counted(p), NEW r \in Registries,
           registries' = [registries EXCEPT ![p] = r],
           UNCHANGED filesVars, undisturbed' = undisturbed, agreed' = agreed,
           configuring[p].at \notin {"rest", "entry"},
           NEW x, x = Spotted(configuring[p], registries[p]),
           p \in undisturbed =>
              /\ ~Concluding(templates, x) /\ Onward(templates, x) = Taken(x, KnownTo(r))
              /\ Sound(templates, r) /\ r.learned # <<>> /\ r.baseDir # 0 /\ ~r.enabled
    PROVE  BlueprintInv'
<1> DEFINE e == configuring[p].entry
<1>1. configuring[p] \in Configs /\ InPlace(templates, configuring[p])
  BY HereIs
<1>2. /\ e \in 1..Len(Sources) /\ e \in Nat /\ configuring[p].ingested \in Nat
      /\ configuring[p].pos \in Nat \ {0} /\ configuring[p].got \in Nat
  BY <1>1, ConfigIs DEF InPlace
<1>3. PICK q : q = Between("file", e, configuring[p].pos + 1,
                           configuring[p].ingested, configuring[p].got + 1)
  OBVIOUS
<1>4. /\ q \in Configs /\ q.at = "file" /\ q.entry = e /\ q.pos = configuring[p].pos + 1
      /\ q.ingested = configuring[p].ingested /\ q.got = configuring[p].got + 1
  <2>1. "file" \in Wheres /\ 0 \in Stats
    BY BlueprintAssumption DEF Wheres, Stats
  <2>2. QED
    BY <1>2, <1>3, <2>1 DEF Between, Configs
<1>5. InPlace(templates, q)
  BY <1>2, <1>4 DEF InPlace, Reading, Analysed
<1>6. Taken(x, KnownTo(r)) = Spotted(q, r)
  <2>1. /\ x.entry = e /\ x.pos = configuring[p].pos /\ x.ingested = configuring[p].ingested
        /\ x.got = configuring[p].got
    BY SpottedIs
  <2>2. Spotted(q, r) = Spot("file", q.entry, q.pos, q.ingested, q.got, KnownTo(r))
    BY <1>4 DEF Spotted, Reading, Analysed
  <2>3. QED
    BY <1>4, <2>1, <2>2 DEF Taken
<1>7. p \in undisturbed => OnPath(templates, q, r)
  <2>1. SUFFICES ASSUME p \in undisturbed PROVE OnPath(templates, q, r)
    OBVIOUS
  <2>2. ~Configures(p, "rest") /\ ~Concluding(templates, x)
    BY <2>1 DEF Configures
  <2>3. Stands(templates, Spotted(q, r))
    BY <1>6, <2>1, <2>2, GoesOn
  <2>4. QED
    BY <1>4, <2>1, <2>3 DEF OnPath, Reading, Analysed
<1>8. configuring' = [configuring EXCEPT ![p] = q]
  BY <1>3 DEF Counted
<1>9. QED
  BY <1>4, <1>5, <1>7, <1>8, OneMovesOn

\* A file is taken and its stat with it, or is rejected.
LEMMA TakeFileKeeps ==
    ASSUME BlueprintInv, NEW p \in Programs, TakeFile(p) PROVE BlueprintInv'
<1> DEFINE f == Current(p)
<1>1. /\ configuring[p] \in Configs /\ registries[p] \in Registries
      /\ registries = [registries EXCEPT ![p] = registries[p]]
      /\ p \in undisturbed => OnPath(templates, configuring[p], registries[p])
  BY HereIs
<1>2. configuring[p].at = "file" /\ configuring[p].pos <= Len(Source(p).files)
      /\ configuring[p].got < MaxFiles
  BY DEF TakeFile, Configures
<1>3. /\ configuring[p].entry \in 1..Len(Sources) /\ configuring[p].pos \in Nat \ {0}
      /\ f \in TemplateFiles /\ FileAt(configuring[p]) = f
      /\ Source(p) = Sources[configuring[p].entry]
  BY <1>2, StayIs
<1>4. PICK x : x = Spotted(configuring[p], registries[p])
  OBVIOUS
<1>5. /\ x.at = "file" /\ x.entry = configuring[p].entry /\ x.pos = configuring[p].pos
      /\ x.got = configuring[p].got /\ FileAt(x) = f
  BY <1>2, <1>3, <1>4, SpottedIs DEF Reading, Analysed
<1>6. AtFile(templates, x)
  BY <1>3, <1>5 DEF AtFile, TakeFile, Found
<1>7. /\ registries' = registries /\ UNCHANGED filesVars /\ undisturbed' = undisturbed
      /\ agreed' = agreed
  BY DEF TakeFile
<1>8. CASE templates[f].text \in {"missing", "unfit"}
  <2>1. Reject(p)
    BY <1>8 DEF TakeFile
  <2>2. ~Concluding(templates, x)
    <3>1. ~(x.got >= MaxFiles)
      BY <1>1, <1>2, <1>5, ConfigIs, BlueprintAssumption
    <3>2. QED
      BY <1>5, <1>8, <3>1 DEF Concluding
  <2>3. Onward(templates, x) = Barred(x)
    <3>1. ~(x.pos > Len(Sources[x.entry].files))
      BY <1>2, <1>3, <1>5, EntryIs
    <3>2. QED
      BY <1>5, <1>6, <1>8, <3>1 DEF Onward, OnwardFromFile
  <2>4. QED
    BY <1>2, <1>4, <1>7, <2>1, <2>2, <2>3, RejectKeeps
<1>9. CASE templates[f].text \notin {"missing", "unfit"}
  <2>1. PICK at \in Reading : at = IF KindOf[f] = "template" THEN "load" ELSE "read"
    BY DEF Reading
  <2>2. PICK s \in Stats : s = templates[f].stat
    <3>1. templates[f].stat \in Nat /\ templates[f].stat <= edits
      BY <1>3, FactInIs
    <3>2. QED
      BY <3>1, BlueprintAssumption DEF BlueprintInv, Stats
  <2>3. PICK q : q = [configuring[p] EXCEPT !.at = at, !.stat = s]
    OBVIOUS
  <2>4. /\ q \in Configs /\ q.at = at /\ q.stat = s /\ q.entry = configuring[p].entry
        /\ q.pos = configuring[p].pos /\ q.ingested = configuring[p].ingested
        /\ q.got = configuring[p].got
    <3>1. at \in Wheres
      BY <2>1 DEF Wheres
    <3>2. QED
      BY <1>1, <2>2, <2>3, <3>1 DEF Configs
  <2>5. FileAt(q) = f
    BY <1>3, <2>4 DEF FileAt
  <2>6. configuring' = [configuring EXCEPT ![p] = q]
    BY <1>9, <2>1, <2>2, <2>3 DEF TakeFile
  <2>7. InPlace(templates, q)
    <3>1. s <= templates[f].stat
      BY <2>2, <1>3, FactInIs
    <3>2. q.at = "load" => KindOf[f] = "template"
      BY <2>1, <2>4
    <3>3. QED
      BY <1>2, <1>3, <2>1, <2>4, <2>5, <3>1, <3>2 DEF InPlace, Reading, Analysed
  <2>8. Spotted(q, registries[p]) = x
    BY <1>2, <1>4, <2>1, <2>4 DEF Spotted, Reading, Analysed
  <2>9. p \in undisturbed => OnPath(templates, q, registries[p])
    BY <1>1, <1>2, <1>4, <1>6, <1>9, <2>1, <2>2, <2>4, <2>5, <2>8 DEF OnPath, Reading, Analysed
  <2>10. q.at # "write"
    BY <2>1, <2>4 DEF Reading
  <2>11. QED
    BY <1>1, <1>7, <2>4, <2>6, <2>7, <2>9, <2>10, OneMovesOn
<1>10. QED
  BY <1>8, <1>9

\* What an undisturbed configuration sees that reads a file.
LEMMA ReadingIs ==
    ASSUME BlueprintInv, NEW p \in Programs, configuring[p].at \in Reading,
           NEW x, x = Spotted(configuring[p], registries[p])
    PROVE  /\ Current(p) \in TemplateFiles /\ FileAt(configuring[p]) = Current(p)
           /\ configuring[p].pos <= Len(Sources[configuring[p].entry].files)
           /\ configuring[p].stat <= templates[Current(p)].stat
           /\ x.at = "file" /\ FileAt(x) = Current(p) /\ x.knows = KnownTo(registries[p])
           /\ p \in undisturbed /\ templates[Current(p)].text # "foreign" =>
                 ~Concluding(templates, x) /\ Onward(templates, x) = OnwardFromFile(templates, x)
<1>1. /\ configuring[p] \in Configs /\ InPlace(templates, configuring[p])
      /\ Source(p) = Sources[configuring[p].entry] /\ Current(p) = FileAt(configuring[p])
      /\ p \in undisturbed => OnPath(templates, configuring[p], registries[p])
  BY HereIs
<1>2. configuring[p].at \notin {"rest", "entry"} /\ configuring[p].pos <= Len(Source(p).files)
      /\ configuring[p].stat <= templates[Current(p)].stat
  BY <1>1 DEF InPlace, Reading
<1>3. /\ configuring[p].entry \in 1..Len(Sources) /\ configuring[p].pos \in Nat \ {0}
      /\ Current(p) \in TemplateFiles
  BY <1>2, StayIs
<1>4. /\ x.at = "file" /\ x.entry = configuring[p].entry /\ x.pos = configuring[p].pos
      /\ x.got = configuring[p].got /\ FileAt(x) = Current(p) /\ x.knows = KnownTo(registries[p])
  BY <1>1, SpottedIs DEF Reading
<1>5. ASSUME p \in undisturbed, templates[Current(p)].text # "foreign"
      PROVE  ~Concluding(templates, x) /\ Onward(templates, x) = OnwardFromFile(templates, x)
  <2>1. AtFile(templates, x) /\ configuring[p].got < MaxFiles
    BY <1>1, <1>5 DEF OnPath
  <2>2. ~(x.got >= MaxFiles)
    BY <1>1, <1>4, <2>1, ConfigIs, BlueprintAssumption
  <2>3. ~(x.pos > Len(Sources[x.entry].files))
    BY <1>1, <1>2, <1>3, <1>4, EntryIs
  <2>4. QED
    BY <1>4, <1>5, <2>1, <2>2, <2>3 DEF Concluding, Onward
<1>6. QED
  BY <1>1, <1>2, <1>3, <1>4, <1>5

\* An analysis of the present content, read or from the cache.
LEMMA AnalysisIs ==
    ASSUME BlueprintInv, NEW p \in undisturbed, configuring[p].at \in Reading,
           KindOf[Current(p)] = "template",
           NEW fact, fact = FactIn(templates, Current(p)),
           templates[Current(p)].text \notin {"missing", "foreign"},
           NEW cached \in BOOLEAN, NEW r, r = Learn(registries[p], fact, cached),
           NEW q \in Configs, q.at \in Analysed, q.fact = fact,
           q.entry = configuring[p].entry, q.pos = configuring[p].pos,
           q.ingested = configuring[p].ingested, q.got = configuring[p].got
    PROVE  OnPath(templates, q, r)
<1> DEFINE f == Current(p)
           k == registries[p]
<1>1. p \in Programs
  BY DEF BlueprintInv
<1>2. k \in Registries /\ OnPath(templates, configuring[p], k)
  BY <1>1, HereIs
<1>3. PICK x : x = Spotted(configuring[p], k)
  OBVIOUS
<1>4. /\ f \in TemplateFiles /\ FileAt(configuring[p]) = f
      /\ x.at = "file" /\ FileAt(x) = f /\ x.knows = KnownTo(k)
      /\ ~Concluding(templates, x) /\ Onward(templates, x) = OnwardFromFile(templates, x)
  BY <1>1, <1>3, ReadingIs
<1>5. fact \in Facts
  BY <1>4, FactInIs
<1>6. /\ r \in Registries /\ r.learned = Append(k.learned, fact)
      /\ r.templates = k.templates /\ r.imported = k.imported
      /\ r.baseDir = k.baseDir /\ r.enabled = k.enabled
  BY <1>2, <1>5, LearnIs
<1>7. ~Configures(p, "rest") /\ configuring[p].at \notin {"rest", "entry"}
  BY DEF Configures, Reading
<1>8. Stands(templates, OnwardFromFile(templates, x))
  BY <1>3, <1>4, <1>7, GoesOn
<1>9. templates[f].text # "unfit"
  BY <1>2, <1>4 DEF OnPath
<1>10. OnwardFromFile(templates, x)
        = Spot("register", x.entry, x.pos, x.ingested, x.got, Learned(templates, x, {}))
  BY <1>4, <1>9 DEF OnwardFromFile
<1>11. Learned(templates, x, {}) = KnownTo(r)
  <2>1. k.imported \cup {} = k.imported
    OBVIOUS
  <2>2. QED
    BY <1>4, <1>6, <2>1, KnownIs DEF Learned, KnownTo
<1>12. Spotted(q, r) = OnwardFromFile(templates, x)
  <2>1. /\ x.entry = q.entry /\ x.pos = q.pos /\ x.ingested = q.ingested /\ x.got = q.got
    BY <1>3, SpottedIs
  <2>2. Spotted(q, r) = Spot("register", q.entry, q.pos, q.ingested, q.got, KnownTo(r))
    BY DEF Spotted, Reading, Analysed
  <2>3. QED
    BY <1>10, <1>11, <2>1, <2>2
<1>13. k.baseDir # 0 /\ Sound(templates, k) /\ ~k.enabled
  BY <1>2, <1>7 DEF OnPath
<1>14. fact = FactIn(templates, fact.file)
  BY DEF FactIn
<1>15. Sound(templates, r) /\ r.learned # <<>> /\ \E i \in 1..Len(r.learned) : r.learned[i] = fact
  BY SMTT(30), <1>2, <1>5, <1>6, <1>13, <1>14, SoundGrows
<1>16. FileAt(q) = f
  BY <1>4 DEF FileAt
<1>17. QED
  BY <1>6, <1>8, <1>12, <1>13, <1>15, <1>16 DEF OnPath, Reading, Analysed

\* The cache file of a template is loaded, and is used if it is of this file.
LEMMA LoadCacheKeeps ==
    ASSUME BlueprintInv, NEW p \in Programs, LoadCache(p) PROVE BlueprintInv'
<1> DEFINE f == Current(p)
           inode == cacheFile[f]
           hit == inode # 0 /\ blobs[inode] # Torn /\ blobs[inode].stat = configuring[p].stat
<1>1. /\ configuring[p] \in Configs /\ registries[p] \in Registries
      /\ InPlace(templates, configuring[p])
      /\ registries = [registries EXCEPT ![p] = registries[p]]
      /\ p \in undisturbed => OnPath(templates, configuring[p], registries[p])
  BY HereIs
<1>2. configuring[p].at = "load" /\ configuring[p].at \in Reading
  BY DEF LoadCache, Configures, Reading
<1>3. /\ f \in TemplateFiles /\ FileAt(configuring[p]) = f
      /\ configuring[p].pos <= Len(Sources[configuring[p].entry].files)
      /\ configuring[p].stat <= templates[f].stat
  BY <1>2, ReadingIs
<1>4. KindOf[f] = "template" /\ configuring[p].entry \in 1..Len(Sources)
      /\ configuring[p].pos \in Nat \ {0}
  BY <1>1, <1>2, <1>3 DEF InPlace
<1>5. UNCHANGED filesVars /\ undisturbed' = undisturbed /\ agreed' = agreed
  BY DEF LoadCache
<1>6. CASE ~hit
  <2>1. PICK q : q = [configuring[p] EXCEPT !.at = "read"]
    OBVIOUS
  <2>2. /\ q \in Configs /\ q.at = "read" /\ q.stat = configuring[p].stat
        /\ q.entry = configuring[p].entry /\ q.pos = configuring[p].pos
        /\ q.ingested = configuring[p].ingested /\ q.got = configuring[p].got
    <3>1. "read" \in Wheres
      BY DEF Wheres, Reading
    <3>2. QED
      BY <1>1, <2>1, <3>1 DEF Configs
  <2>3. configuring' = [configuring EXCEPT ![p] = q] /\ registries' = registries
    BY <1>6, <2>1 DEF LoadCache, Moves
  <2>4. FileAt(q) = f
    BY <1>3, <2>2 DEF FileAt
  <2>5. InPlace(templates, q)
    BY <1>3, <1>4, <2>2, <2>4 DEF InPlace, Reading, Analysed
  <2>6. Spotted(q, registries[p]) = Spotted(configuring[p], registries[p])
    BY <1>2, <2>2 DEF Spotted, Reading
  <2>7. p \in undisturbed => OnPath(templates, q, registries[p])
    BY <1>1, <1>2, <1>3, <2>2, <2>4, <2>6 DEF OnPath, Reading, Analysed
  <2>8. QED
    BY <1>1, <1>5, <2>2, <2>3, <2>5, <2>7, OneMovesOn
<1>7. CASE hit
  <2>1. PICK fact : fact = blobs[inode].fact
    OBVIOUS
  <2>2. Genuine(templates, fact) /\ fact.file = f /\ configuring[p].stat <= fact.stat
    <3>1. inode \in 1..Len(blobs)
      BY <1>3, <1>7 DEF BlueprintInv
    <3>2. QED
      BY <1>3, <1>7, <2>1, <3>1 DEF BlueprintInv, DiskRight
  <2>3. fact \in Facts
    BY <2>2 DEF Genuine
  <2>4. PICK q : q = [configuring[p] EXCEPT !.at = "register", !.fact = fact]
    OBVIOUS
  <2>5. PICK r : r = Learn(registries[p], fact, TRUE)
    OBVIOUS
  <2>6. r \in Registries
    BY <1>1, <2>3, <2>5, LearnIs
  <2>7. /\ q \in Configs /\ q.at = "register" /\ q.fact = fact /\ q.stat = configuring[p].stat
        /\ q.entry = configuring[p].entry /\ q.pos = configuring[p].pos
        /\ q.ingested = configuring[p].ingested /\ q.got = configuring[p].got
    <3>1. "register" \in Wheres /\ fact \in Facts \cup {NoFact}
      BY <2>3 DEF Wheres, Analysed
    <3>2. QED
      BY <1>1, <2>4, <3>1 DEF Configs
  <2>8. FileAt(q) = f
    BY <1>3, <2>7 DEF FileAt
  <2>9. configuring' = [configuring EXCEPT ![p] = q] /\ registries' = [registries EXCEPT ![p] = r]
    BY <1>7, <2>1, <2>4, <2>5 DEF LoadCache
  <2>10. InPlace(templates, q)
    BY <1>3, <1>4, <2>2, <2>7, <2>8 DEF InPlace, Reading, Analysed
  <2>11. p \in undisturbed => OnPath(templates, q, r)
    <3>1. SUFFICES ASSUME p \in undisturbed PROVE OnPath(templates, q, r)
      OBVIOUS
    <3>2. configuring[p].stat = templates[f].stat
      BY <1>1, <1>2, <1>3, <3>1 DEF OnPath
    <3>3. fact.stat = templates[f].stat /\ fact.text = templates[f].text
      <4>1. fact.stat <= templates[f].stat /\ fact.stat \in Nat /\ templates[f].stat \in Nat
        BY <1>3, <2>2, <2>3, FactInIs DEF Genuine, Facts, Stats
      <4>2. fact.stat = templates[f].stat
        BY <2>2, <3>2, <4>1
      <4>3. QED
        BY <2>2, <4>2 DEF Genuine
    <3>4. fact = FactIn(templates, f)
      BY <2>2, <2>3, <3>3 DEF FactIn, Facts
    <3>5. templates[f].text \notin {"missing", "foreign"}
      BY <2>2, <3>3 DEF Genuine
    <3>6. q.at \in Analysed /\ TRUE \in BOOLEAN
      BY <2>7 DEF Analysed
    <3>7. QED
      BY <1>2, <1>4, <2>5, <2>7, <3>1, <3>4, <3>5, <3>6, AnalysisIs
  <2>12. QED
    BY <1>5, <2>6, <2>7, <2>9, <2>10, <2>11, OneMovesOn
<1>8. QED
  BY <1>6, <1>7

\* A file that is not accepted ends its entry.
LEMMA ReadRejectedKeeps ==
    ASSUME BlueprintInv, NEW p \in Programs, ReadRejected(p) PROVE BlueprintInv'
<1>1. configuring[p].at \in Reading /\ configuring[p].at \notin {"rest", "entry"}
  BY DEF ReadRejected, Configures, Reading
<1>2. PICK x : x = Spotted(configuring[p], registries[p])
  OBVIOUS
<1>3. p \in undisturbed /\ templates[Current(p)].text # "foreign" =>
         ~Concluding(templates, x) /\ Onward(templates, x) = OnwardFromFile(templates, x)
  BY <1>1, <1>2, ReadingIs
<1>4. FileAt(x) = Current(p)
  BY <1>1, <1>2, ReadingIs
<1>5. p \in undisturbed => ~Concluding(templates, x) /\ Onward(templates, x) = Barred(x)
  BY <1>3, <1>4 DEF ReadRejected, Found, OnwardFromFile
<1>6. Reject(p) /\ registries' = registries /\ UNCHANGED filesVars
      /\ undisturbed' = undisturbed /\ agreed' = agreed
  BY DEF ReadRejected
<1>7. QED
  BY <1>1, <1>2, <1>5, <1>6, RejectKeeps

\* A template is read and learned.
LEMMA ReadTemplateKeeps ==
    ASSUME BlueprintInv, NEW p \in Programs, ReadTemplate(p) PROVE BlueprintInv'
<1> DEFINE f == Current(p)
<1>1. configuring[p] \in Configs /\ registries[p] \in Registries
      /\ InPlace(templates, configuring[p])
  BY HereIs
<1>2. configuring[p].at \in Reading /\ KindOf[f] = "template"
      /\ templates[f].text \notin {"missing", "foreign"}
  BY DEF ReadTemplate, Configures, Reading
<1>3. /\ f \in TemplateFiles /\ FileAt(configuring[p]) = f
      /\ configuring[p].pos <= Len(Sources[configuring[p].entry].files)
      /\ configuring[p].stat <= templates[f].stat
  BY <1>2, ReadingIs
<1>4. configuring[p].entry \in 1..Len(Sources) /\ configuring[p].pos \in Nat \ {0}
  BY <1>1, <1>2 DEF InPlace, Reading
<1>5. PICK fact : fact = FactIn(templates, f)
  OBVIOUS
<1>6. fact \in Facts /\ Fact(f) = fact /\ templates[f].stat \in Nat
  BY <1>3, <1>5, FactInIs
<1>7. fact.file = f /\ fact.stat = templates[f].stat /\ fact.text = templates[f].text
  BY <1>5 DEF FactIn
<1>8. Genuine(templates, fact)
  BY <1>2, <1>6, <1>7 DEF Genuine
<1>9. PICK q : q = [configuring[p] EXCEPT !.at = "open", !.fact = fact]
  OBVIOUS
<1>10. PICK r : r = Learn(registries[p], fact, FALSE)
  OBVIOUS
<1>11. r \in Registries /\ FALSE \in BOOLEAN
  BY <1>1, <1>6, <1>10, LearnIs
<1>12. /\ q \in Configs /\ q.at = "open" /\ q.fact = fact /\ q.stat = configuring[p].stat
       /\ q.entry = configuring[p].entry /\ q.pos = configuring[p].pos
       /\ q.ingested = configuring[p].ingested /\ q.got = configuring[p].got
  <2>1. "open" \in Wheres /\ fact \in Facts \cup {NoFact}
    BY <1>6 DEF Wheres, Analysed
  <2>2. QED
    BY <1>1, <1>9, <2>1 DEF Configs
<1>13. FileAt(q) = f /\ q.at \in Analysed
  BY <1>3, <1>12 DEF FileAt, Analysed
<1>14. InPlace(templates, q)
  BY <1>2, <1>3, <1>4, <1>7, <1>8, <1>12, <1>13 DEF InPlace
<1>15. p \in undisturbed => OnPath(templates, q, r)
  BY <1>2, <1>5, <1>10, <1>11, <1>12, <1>13, AnalysisIs
<1>16. /\ configuring' = [configuring EXCEPT ![p] = q] /\ registries' = [registries EXCEPT ![p] = r]
       /\ UNCHANGED filesVars /\ undisturbed' = undisturbed /\ agreed' = agreed
  BY <1>6, <1>9, <1>10 DEF ReadTemplate
<1>17. QED
  BY <1>11, <1>12, <1>14, <1>15, <1>16, OneMovesOn

\* A resource or Python file that was read: its fact is learned and it is counted.
LEMMA ReadKeeps ==
    ASSUME BlueprintInv, NEW p \in Programs, configuring[p].at \in Reading, Counted(p),
           KindOf[Current(p)] \in {"resource", "python"},
           templates[Current(p)].text \notin {"missing", "foreign"},
           ~(KindOf[Current(p)] = "resource" /\ templates[Current(p)].text = "disallowed"),
           NEW more, more = IF KindOf[Current(p)] = "resource" THEN {Current(p)} ELSE {},
           NEW r \in Registries, registries' = [registries EXCEPT ![p] = r],
           r.learned = Append(registries[p].learned, Fact(Current(p))),
           r.imported = registries[p].imported \cup more,
           r.templates = registries[p].templates, r.baseDir = registries[p].baseDir,
           r.enabled = registries[p].enabled,
           UNCHANGED filesVars, undisturbed' = undisturbed, agreed' = agreed
    PROVE  BlueprintInv'
<1> DEFINE f == Current(p)
           k == registries[p]
<1>1. PICK x : x = Spotted(configuring[p], k)
  OBVIOUS
<1>2. /\ f \in TemplateFiles /\ FileAt(configuring[p]) = f
      /\ FileAt(x) = f /\ x.knows = KnownTo(k)
      /\ p \in undisturbed =>
            ~Concluding(templates, x) /\ Onward(templates, x) = OnwardFromFile(templates, x)
  BY <1>1, ReadingIs
<1>3. PICK fact : fact = FactIn(templates, f)
  OBVIOUS
<1>4. fact \in Facts /\ Fact(f) = fact
  BY <1>2, <1>3, FactInIs
<1>5. configuring[p].at \notin {"rest", "entry"}
  BY DEF Reading
<1>6. ASSUME p \in undisturbed
      PROVE  /\ ~Concluding(templates, x) /\ Onward(templates, x) = Taken(x, KnownTo(r))
             /\ Sound(templates, r) /\ r.learned # <<>> /\ r.baseDir # 0 /\ ~r.enabled
  <2>1. OnPath(templates, configuring[p], k)
    BY <1>6, HereIs
  <2>2. k.baseDir # 0 /\ Sound(templates, k) /\ ~k.enabled /\ templates[f].text # "unfit"
    BY <1>2, <1>5, <2>1 DEF OnPath
  <2>3. Learned(templates, x, more) = KnownTo(r)
    BY ZenonT(60), <1>2, <1>3, <1>4, KnownIs DEF Learned, KnownTo
  <2>4. OnwardFromFile(templates, x) = Taken(x, Learned(templates, x, more))
    BY <1>2, <2>2 DEF OnwardFromFile
  <2>5. fact = FactIn(templates, fact.file)
    BY <1>3 DEF FactIn
  <2>6. k \in Registries
    BY HereIs
  <2>7. Sound(templates, r) /\ r.learned # <<>>
    BY <1>4, <2>2, <2>5, <2>6, SoundGrows
  <2>8. QED
    BY <1>2, <1>6, <2>2, <2>3, <2>4, <2>7
<1>7. QED
  BY <1>1, <1>5, <1>6, CountedKeeps

\* A resource is read, learned and imported.
LEMMA ReadResourceKeeps ==
    ASSUME BlueprintInv, NEW p \in Programs, ReadResource(p) PROVE BlueprintInv'
<1> DEFINE f == Current(p)
<1>1. registries[p] \in Registries
  BY HereIs
<1>2. configuring[p].at \in Reading /\ KindOf[f] = "resource"
      /\ templates[f].text \notin {"missing", "foreign", "disallowed"}
  BY DEF ReadResource, Configures, Reading
<1>3. f \in TemplateFiles
  BY <1>2, ReadingIs
<1>4. PICK fact \in Facts : fact = Fact(f)
  BY <1>3, FactInIs
<1>5. PICK cached, l : cached \in BOOLEAN /\ cached = FALSE /\ l = Learn(registries[p], fact, cached)
  OBVIOUS
<1>6. /\ l \in Registries /\ l.learned = Append(registries[p].learned, fact)
      /\ l.templates = registries[p].templates /\ l.imported = registries[p].imported
      /\ l.baseDir = registries[p].baseDir /\ l.enabled = registries[p].enabled
  BY <1>1, <1>4, <1>5, LearnIs
<1>7. PICK i \in SUBSET TemplateFiles : i = l.imported \cup {f}
  BY <1>3, <1>6 DEF Registries
<1>8. PICK r : r = [l EXCEPT !.imported = i]
  OBVIOUS
<1>9. /\ r \in Registries /\ r.learned = l.learned /\ r.templates = l.templates
      /\ r.imported = i /\ r.baseDir = l.baseDir /\ r.enabled = l.enabled
  BY <1>6, <1>8 DEF Registries
<1>10. /\ registries' = [registries EXCEPT ![p] = r] /\ Counted(p)
       /\ UNCHANGED filesVars /\ undisturbed' = undisturbed /\ agreed' = agreed
  BY <1>4, <1>5, <1>7, <1>8 DEF ReadResource
<1>11. QED
  BY <1>2, <1>4, <1>6, <1>7, <1>9, <1>10, ReadKeeps

\* A Python module is read and learned.
LEMMA ReadPythonKeeps ==
    ASSUME BlueprintInv, NEW p \in Programs, ReadPython(p) PROVE BlueprintInv'
<1> DEFINE f == Current(p)
<1>1. registries[p] \in Registries
  BY HereIs
<1>2. configuring[p].at \in Reading /\ KindOf[f] = "python"
      /\ templates[f].text \notin {"missing", "foreign"}
  BY DEF ReadPython, Configures, Reading
<1>3. f \in TemplateFiles
  BY <1>2, ReadingIs
<1>4. Fact(f) \in Facts
  BY <1>3, FactInIs
<1>5. PICK l \in Seq(Facts) : l = Append(registries[p].learned, Fact(f))
  <2>1. registries[p].learned \in Seq(Facts)
    BY <1>1 DEF Registries
  <2>2. QED
    BY <1>4, <2>1, AppendIs
<1>6. PICK r : r = [registries[p] EXCEPT !.learned = l]
  OBVIOUS
<1>7. /\ r \in Registries /\ r.learned = l /\ r.templates = registries[p].templates
      /\ r.imported = registries[p].imported /\ r.baseDir = registries[p].baseDir
      /\ r.enabled = registries[p].enabled
  BY <1>1, <1>6 DEF Registries
<1>8. /\ registries' = [registries EXCEPT ![p] = r] /\ Counted(p)
      /\ UNCHANGED filesVars /\ undisturbed' = undisturbed /\ agreed' = agreed
  BY <1>5, <1>6 DEF ReadPython
<1>9. registries[p].imported = registries[p].imported \cup {}
  OBVIOUS
<1>10. QED
  BY <1>2, <1>5, <1>7, <1>8, <1>9, ReadKeeps

\* What a configuration has in hand after an analysis.
LEMMA AnalysedAt ==
    ASSUME BlueprintInv, NEW p \in Programs, configuring[p].at \in Analysed
    PROVE  /\ Current(p) \in TemplateFiles /\ FileAt(configuring[p]) = Current(p)
           /\ configuring[p].entry \in 1..Len(Sources) /\ configuring[p].pos \in Nat \ {0}
           /\ configuring[p].pos <= Len(Sources[configuring[p].entry].files)
           /\ configuring[p].stat <= templates[Current(p)].stat
           /\ KindOf[Current(p)] = "template" /\ Genuine(templates, configuring[p].fact)
           /\ configuring[p].fact.file = Current(p) /\ configuring[p].fact \in Facts
           /\ configuring[p].stat <= configuring[p].fact.stat
<1>1. /\ configuring[p] \in Configs /\ InPlace(templates, configuring[p])
      /\ Source(p) = Sources[configuring[p].entry] /\ Current(p) = FileAt(configuring[p])
  BY HereIs
<1>2. configuring[p].at \notin {"rest", "entry"} /\ configuring[p].pos <= Len(Source(p).files)
  BY <1>1 DEF InPlace, Analysed
<1>3. QED
  BY <1>1, <1>2, StayIs DEF InPlace, Genuine

\* The steps of storing an analysis leave the configuration in its place.
LEMMA StoringIs ==
    ASSUME BlueprintInv, NEW p \in Programs, configuring[p].at \in Analysed,
           NEW q \in Configs, q.at \in Analysed, q.fact = configuring[p].fact,
           q.stat = configuring[p].stat, q.entry = configuring[p].entry,
           q.pos = configuring[p].pos, q.ingested = configuring[p].ingested,
           q.got = configuring[p].got
    PROVE  /\ InPlace(templates, q)
           /\ p \in undisturbed => OnPath(templates, q, registries[p])
           /\ FileAt(q) = Current(p)
<1>1. p \in undisturbed => OnPath(templates, configuring[p], registries[p])
  BY HereIs
<1>2. FileAt(q) = Current(p) /\ FileAt(configuring[p]) = Current(p)
  BY AnalysedAt DEF FileAt
<1>3. InPlace(templates, q)
  <2>1. q.at \notin {"rest", "entry", "load"} /\ q.at \notin Reading
    BY DEF Analysed, Reading
  <2>2. QED
    BY <1>2, <2>1, AnalysedAt DEF InPlace
<1>4. Spotted(q, registries[p]) = Spotted(configuring[p], registries[p])
  BY DEF Spotted, Reading, Analysed
<1>5. p \in undisturbed => OnPath(templates, q, registries[p])
  BY <1>1, <1>2, <1>4 DEF OnPath, Reading, Analysed
<1>6. QED
  BY <1>2, <1>3, <1>5

\* The cache file cannot be written, which is passed over.
LEMMA StoreCacheFailsKeeps ==
    ASSUME BlueprintInv, NEW p \in Programs, StoreCacheFails(p) PROVE BlueprintInv'
<1>1. /\ configuring[p] \in Configs /\ registries[p] \in Registries
      /\ registries = [registries EXCEPT ![p] = registries[p]]
  BY HereIs
<1>2. configuring[p].at \in Analysed
  BY DEF StoreCacheFails, Configures, Analysed
<1>3. PICK q : q = [configuring[p] EXCEPT !.at = "register"]
  OBVIOUS
<1>4. /\ q \in Configs /\ q.at = "register" /\ q.stat = configuring[p].stat
      /\ q.fact = configuring[p].fact /\ q.entry = configuring[p].entry
      /\ q.pos = configuring[p].pos /\ q.ingested = configuring[p].ingested
      /\ q.got = configuring[p].got
  <2>1. "register" \in Wheres
    BY DEF Wheres, Analysed
  <2>2. QED
    BY <1>1, <1>3, <2>1 DEF Configs
<1>5. q.at \in Analysed
  BY <1>4 DEF Analysed
<1>6. InPlace(templates, q) /\ (p \in undisturbed => OnPath(templates, q, registries[p]))
  BY <1>2, <1>4, <1>5, StoringIs
<1>7. /\ configuring' = [configuring EXCEPT ![p] = q] /\ registries' = registries
      /\ UNCHANGED filesVars /\ undisturbed' = undisturbed /\ agreed' = agreed
  BY <1>3 DEF StoreCacheFails, Moves
<1>8. QED
  BY <1>1, <1>4, <1>6, <1>7, OneMovesOn

\* A template is registered under the keys that have none, or is refused.
LEMMA RegisterTemplateKeeps ==
    ASSUME BlueprintInv, NEW p \in Programs, RegisterTemplate(p) PROVE BlueprintInv'
<1> DEFINE f == Current(p)
           k == registries[p]
           keys == IF Source(p).keys # {} THEN Source(p).keys ELSE KeysOf[f]
<1>1. k \in Registries /\ Source(p) = Sources[configuring[p].entry]
  BY HereIs
<1>2. configuring[p].at = "register" /\ configuring[p].at \in Analysed
      /\ configuring[p].at \notin {"rest", "entry"}
  BY DEF RegisterTemplate, Configures, Analysed
<1>3. PICK fact \in Facts : fact = configuring[p].fact
  BY <1>2, AnalysedAt
<1>4. PICK x : x = Spotted(configuring[p], k)
  OBVIOUS
<1>5. /\ x.at = "register" /\ FileAt(x) = f /\ x.knows = KnownTo(k)
      /\ x.entry = configuring[p].entry
  BY <1>2, <1>4, AnalysedAt, SpottedIs DEF Reading
<1>6. ~Concluding(templates, x)
  BY <1>5 DEF Concluding, AtFile
<1>7. p \in undisturbed => /\ fact = FactIn(templates, f) /\ Sound(templates, k) /\ ~k.enabled
                           /\ k.baseDir # 0 /\ \E i \in 1..Len(k.learned) : k.learned[i] = fact
  <2>1. FileAt(configuring[p]) = f
    BY <1>2, AnalysedAt
  <2>2. p \in undisturbed => OnPath(templates, configuring[p], k)
    BY HereIs
  <2>3. QED
    BY <1>2, <1>3, <2>1, <2>2 DEF OnPath
<1>8. FactIn(templates, f).text = templates[f].text
  BY DEF FactIn
<1>9. UNCHANGED filesVars /\ undisturbed' = undisturbed /\ agreed' = agreed
  BY DEF RegisterTemplate
<1>10. CASE fact.text = "disallowed"
  <2>1. Reject(p) /\ registries' = registries
    BY <1>3, <1>10 DEF RegisterTemplate
  <2>2. p \in undisturbed => Onward(templates, x) = Barred(x)
    BY <1>5, <1>7, <1>8, <1>10 DEF Onward, AtFile
  <2>3. QED
    BY <1>2, <1>4, <1>6, <1>9, <2>1, <2>2, RejectKeeps
<1>11. CASE fact.text # "disallowed"
  <2>1. PICK t : t = [n \in TemplateKeys |->
                        IF n \in keys /\ k.templates[n] = NoFact THEN fact ELSE k.templates[n]]
    OBVIOUS
  <2>2. t \in [TemplateKeys -> Facts \cup {NoFact}]
        /\ \A n \in TemplateKeys : t[n] = fact \/ t[n] = k.templates[n]
    <3>1. k.templates \in [TemplateKeys -> Facts \cup {NoFact}]
      BY <1>1 DEF Registries
    <3>2. QED
      BY <2>1, <3>1
  <2>3. PICK r : r = [k EXCEPT !.templates = t]
    OBVIOUS
  <2>4. /\ r \in Registries /\ r.templates = t /\ r.learned = k.learned
        /\ r.imported = k.imported /\ r.baseDir = k.baseDir /\ r.enabled = k.enabled
    BY <1>1, <2>2, <2>3 DEF Registries
  <2>5. registries' = [registries EXCEPT ![p] = r] /\ Counted(p)
    BY <1>3, <1>11, <2>1, <2>3 DEF RegisterTemplate
  <2>6. ASSUME p \in undisturbed
        PROVE  /\ Onward(templates, x) = Taken(x, KnownTo(r)) /\ Sound(templates, r)
               /\ r.learned # <<>> /\ r.baseDir # 0 /\ ~r.enabled
    <3>1. t = Keyed(x.knows.templates, fact, x)
      BY <1>1, <1>5, <2>1, KnownIs DEF Keyed
    <3>2. Onward(templates, x) = Taken(x, Knows(k.learned, k.imported, t, k.baseDir))
      BY <1>5, <1>7, <1>8, <1>11, <2>6, <3>1, KnownIs DEF Onward, AtFile
    <3>3. KnownTo(r) = Knows(k.learned, k.imported, t, k.baseDir)
      BY <2>4 DEF KnownTo
    <3>4. Sound(templates, r)
      BY <1>7, <1>11, <2>2, <2>4, <2>6 DEF Sound
    <3>5. k.learned # <<>>
      <4>1. PICK i \in 1..Len(k.learned) : k.learned[i] = fact
        BY <1>7, <2>6
      <4>2. QED
        BY <4>1
    <3>6. QED
      BY <1>7, <2>4, <2>6, <3>2, <3>3, <3>4, <3>5
  <2>7. QED
    BY <1>2, <1>4, <1>6, <1>9, <2>4, <2>5, <2>6, CountedKeeps
<1>12. QED
  BY <1>10, <1>11

-----------------------------------------------------------------------------
(* The cache on disk *)

Owned(owner) ==
    /\ owner \in [1..Len(blobs) -> TemplateFiles]
    /\ \A f \in TemplateFiles :
          /\ cacheFile[f] # 0 => owner[cacheFile[f]] = f
          /\ tmpFile[f] # 0 => owner[tmpFile[f]] = f
    /\ \A p \in Programs : Configures(p, "write") =>
          /\ configuring[p].inode \in 1..Len(blobs)
          /\ owner[configuring[p].inode] = Current(p)
    /\ \A i \in 1..Len(blobs) : blobs[i] # Torn =>
          /\ Genuine(templates, blobs[i].fact) /\ blobs[i].stat <= blobs[i].fact.stat
          /\ blobs[i].fact.file = owner[i]

\* The disk is right if its inodes have owners.
LEMMA DiskIsOwned == DiskRight <=> \E owner : Owned(owner)
  BY DEF DiskRight, Owned

\* The temporary file is emptied, or made with an inode of its own.
LEMMA OpenTmpKeeps ==
    ASSUME BlueprintInv, NEW p \in Programs, OpenTmp(p) PROVE BlueprintInv'
<1> DEFINE f == Current(p)
           n == Len(blobs)
<1>1. /\ configuring[p] \in Configs /\ registries[p] \in Registries
      /\ registries = [registries EXCEPT ![p] = registries[p]]
  BY HereIs
<1>2. configuring[p].at \in Analysed
  BY DEF OpenTmp, Configures, Analysed
<1>3. f \in TemplateFiles
  BY <1>2, AnalysedAt
<1>4. /\ blobs \in Seq(Payloads) /\ n \in Nat /\ Torn \in Payloads
      /\ cacheFile \in [TemplateFiles -> 0..n] /\ tmpFile \in [TemplateFiles -> 0..n]
  BY DEF BlueprintInv, Payloads
<1>5. PICK inode \in Nat \ {0} : inode = IF tmpFile[f] = 0 THEN n + 1 ELSE tmpFile[f]
  BY <1>3, <1>4
<1>6. /\ blobs' = IF tmpFile[f] = 0 THEN Append(blobs, Torn) ELSE [blobs EXCEPT ![inode] = Torn]
      /\ tmpFile' = [tmpFile EXCEPT ![f] = inode]
      /\ configuring' = [configuring EXCEPT ![p].at = "write", ![p].inode = inode]
      /\ templates' = templates /\ edits' = edits /\ cacheFile' = cacheFile
      /\ registries' = registries /\ undisturbed' = undisturbed /\ agreed' = agreed
  BY <1>5 DEF OpenTmp
<1>7. /\ blobs' \in Seq(Payloads) /\ Len(blobs') \in Nat /\ n <= Len(blobs')
      /\ inode \in 1..Len(blobs') /\ blobs'[inode] = Torn
      /\ \A i \in 1..Len(blobs') : i # inode => i \in 1..n /\ blobs'[i] = blobs[i]
      /\ inode \in 1..n => inode = tmpFile[f]
  <2>1. CASE tmpFile[f] = 0
    <3>1. inode = n + 1 /\ blobs' = Append(blobs, Torn)
      BY <1>5, <1>6, <2>1
    <3>2. /\ blobs' \in Seq(Payloads) /\ Len(blobs') = n + 1 /\ blobs'[n + 1] = Torn
          /\ \A i \in 1..n : blobs'[i] = blobs[i]
      BY <1>4, <3>1, AppendIs
    <3>3. QED
      BY <1>4, <3>1, <3>2
  <2>2. CASE tmpFile[f] # 0
    <3>1. inode = tmpFile[f] /\ inode \in 1..n /\ blobs' = [blobs EXCEPT ![inode] = Torn]
      BY <1>3, <1>4, <1>5, <1>6, <2>2
    <3>2. blobs' \in Seq(Payloads) /\ Len(blobs') = n
      BY <1>4, <3>1
    <3>3. QED
      BY <1>4, <3>1, <3>2
  <2>3. QED
    BY <2>1, <2>2
<1>8. PICK q : q = [configuring[p] EXCEPT !.at = "write", !.inode = inode]
  OBVIOUS
<1>9. /\ q \in Configs /\ q.at = "write" /\ q.inode = inode /\ q.stat = configuring[p].stat
      /\ q.fact = configuring[p].fact /\ q.entry = configuring[p].entry
      /\ q.pos = configuring[p].pos /\ q.ingested = configuring[p].ingested
      /\ q.got = configuring[p].got
  <2>1. "write" \in Wheres
    BY DEF Wheres, Analysed
  <2>2. QED
    BY <1>1, <1>8, <2>1 DEF Configs
<1>10. q.at \in Analysed
  BY <1>9 DEF Analysed
<1>11. InPlace(templates, q) /\ (p \in undisturbed => OnPath(templates, q, registries[p]))
       /\ FileAt(q) = f
  BY <1>2, <1>9, <1>10, StoringIs
<1>12. configuring' = [configuring EXCEPT ![p] = q]
  BY <1>6, <1>8
<1>13. /\ cacheFile' \in [TemplateFiles -> 0..Len(blobs')]
       /\ tmpFile' \in [TemplateFiles -> 0..Len(blobs')]
  <2>1. 0..n \subseteq 0..Len(blobs') /\ inode \in 0..Len(blobs')
    BY <1>4, <1>7
  <2>2. QED
    BY <1>4, <1>6, <2>1
<1>14. DiskRight'
  <2>1. PICK owner : Owned(owner)
    BY DiskIsOwned DEF BlueprintInv
  <2>2. PICK now : now = [i \in 1..Len(blobs') |-> IF i = inode THEN f ELSE owner[i]]
    OBVIOUS
  <2>3. now \in [1..Len(blobs') -> TemplateFiles]
    BY <1>3, <1>7, <2>1, <2>2 DEF Owned
  <2>4. \A i \in 1..n : now[i] = owner[i]
    <3>1. \A i \in 1..n : i = inode => owner[i] = f
      BY <1>3, <1>7, <2>1 DEF Owned
    <3>2. QED
      BY <1>4, <1>7, <2>2, <3>1
  <2>5. now[inode] = f
    BY <1>7, <2>2
  <2>6. ASSUME NEW g \in TemplateFiles
        PROVE  /\ cacheFile'[g] # 0 => now[cacheFile'[g]] = g
               /\ tmpFile'[g] # 0 => now[tmpFile'[g]] = g
    <3>1. /\ cacheFile[g] # 0 => cacheFile[g] \in 1..n /\ owner[cacheFile[g]] = g
          /\ tmpFile[g] # 0 => tmpFile[g] \in 1..n /\ owner[tmpFile[g]] = g
      BY <1>4, <2>1 DEF Owned
    <3>2. tmpFile'[g] = IF g = f THEN inode ELSE tmpFile[g]
      BY <1>4, <1>6
    <3>3. QED
      BY <1>6, <2>4, <2>5, <3>1, <3>2
  <2>7. ASSUME NEW o \in Programs, configuring'[o].at = "write"
        PROVE  /\ configuring'[o].inode \in 1..Len(blobs')
               /\ now[configuring'[o].inode] = FileAt(configuring'[o])
    <3>1. CASE o = p
      <4>1. configuring'[o] = q
        BY <1>12, <3>1 DEF BlueprintInv
      <4>2. QED
        BY <1>7, <1>9, <1>11, <2>5, <4>1
    <3>2. CASE o # p
      <4>1. configuring'[o] = configuring[o]
        BY <1>12, <3>2 DEF BlueprintInv
      <4>2. configuring[o].inode \in 1..n /\ owner[configuring[o].inode] = FileAt(configuring[o])
        BY <2>1, <2>7, <4>1, HereIs DEF Owned, Configures
      <4>3. QED
        BY <1>4, <1>7, <2>4, <4>1, <4>2
    <3>3. QED
      BY <3>1, <3>2
  <2>8. ASSUME NEW i \in 1..Len(blobs'), blobs'[i] # Torn
        PROVE  /\ Genuine(templates, blobs'[i].fact) /\ blobs'[i].stat <= blobs'[i].fact.stat
               /\ blobs'[i].fact.file = now[i]
    <3>1. i # inode /\ i \in 1..n /\ blobs'[i] = blobs[i]
      BY <1>7, <2>8
    <3>2. QED
      BY <2>1, <2>4, <2>8, <3>1 DEF Owned
  <2>9. Owned(now)'
    BY <1>6, <2>3, <2>6, <2>7, <2>8 DEF Owned, Configures, Current, Source, FileAt
  <2>10. QED
    BY <2>9 DEF Owned, DiskRight
<1>15. QED
  BY ZenonT(60), <1>1, <1>6, <1>7, <1>9, <1>11, <1>12, <1>13, <1>14, OneMoves

\* The analysis is written to the temporary file that was opened.
LEMMA WriteTmpKeeps ==
    ASSUME BlueprintInv, NEW p \in Programs, WriteTmp(p) PROVE BlueprintInv'
<1> DEFINE f == Current(p)
           n == Len(blobs)
<1>1. /\ configuring[p] \in Configs /\ registries[p] \in Registries
      /\ registries = [registries EXCEPT ![p] = registries[p]]
  BY HereIs
<1>2. configuring[p].at \in Analysed /\ configuring[p].at = "write"
  BY DEF WriteTmp, Configures, Analysed
<1>3. /\ f \in TemplateFiles /\ Genuine(templates, configuring[p].fact)
      /\ configuring[p].fact.file = f /\ configuring[p].stat <= configuring[p].fact.stat
      /\ configuring[p].stat \in Stats /\ configuring[p].fact \in Facts
  BY <1>1, <1>2, AnalysedAt, ConfigIs
<1>4. blobs \in Seq(Payloads) /\ n \in Nat
  BY DEF BlueprintInv
<1>5. PICK owner : Owned(owner)
  BY DiskIsOwned DEF BlueprintInv
<1>6. PICK inode \in 1..n : inode = configuring[p].inode /\ owner[inode] = f
  BY <1>2, <1>5 DEF Owned, Configures
<1>7. PICK payload \in Payloads :
         /\ payload.stat = configuring[p].stat /\ payload.fact = configuring[p].fact
         /\ payload = [stat |-> configuring[p].stat, fact |-> configuring[p].fact]
  BY <1>3 DEF Payloads
<1>8. PICK written \in {payload, Torn} : blobs' = [blobs EXCEPT ![inode] = written]
  BY <1>6, <1>7 DEF WriteTmp
<1>9. /\ blobs' \in Seq(Payloads) /\ Len(blobs') = n /\ blobs'[inode] = written
      /\ \A i \in 1..n : i # inode => blobs'[i] = blobs[i]
  BY <1>4, <1>8 DEF Payloads
<1>10. /\ templates' = templates /\ edits' = edits /\ cacheFile' = cacheFile /\ tmpFile' = tmpFile
       /\ registries' = registries /\ undisturbed' = undisturbed /\ agreed' = agreed
  BY DEF WriteTmp
<1>11. PICK q : q = [configuring[p] EXCEPT !.at = "replace"]
  OBVIOUS
<1>12. /\ q \in Configs /\ q.at = "replace" /\ q.stat = configuring[p].stat
       /\ q.fact = configuring[p].fact /\ q.entry = configuring[p].entry
       /\ q.pos = configuring[p].pos /\ q.ingested = configuring[p].ingested
       /\ q.got = configuring[p].got
  <2>1. "replace" \in Wheres
    BY DEF Wheres, Analysed
  <2>2. QED
    BY <1>1, <1>11, <2>1 DEF Configs
<1>13. q.at \in Analysed
  BY <1>12 DEF Analysed
<1>14. InPlace(templates, q) /\ (p \in undisturbed => OnPath(templates, q, registries[p]))
  BY <1>2, <1>12, <1>13, StoringIs
<1>15. configuring' = [configuring EXCEPT ![p] = q]
  BY <1>11 DEF WriteTmp, Moves
<1>16. DiskRight'
  <2>1. ASSUME NEW o \in Programs, configuring'[o].at = "write"
        PROVE  /\ configuring'[o].inode \in 1..n
               /\ owner[configuring'[o].inode] = FileAt(configuring'[o])
    <3>1. o # p /\ configuring'[o] = configuring[o]
      BY <1>12, <1>15, <2>1 DEF BlueprintInv
    <3>2. QED
      BY <1>5, <2>1, <3>1, HereIs DEF Owned, Configures
  <2>2. ASSUME NEW i \in 1..n, blobs'[i] # Torn
        PROVE  /\ Genuine(templates, blobs'[i].fact) /\ blobs'[i].stat <= blobs'[i].fact.stat
               /\ blobs'[i].fact.file = owner[i]
    <3>1. CASE i = inode
      <4>1. blobs'[i] = payload
        BY <1>8, <1>9, <2>2, <3>1
      <4>2. QED
        BY <1>3, <1>6, <1>7, <3>1, <4>1
    <3>2. CASE i # inode
      BY <1>5, <1>9, <2>2, <3>2 DEF Owned
    <3>3. QED
      BY <3>1, <3>2
  <2>3. Owned(owner)'
    BY <1>5, <1>9, <1>10, <2>1, <2>2 DEF Owned, Configures, Current, Source, FileAt
  <2>4. QED
    BY <2>3 DEF Owned, DiskRight
<1>17. /\ cacheFile' \in [TemplateFiles -> 0..Len(blobs')]
       /\ tmpFile' \in [TemplateFiles -> 0..Len(blobs')]
  BY <1>9, <1>10 DEF BlueprintInv
<1>18. QED
  BY <1>1, <1>9, <1>10, <1>12, <1>14, <1>15, <1>16, <1>17, OneMoves

\* The temporary file takes the place of the cache file.
LEMMA ReplaceTmpKeeps ==
    ASSUME BlueprintInv, NEW p \in Programs, ReplaceTmp(p) PROVE BlueprintInv'
<1> DEFINE f == Current(p)
           n == Len(blobs)
<1>1. /\ configuring[p] \in Configs /\ registries[p] \in Registries
      /\ registries = [registries EXCEPT ![p] = registries[p]]
  BY HereIs
<1>2. configuring[p].at \in Analysed
  BY DEF ReplaceTmp, Configures, Analysed
<1>3. f \in TemplateFiles
  BY <1>2, AnalysedAt
<1>4. /\ n \in Nat /\ cacheFile \in [TemplateFiles -> 0..n] /\ tmpFile \in [TemplateFiles -> 0..n]
  BY DEF BlueprintInv
<1>5. PICK owner : Owned(owner)
  BY DiskIsOwned DEF BlueprintInv
<1>6. /\ cacheFile' \in [TemplateFiles -> 0..n] /\ tmpFile' \in [TemplateFiles -> 0..n]
      /\ \A g \in TemplateFiles : cacheFile'[g] \in {cacheFile[g], tmpFile[g]}
      /\ \A g \in TemplateFiles : tmpFile'[g] \in {0, tmpFile[g]}
  BY <1>3, <1>4 DEF ReplaceTmp
<1>7. /\ templates' = templates /\ edits' = edits /\ blobs' = blobs
      /\ registries' = registries /\ undisturbed' = undisturbed /\ agreed' = agreed
  BY DEF ReplaceTmp
<1>8. PICK q : q = [configuring[p] EXCEPT !.at = "register"]
  OBVIOUS
<1>9. /\ q \in Configs /\ q.at = "register" /\ q.stat = configuring[p].stat
      /\ q.fact = configuring[p].fact /\ q.entry = configuring[p].entry
      /\ q.pos = configuring[p].pos /\ q.ingested = configuring[p].ingested
      /\ q.got = configuring[p].got
  <2>1. "register" \in Wheres
    BY DEF Wheres, Analysed
  <2>2. QED
    BY <1>1, <1>8, <2>1 DEF Configs
<1>10. q.at \in Analysed
  BY <1>9 DEF Analysed
<1>11. InPlace(templates, q) /\ (p \in undisturbed => OnPath(templates, q, registries[p]))
  BY <1>2, <1>9, <1>10, StoringIs
<1>12. configuring' = [configuring EXCEPT ![p] = q]
  BY <1>8 DEF ReplaceTmp, Moves
<1>13. DiskRight'
  <2>1. ASSUME NEW o \in Programs, configuring'[o].at = "write"
        PROVE  /\ configuring'[o].inode \in 1..n
               /\ owner[configuring'[o].inode] = FileAt(configuring'[o])
    <3>1. o # p /\ configuring'[o] = configuring[o]
      BY <1>9, <1>12, <2>1 DEF BlueprintInv
    <3>2. QED
      BY <1>5, <2>1, <3>1, HereIs DEF Owned, Configures
  <2>2. \A g \in TemplateFiles : /\ cacheFile'[g] # 0 => owner[cacheFile'[g]] = g
                                 /\ tmpFile'[g] # 0 => owner[tmpFile'[g]] = g
    BY <1>5, <1>6 DEF Owned
  <2>3. Owned(owner)'
    BY <1>5, <1>7, <2>1, <2>2 DEF Owned, Configures, Current, Source, FileAt
  <2>4. QED
    BY <2>3 DEF Owned, DiskRight
<1>14. blobs' \in Seq(Payloads)
  BY <1>7 DEF BlueprintInv
<1>15. /\ cacheFile' \in [TemplateFiles -> 0..Len(blobs')]
       /\ tmpFile' \in [TemplateFiles -> 0..Len(blobs')]
  BY <1>6, <1>7
<1>16. QED
  BY <1>1, <1>7, <1>9, <1>11, <1>12, <1>13, <1>14, <1>15, OneMoves

\* After an edit what was genuine still is: its stat is below every new one.
LEMMA GenuineStays ==
    ASSUME BlueprintInv, NEW f \in TemplateFiles, NEW text \in Texts,
           NEW e \in Nat, e = edits, NEW files,
           files = [templates EXCEPT ![f] = [stat |-> e + 1, text |-> text]],
           NEW fact, Genuine(templates, fact)
    PROVE  Genuine(files, fact)
<1>1. fact \in Facts /\ fact.file \in TemplateFiles /\ fact.stat \in Nat
  BY BlueprintAssumption DEF Genuine, Facts, Stats
<1>2. templates[fact.file].stat \in Nat /\ templates[fact.file].stat <= edits
  BY <1>1, FactInIs
<1>3. CASE fact.file = f
  <2>1. files[f].stat = e + 1
    BY <1>1, <1>3 DEF BlueprintInv
  <2>2. fact.stat < e + 1
    BY <1>1, <1>2 DEF Genuine
  <2>3. QED
    BY <1>1, <1>3, <2>1, <2>2 DEF Genuine
<1>4. CASE fact.file # f
  <2>1. files[fact.file] = templates[fact.file]
    BY <1>1, <1>4 DEF BlueprintInv
  <2>2. QED
    BY <2>1 DEF Genuine
<1>5. QED
  BY <1>3, <1>4

\* Somebody edits a template: who configures meanwhile is disturbed.
LEMMA EditKeeps ==
    ASSUME BlueprintInv, NEW f \in TemplateFiles, NEW text \in EditTexts, Edit(f, text)
    PROVE  BlueprintInv'
<1>1. PICK e \in Nat : e = edits
  BY BlueprintAssumption DEF BlueprintInv, Stats
<1>2. text \in Texts
  BY BlueprintAssumption
<1>3. PICK files : files = [templates EXCEPT ![f] = [stat |-> e + 1, text |-> text]]
  OBVIOUS
<1>4. /\ templates' = files /\ edits' = e + 1 /\ e < MaxEdits /\ undisturbed' = {} /\ agreed' = {}
      /\ UNCHANGED <<blobs, cacheFile, tmpFile, registries, configuring>>
  BY <1>1, <1>3 DEF Edit
<1>5. e + 1 \in Stats
  BY <1>1, <1>4, BlueprintAssumption DEF Stats
<1>6. files \in [TemplateFiles -> [stat : 0..(e + 1), text : Texts]]
  <2>1. templates \in [TemplateFiles -> [stat : 0..e, text : Texts]]
    BY <1>1 DEF BlueprintInv
  <2>2. \A g \in TemplateFiles : templates[g] \in [stat : 0..(e + 1), text : Texts]
    <3>1. 0..e \subseteq 0..(e + 1)
      BY <1>1
    <3>2. QED
      BY <2>1, <3>1
  <2>3. [stat |-> e + 1, text |-> text] \in [stat : 0..(e + 1), text : Texts]
    BY <1>1, <1>2
  <2>4. QED
    BY <1>3, <2>1, <2>2, <2>3
<1>7. \A fact : Genuine(templates, fact) => Genuine(files, fact)
  BY <1>1, <1>2, <1>3, GenuineStays
<1>8. \A g \in TemplateFiles, s \in Stats : s <= templates[g].stat => s <= files[g].stat
  <2>1. SUFFICES ASSUME NEW g \in TemplateFiles, NEW s \in Stats, s <= templates[g].stat
                 PROVE  s <= files[g].stat
    OBVIOUS
  <2>2. templates[g].stat \in Nat /\ templates[g].stat <= e /\ s \in Nat
    BY <1>1, FactInIs DEF Stats
  <2>3. files[g] = IF g = f THEN [stat |-> e + 1, text |-> text] ELSE templates[g]
    BY <1>3 DEF BlueprintInv
  <2>4. QED
    BY <1>1, <2>1, <2>2, <2>3
<1>9. \A p \in Programs : InPlace(files, configuring[p])
  <2>1. SUFFICES ASSUME NEW p \in Programs PROVE InPlace(files, configuring[p])
    OBVIOUS
  <2>2. InPlace(templates, configuring[p]) /\ configuring[p].stat \in Stats
    BY HereIs, ConfigIs
  <2>3. configuring[p].at \in Reading \cup Analysed => FileAt(configuring[p]) \in TemplateFiles
    <3>1. SUFFICES ASSUME configuring[p].at \in Reading \cup Analysed
                   PROVE  FileAt(configuring[p]) \in TemplateFiles
      OBVIOUS
    <3>2. QED
      BY <3>1, ReadingIs, AnalysedAt
  <2>4. QED
    BY <1>7, <1>8, <2>2, <2>3 DEF InPlace
<1>10. DiskRight'
  <2>1. PICK owner : Owned(owner)
    BY DiskIsOwned DEF BlueprintInv
  <2>2. Owned(owner)'
    BY <1>4, <1>7, <2>1 DEF Owned, Configures, Current, Source
  <2>3. QED
    BY <2>2 DEF Owned, DiskRight
<1>11. /\ edits' \in Stats /\ templates' \in [TemplateFiles -> [stat : 0..(edits'), text : Texts]]
  BY <1>4, <1>5, <1>6
<1>12. QED
  BY <1>4, <1>9, <1>10, <1>11 DEF BlueprintInv

-----------------------------------------------------------------------------
(* The theorems *)

\* At first nothing has been configured.
LEMMA BlueprintBegins == BlueprintInit => BlueprintInv
<1> SUFFICES ASSUME BlueprintInit PROVE BlueprintInv
  OBVIOUS
<1>1. edits \in Stats /\ templates \in [TemplateFiles -> [stat : 0..edits, text : Texts]]
  BY BlueprintAssumption DEF BlueprintInit, Stats
<1>2. /\ blobs = <<>> /\ blobs \in Seq(Payloads) /\ Len(blobs) = 0
      /\ cacheFile \in [TemplateFiles -> 0..Len(blobs)]
      /\ tmpFile \in [TemplateFiles -> 0..Len(blobs)]
  BY DEF BlueprintInit
<1>3. Cleared \in Registries
  BY ClearedIs
<1>4. PICK q : q = Between("rest", 0, 0, 0, 0)
  OBVIOUS
<1>5. q \in Configs /\ q.at = "rest"
  <2>1. "rest" \in Wheres /\ 0 \in Nat
    BY DEF Wheres
  <2>2. QED
    BY ONLY <1>4, <2>1, BetweenIs
<1>6. configuring = [p \in Programs |-> q] /\ registries = [p \in Programs |-> Cleared]
  BY <1>4 DEF BlueprintInit, Outside
<1>7. configuring \in [Programs -> Configs] /\ registries \in [Programs -> Registries]
  BY <1>3, <1>5, <1>6
<1>8. InPlace(templates, q)
  BY <1>5 DEF InPlace, Reading, Analysed
<1>9. DiskRight
  <2>1. PICK owner : owner = [i \in 1..0 |-> CHOOSE f \in TemplateFiles : TRUE]
    OBVIOUS
  <2>2. owner \in [1..Len(blobs) -> TemplateFiles]
    BY <1>2, <2>1
  <2>3. /\ \A p \in Programs : configuring[p].at = "rest"
        /\ \A f \in TemplateFiles : cacheFile[f] = 0 /\ tmpFile[f] = 0
        /\ \A i : i \notin 1..Len(blobs)
    BY <1>2, <1>5, <1>6 DEF BlueprintInit
  <2>4. QED
    BY <2>2, <2>3 DEF DiskRight, Configures
<1>10. undisturbed = {} /\ agreed = {} /\ \A p \in Programs : configuring[p] = q
  BY <1>6 DEF BlueprintInit
<1>11. QED
  BY <1>1, <1>2, <1>7, <1>8, <1>9, <1>10 DEF BlueprintInv

\* Every step keeps the invariant.
LEMMA BlueprintGoesOn ==
    ASSUME BlueprintInv, [BlueprintNext]_blueprintVars PROVE BlueprintInv'
<1>1. ASSUME NEW p \in Programs,
             \/ Configure(p) \/ TakeEntry(p) \/ EndOfEntries(p) \/ EndOfEntry(p)
             \/ PassOver(p) \/ LimitReached(p) \/ TakeFile(p)
             \/ LoadCache(p) \/ ReadRejected(p) \/ ReadRaises(p)
             \/ ReadTemplate(p) \/ ReadResource(p) \/ ReadPython(p)
             \/ OpenTmp(p) \/ WriteTmp(p) \/ ReplaceTmp(p) \/ StoreCacheFails(p)
             \/ RegisterTemplate(p) \/ ProgramDies(p)
      PROVE  BlueprintInv'
  BY <1>1, ConfigureKeeps, TakeEntryKeeps, EndOfEntriesKeeps, EndOfEntryKeeps, PassOverKeeps,
     LimitReachedKeeps, TakeFileKeeps, LoadCacheKeeps, ReadRejectedKeeps, ReadRaisesKeeps,
     ReadTemplateKeeps, ReadResourceKeeps, ReadPythonKeeps, OpenTmpKeeps, WriteTmpKeeps,
     ReplaceTmpKeeps, StoreCacheFailsKeeps, RegisterTemplateKeeps, ProgramDiesKeeps
<1>2. ASSUME NEW f \in TemplateFiles, NEW text \in EditTexts, Edit(f, text)
      PROVE  BlueprintInv'
  BY <1>2, EditKeeps
<1>3. CASE UNCHANGED blueprintVars
  BY <1>3 DEF blueprintVars, BlueprintInv, DiskRight, Configures, Current, Source
<1>4. QED
  BY <1>1, <1>2, <1>3 DEF BlueprintNext

\* The invariant of the registries, the files and the cache files holds.
THEOREM BlueprintInvariant == BlueprintSpec => []BlueprintInv
<1>1. BlueprintInv /\ [BlueprintNext]_blueprintVars => BlueprintInv'
  BY BlueprintGoesOn
<1>2. QED
  BY BlueprintBegins, <1>1, PTL DEF BlueprintSpec

\* Two configurations of the same files that nobody disturbed know the same.
LEMMA BlueprintInvRepeats == ASSUME BlueprintInv PROVE ConfigurationRepeats
<1>1. SUFFICES ASSUME NEW p \in undisturbed, Configures(p, "rest"),
                      NEW mine, mine = registries[p]
               PROVE  /\ \A other \in agreed :
                            [mine EXCEPT !.settings = <<>>] = [other EXCEPT !.settings = <<>>]
                      /\ \A i \in DOMAIN mine.learned :
                            mine.learned[i] = Fact(mine.learned[i].file)
                      /\ \A k \in TemplateKeys : mine.templates[k] # NoFact =>
                            /\ mine.templates[k].text # "disallowed"
                            /\ \E i \in DOMAIN mine.learned :
                                  mine.learned[i] = mine.templates[k]
                      /\ mine.enabled => mine.learned # <<>> /\ mine.baseDir # 0
  BY DEF ConfigurationRepeats
<1>2. p \in Programs
  BY DEF BlueprintInv
<1>3. OnPath(templates, configuring[p], mine) /\ mine \in Registries
  BY <1>1, <1>2, HereIs
<1>4. /\ Concludes(templates, mine) /\ (mine.enabled => mine.learned # <<>>)
      /\ Sound(templates, mine)
  BY <1>1, <1>3 DEF OnPath, Configures
<1>5. mine.learned \in Seq(Facts) /\ DOMAIN mine.learned = 1..Len(mine.learned)
  BY <1>3 DEF Registries
<1>6. ASSUME NEW other \in agreed
      PROVE  [mine EXCEPT !.settings = <<>>] = [other EXCEPT !.settings = <<>>]
  <2>1. other \in Registries /\ Concludes(templates, other)
    BY DEF BlueprintInv
  <2>2. KnownTo(mine) = KnownTo(other) /\ mine.enabled = other.enabled
    BY <1>4, <2>1, ConclusionIsOne
  <2>3. /\ mine.learned = other.learned /\ mine.imported = other.imported
        /\ mine.templates = other.templates /\ mine.baseDir = other.baseDir
    BY <2>2, KnownIs
  <2>4. QED
    BY <1>3, <2>1, <2>2, <2>3 DEF Registries
<1>7. \A i \in DOMAIN mine.learned : mine.learned[i] = Fact(mine.learned[i].file)
  BY <1>4, <1>5 DEF Sound, Fact, FactIn
<1>8. QED
  BY <1>4, <1>5, <1>6, <1>7 DEF Sound

\* A configuration during which nobody edits a file comes to the same as any other,
\* whatever stands in the cache and whoever writes it meanwhile.
THEOREM ConfigurationIsFunction == BlueprintSpec => []ConfigurationRepeats
<1>1. BlueprintInv => ConfigurationRepeats
  BY BlueprintInvRepeats
<1>2. QED
  BY BlueprintInvariant, <1>1, PTL

-----------------------------------------------------------------------------
(***************************************************************************)
(* TestGeneration                                                          *)
(*                                                                         *)
(* A distribution over up to four categories adds up to the total, and     *)
(* only its first count may be negative, if there are fewer tests than     *)
(* categories: no more than three counts can have been raised to one, and  *)
(* the largest, which takes that back, is two at least or all are one.     *)
(* With five categories this would not hold.  The invariant says of the    *)
(* tests made, on disk or queued, that their numbers are below the next    *)
(* one, and how many of them the categories that are done, and the one     *)
(* that is not, have.                                                      *)
(***************************************************************************)

\* The sums of the first counts.
Sums(s, c, n) == s[0] = 0 /\ \A i \in 1..n : s[i] = s[i - 1] + c[i]

\* Two lists of sums of the same counts agree.
LEMMA SumsAgree ==
    ASSUME NEW c, NEW n \in Nat, NEW s, NEW t, Sums(s, c, n), Sums(t, c, n), NEW i \in 0..n
    PROVE  s[i] = t[i]
<1> SUFFICES ASSUME s[i] # t[i] PROVE FALSE
  OBVIOUS
<1> DEFINE T == {j \in 0..n : s[j] # t[j]}
<1>1. T \subseteq Nat /\ i \in T
  OBVIOUS
<1>2. PICK j \in T : \A k \in T : j <= k
  BY <1>1, Least
<1>3. j \in 1..n /\ j - 1 \in 0..n /\ j - 1 \notin T
  BY <1>1, <1>2 DEF Sums
<1>4. s[j - 1] = t[j - 1] /\ s[j] # t[j]
  BY <1>2, <1>3
<1>5. s[j] = s[j - 1] + c[j] /\ t[j] = t[j - 1] + c[j]
  BY <1>3 DEF Sums
<1>6. QED
  BY <1>4, <1>5

\* There are such sums.
LEMMA SumsExist ==
    ASSUME NEW c, NEW n \in Nat PROVE \E s : Sums(s, c, n)
<1> SUFFICES ASSUME ~\E s : Sums(s, c, n) PROVE FALSE
  OBVIOUS
<1> DEFINE T == {m \in 0..n : ~\E s : Sums(s, c, m)}
<1>1. T \subseteq Nat /\ n \in T
  OBVIOUS
<1>2. PICK m \in T : \A k \in T : m <= k
  BY <1>1, Least
<1>3. m # 0
  <2>1. Sums([i \in {0} |-> 0], c, 0)
    BY DEF Sums
  <2>2. QED
    BY <1>2, <2>1
<1>4. m \in 1..n /\ m - 1 \in 0..n /\ m - 1 \notin T
  BY <1>1, <1>2, <1>3
<1>5. PICK s : Sums(s, c, m - 1)
  BY <1>4
<1> DEFINE t == [i \in 0..m |-> IF i = m THEN s[m - 1] + c[m] ELSE s[i]]
<1>6. \A i \in 0..(m - 1) : t[i] = s[i]
  BY <1>4
<1>7. t[m] = t[m - 1] + c[m]
  BY <1>4, <1>6
<1> HIDE DEF t
<1>8. ASSUME NEW i \in 1..m PROVE t[i] = t[i - 1] + c[i]
  <2>1. CASE i = m
    BY <1>7, <2>1
  <2>2. CASE i # m
    BY <1>4, <1>5, <1>6, <2>2 DEF Sums
  <2>3. QED
    BY <2>1, <2>2
<1>9. t[0] = 0
  BY <1>4, <1>5, <1>6 DEF Sums
<1>10. Sums(t, c, m)
  BY <1>8, <1>9 DEF Sums
<1>11. QED
  BY <1>2, <1>10

\* The total is the last of the sums.
LEMMA TotalIs ==
    ASSUME NEW c, Len(c) \in Nat, NEW s, Sums(s, c, Len(c))
    PROVE  Total(c) = s[Len(c)]
<1> DEFINE n == Len(c)
           Recurs(f) == f = [i \in 0..n |-> IF i = 0 THEN 0 ELSE f[i - 1] + c[i]]
<1>1. Recurs([i \in 0..n |-> s[i]])
  <2> DEFINE t == [i \in 0..n |-> s[i]]
  <2>1. ASSUME NEW i \in 0..n PROVE t[i] = IF i = 0 THEN 0 ELSE t[i - 1] + c[i]
    BY <2>1 DEF Sums
  <2>2. QED
    BY <2>1
<1>2. PICK f : f = CHOOSE g : Recurs(g)
  OBVIOUS
<1>3. Recurs(f)
  BY <1>1, <1>2
<1>4. Sums(f, c, n)
  BY <1>3 DEF Sums
<1>5. Total(c) = f[n]
  BY <1>2 DEF Total
<1>6. QED
  BY <1>4, <1>5, SumsAgree

\* A total of numbers is a number.
LEMMA SumsAreNumbers ==
    ASSUME NEW n \in Nat, NEW c, \A i \in 1..n : c[i] \in Int, NEW s, Sums(s, c, n), NEW i \in 0..n
    PROVE  s[i] \in Int
<1> SUFFICES ASSUME s[i] \notin Int PROVE FALSE
  OBVIOUS
<1> DEFINE T == {j \in 0..n : s[j] \notin Int}
<1>1. T \subseteq Nat /\ i \in T
  OBVIOUS
<1>2. PICK j \in T : \A k \in T : j <= k
  BY <1>1, Least
<1>3. j \in 1..n /\ j - 1 \in 0..n /\ j - 1 \notin T
  BY <1>1, <1>2 DEF Sums
<1>4. s[j - 1] \in Int /\ s[j] = s[j - 1] + c[j]
  BY <1>3 DEF Sums
<1>5. QED
  BY <1>2, <1>3, <1>4

\* The total of counts is a number.
LEMMA TotalIsNumber ==
    ASSUME NEW c \in Seq(Int) PROVE Total(c) \in Int
<1>1. Len(c) \in Nat /\ \A i \in 1..Len(c) : c[i] \in Int
  OBVIOUS
<1>2. PICK s : Sums(s, c, Len(c))
  BY <1>1, SumsExist
<1>3. s[Len(c)] \in Int
  BY <1>1, <1>2, SumsAreNumbers
<1>4. QED
  BY <1>1, <1>2, <1>3, TotalIs

\* Of larger counts the total is larger, and strictly so if one is.
LEMMA TotalGrows ==
    ASSUME NEW c \in Seq(Int), NEW d \in Seq(Int), Len(c) = Len(d),
           \A i \in 1..Len(c) : c[i] <= d[i]
    PROVE  /\ Total(c) <= Total(d)
           /\ (\E i \in 1..Len(c) : c[i] < d[i]) => Total(c) < Total(d)
<1> DEFINE n == Len(c)
<1>1. /\ n \in Nat /\ Len(d) = n
      /\ \A i \in 1..n : c[i] \in Int /\ d[i] \in Int
  OBVIOUS
<1>2. PICK s, t : Sums(s, c, n) /\ Sums(t, d, n)
  BY <1>1, SumsExist
<1>3. Total(c) = s[n] /\ Total(d) = t[n]
  BY <1>1, <1>2, TotalIs
<1>4. \A i \in 0..n : s[i] \in Int /\ t[i] \in Int
  BY <1>1, <1>2, SumsAreNumbers
<1> HIDE DEF n
<1>5. ASSUME NEW i \in 0..n PROVE s[i] <= t[i]
  <2> SUFFICES ASSUME ~(s[i] <= t[i]) PROVE FALSE
    OBVIOUS
  <2> DEFINE T == {j \in 0..n : ~(s[j] <= t[j])}
  <2>1. T \subseteq Nat /\ i \in T
    BY <1>1
  <2>2. PICK j \in T : \A k \in T : j <= k
    BY <2>1, Least
  <2>3. j \in 1..n /\ j - 1 \in 0..n /\ j - 1 \notin T
    BY <1>1, <1>2, <2>1, <2>2 DEF Sums
  <2>4. s[j] = s[j - 1] + c[j] /\ t[j] = t[j - 1] + d[j] /\ s[j - 1] <= t[j - 1] /\ c[j] <= d[j]
    BY <1>2, <2>3 DEF Sums, n
  <2>5. ~(s[j] <= t[j])
    BY <2>2
  <2>6. QED
    BY <1>1, <1>4, <2>3, <2>4, <2>5
<1>6. ASSUME NEW i \in 1..n, c[i] < d[i] PROVE s[n] < t[n]
  <2> SUFFICES ASSUME ~(s[n] < t[n]) PROVE FALSE
    OBVIOUS
  <2> DEFINE T == {j \in i..n : ~(s[j] < t[j])}
  <2>1. T \subseteq Nat /\ n \in T
    BY <1>1, <1>6
  <2>2. PICK j \in T : \A k \in T : j <= k
    BY <2>1, Least
  <2>3. j \in 1..n /\ j - 1 \in 0..n /\ j \in i..n /\ ~(s[j] < t[j])
    BY <1>1, <1>6, <2>2
  <2>4. s[j] = s[j - 1] + c[j] /\ t[j] = t[j - 1] + d[j] /\ s[j - 1] <= t[j - 1] /\ c[j] <= d[j]
    BY <1>2, <1>5, <2>3 DEF Sums, n
  <2>5. CASE j = i
    BY <1>1, <1>4, <1>6, <2>3, <2>4, <2>5
  <2>6. CASE j # i
    <3>1. j - 1 \in i..n /\ j - 1 \notin T
      BY <1>1, <1>6, <2>2, <2>3, <2>6
    <3>2. s[j - 1] < t[j - 1]
      BY <3>1
    <3>3. QED
      BY <1>1, <1>4, <2>3, <2>4, <3>2
  <2>7. QED
    BY <2>5, <2>6
<1>7. n \in 0..n
  BY <1>1
<1>8. QED
  BY <1>3, <1>5, <1>6, <1>7 DEF n

\* The total of sums is the sum of the totals.
LEMMA TotalAdds ==
    ASSUME NEW c \in Seq(Int), NEW d \in Seq(Int), NEW e \in Seq(Int),
           Len(d) = Len(c), Len(e) = Len(c), \A i \in 1..Len(c) : e[i] = c[i] + d[i]
    PROVE  Total(e) = Total(c) + Total(d)
<1> DEFINE n == Len(c)
<1>1. n \in Nat /\ Len(d) = n /\ Len(e) = n
      /\ \A i \in 1..n : c[i] \in Int /\ d[i] \in Int
  OBVIOUS
<1>2. PICK s, t : Sums(s, c, n) /\ Sums(t, d, n)
  BY <1>1, SumsExist
<1>3. \A i \in 0..n : s[i] \in Int /\ t[i] \in Int
  BY <1>1, <1>2, SumsAreNumbers
<1> DEFINE u == [i \in 0..n |-> s[i] + t[i]]
<1>4. \A i \in 1..n : i - 1 \in 0..n /\ i \in 0..n
  BY <1>1
<1>5. \A i \in 1..n : u[i] = u[i - 1] + e[i]
  <2>1. SUFFICES ASSUME NEW i \in 1..n PROVE u[i] = u[i - 1] + e[i]
    OBVIOUS
  <2>2. u[i] = s[i] + t[i] /\ u[i - 1] = s[i - 1] + t[i - 1]
    BY <1>4
  <2>3. s[i] = s[i - 1] + c[i] /\ t[i] = t[i - 1] + d[i] /\ e[i] = c[i] + d[i]
    BY <1>2 DEF Sums
  <2>4. PICK a \in Int, b \in Int, x \in Int, y \in Int :
           a = s[i - 1] /\ b = t[i - 1] /\ x = c[i] /\ y = d[i]
    BY <1>1, <1>3, <1>4
  <2>5. u[i] = (a + x) + (b + y) /\ u[i - 1] = a + b /\ e[i] = x + y
    BY <2>2, <2>3, <2>4
  <2> HIDE DEF u
  <2>6. QED
    BY <2>5
<1>6. u[0] = 0 /\ u[n] = s[n] + t[n]
  BY <1>1, <1>2 DEF Sums
<1> HIDE DEF u
<1>7. Sums(u, e, n)
  BY <1>5, <1>6 DEF Sums
<1>8. Total(c) = s[n] /\ Total(d) = t[n] /\ Total(e) = u[n]
  BY <1>1, <1>2, <1>7, TotalIs
<1>9. QED
  BY <1>6, <1>8

\* The total of multiples is the multiple of the total.
LEMMA TotalScales ==
    ASSUME NEW c \in Seq(Int), NEW m \in Int, NEW e \in Seq(Int),
           Len(e) = Len(c), \A i \in 1..Len(c) : e[i] = m * c[i]
    PROVE  Total(e) = m * Total(c)
<1> DEFINE n == Len(c)
<1>1. n \in Nat /\ Len(e) = n /\ \A i \in 1..n : c[i] \in Int
  OBVIOUS
<1>2. PICK s : Sums(s, c, n)
  BY <1>1, SumsExist
<1>3. \A i \in 0..n : s[i] \in Int
  BY <1>1, <1>2, SumsAreNumbers
<1> DEFINE u == [i \in 0..n |-> m * s[i]]
<1>4. \A i \in 1..n : i - 1 \in 0..n /\ i \in 0..n
  BY <1>1
<1>5. \A i \in 1..n : u[i] = u[i - 1] + e[i]
  <2>1. SUFFICES ASSUME NEW i \in 1..n PROVE u[i] = u[i - 1] + e[i]
    OBVIOUS
  <2>2. u[i] = m * s[i] /\ u[i - 1] = m * s[i - 1]
    BY <1>4
  <2>3. s[i] = s[i - 1] + c[i] /\ e[i] = m * c[i]
    BY <1>2 DEF Sums
  <2>4. s[i - 1] \in Int /\ c[i] \in Int
    BY <1>1, <1>3, <1>4
  <2> HIDE DEF u
  <2>5. m * (s[i - 1] + c[i]) = m * s[i - 1] + m * c[i]
    BY <2>4
  <2>6. QED
    BY <2>2, <2>3, <2>5
<1>6. u[0] = 0
  BY <1>1, <1>2 DEF Sums
<1>7. Total(c) = s[n] /\ Total(e) = u[n]
  BY <1>1, <1>2, <1>5, <1>6, TotalIs DEF Sums
<1>8. QED
  BY <1>1, <1>7

\* One count changes.
LEMMA TotalChanges ==
    ASSUME NEW c \in Seq(Int), NEW j \in 1..Len(c), NEW m \in Int
    PROVE  /\ [c EXCEPT ![j] = m] \in Seq(Int) /\ Len([c EXCEPT ![j] = m]) = Len(c)
           /\ Total([c EXCEPT ![j] = m]) = Total(c) + (m - c[j])
<1>1. PICK e : e = [c EXCEPT ![j] = m]
  OBVIOUS
<1> DEFINE n == Len(c)
<1>2. /\ n \in Nat /\ e \in Seq(Int) /\ Len(e) = n /\ e[j] = m
      /\ \A i \in 1..n : c[i] \in Int /\ (i # j => e[i] = c[i])
  BY <1>1
<1>3. PICK s : Sums(s, c, n)
  BY <1>2, SumsExist
<1>4. \A i \in 0..n : s[i] \in Int
  BY <1>2, <1>3, SumsAreNumbers
<1> DEFINE u == [i \in 0..n |-> IF i < j THEN s[i] ELSE s[i] + (m - c[j])]
<1>5. \A i \in 1..n : u[i] = u[i - 1] + e[i]
  <2>1. SUFFICES ASSUME NEW i \in 1..n PROVE u[i] = u[i - 1] + e[i]
    OBVIOUS
  <2>2. /\ u[i] = IF i < j THEN s[i] ELSE s[i] + (m - c[j])
        /\ u[i - 1] = IF i - 1 < j THEN s[i - 1] ELSE s[i - 1] + (m - c[j])
        /\ i - 1 \in 0..n /\ i \in 0..n
    BY <1>2
  <2>3. s[i] = s[i - 1] + c[i]
    BY <1>3 DEF Sums
  <2>4. s[i] \in Int /\ s[i - 1] \in Int /\ c[i] \in Int /\ c[j] \in Int
    BY <1>2, <1>4, <2>2
  <2>5. e[i] = IF i = j THEN m ELSE c[i]
    BY <1>2
  <2>6. CASE i < j
    <3>1. i - 1 < j /\ i # j
      BY <2>6
    <3>2. QED
      BY <2>2, <2>3, <2>5, <2>6, <3>1
  <2>7. CASE i = j
    <3>1. i - 1 < j /\ ~(i < j)
      BY <2>7
    <3>2. u[i] = s[i] + (m - c[i]) /\ u[i - 1] = s[i - 1] /\ e[i] = m
      BY <2>2, <2>5, <2>7, <3>1
    <3>3. PICK a \in Int, x \in Int : a = s[i - 1] /\ x = c[i]
      BY <2>4
    <3>4. u[i] = (a + x) + (m - x) /\ u[i - 1] = a
      BY <2>3, <3>2, <3>3
    <3> HIDE DEF u
    <3>5. QED
      BY <3>2, <3>4
  <2>8. CASE i > j
    <3>1. ~(i - 1 < j) /\ ~(i < j) /\ i # j
      BY <2>8
    <3>2. u[i] = s[i] + (m - c[j]) /\ u[i - 1] = s[i - 1] + (m - c[j]) /\ e[i] = c[i]
      BY <2>2, <2>5, <3>1
    <3>3. QED
      BY ONLY SMTT(30), <2>3, <2>4, <3>2, m \in Int
  <2>9. QED
    BY <2>6, <2>7, <2>8
<1>6. u[0] = 0 /\ u[n] = s[n] + (m - c[j])
  BY <1>2, <1>3 DEF Sums
<1> HIDE DEF u
<1>7. Sums(u, e, n)
  BY <1>5, <1>6 DEF Sums
<1>8. Total(c) = s[n] /\ Total(e) = u[n]
  BY <1>2, <1>3, <1>7, TotalIs
<1>9. QED
  BY <1>1, <1>2, <1>6, <1>8

\* One count more.
LEMMA TotalAppends ==
    ASSUME NEW c \in Seq(Int), NEW m \in Int
    PROVE  Total(Append(c, m)) = Total(c) + m
<1>1. PICK e : e = Append(c, m)
  OBVIOUS
<1> DEFINE n == Len(c)
<1>2. n \in Nat /\ Len(e) = n + 1 /\ e[n + 1] = m /\ \A i \in 1..n : e[i] = c[i]
  BY <1>1
<1> HIDE DEF n
<1>3. PICK s : Sums(s, e, n + 1)
  <2>1. n + 1 \in Nat
    BY <1>2
  <2>2. QED
    BY <2>1, SumsExist
<1>4. Sums(s, c, n) /\ s[n + 1] = s[n] + m
  <2>1. n + 1 \in 1..(n + 1) /\ (n + 1) - 1 = n
    BY <1>2
  <2>2. \A i \in 1..n : i \in 1..(n + 1)
    BY <1>2
  <2>3. QED
    BY <1>2, <1>3, <2>1, <2>2 DEF Sums
<1>5. Total(c) = s[n] /\ Total(e) = s[n + 1]
  <2>1. Len(c) = n /\ Len(c) \in Nat /\ Len(e) \in Nat
    BY <1>2 DEF n
  <2>2. QED
    BY <1>2, <1>3, <1>4, <2>1, TotalIs
<1>6. QED
  BY <1>1, <1>4, <1>5

\* The total of zeros is zero.
LEMMA TotalOfNone ==
    ASSUME NEW c \in Seq(Int), \A i \in 1..Len(c) : c[i] = 0
    PROVE  Total(c) = 0
<1> DEFINE n == Len(c)
           u == [i \in 0..n |-> 0]
<1>1. n \in Nat
  OBVIOUS
<1>2. Sums(u, c, n)
  BY <1>1 DEF Sums
<1>3. QED
  BY <1>1, <1>2, TotalIs

\* The first r of n counts are one larger.
LEMMA SpreadTotal ==
    ASSUME NEW count \in Nat, NEW types \in Nat \ {0}
    PROVE  /\ Spread(count, types) \in Seq(Int) /\ Len(Spread(count, types)) = types
           /\ \A k \in 1..types : Spread(count, types)[k] >= 0
           /\ Total(Spread(count, types)) = count
<1>1. PICK q \in Int, r \in Int :
         /\ q = count \div types /\ r = count % types
         /\ count = types * q + r /\ 0 <= r /\ r < types
  OBVIOUS
<1>2. q >= 0
  BY <1>1
<1>3. PICK c : c = [k \in 1..types |-> q + IF k <= r THEN 1 ELSE 0]
  OBVIOUS
<1>4. /\ c \in Seq(Int) /\ Len(c) = types
      /\ \A k \in 1..types : c[k] = q + (IF k <= r THEN 1 ELSE 0) /\ c[k] >= 0
  BY <1>1, <1>2, <1>3
<1>5. Spread(count, types) = c
  BY <1>1, <1>3 DEF Spread
<1> DEFINE u == [i \in 0..types |-> i * q + IF i <= r THEN i ELSE r]
<1>6. ASSUME NEW i \in 1..types PROVE u[i] = u[i - 1] + c[i]
  <2>1. /\ u[i] = i * q + (IF i <= r THEN i ELSE r)
        /\ u[i - 1] = (i - 1) * q + (IF i - 1 <= r THEN i - 1 ELSE r)
    OBVIOUS
  <2>2. PICK a \in Int : a = (i - 1) * q
    BY <1>1
  <2>3. i * q = a + q
    <3>1. i \in Int /\ q \in Int
      BY <1>1
    <3>2. (i - 1) * q = i * q - q /\ i * q \in Int
      BY ONLY <3>1
    <3>3. QED
      BY <3>1, <3>2, <2>2
  <2>4. c[i] = q + (IF i <= r THEN 1 ELSE 0)
    BY <1>4
  <2>5. /\ u[i] = (a + q) + (IF i <= r THEN i ELSE r)
        /\ u[i - 1] = a + (IF i - 1 <= r THEN i - 1 ELSE r)
    BY <2>1, <2>2, <2>3
  <2> HIDE DEF u
  <2>6. QED
    BY <1>1, <2>2, <2>4, <2>5
<1>7. u[0] = 0 /\ u[types] = types * q + r
  BY <1>1
<1>8. Total(c) = u[types]
  BY <1>4, <1>6, <1>7, TotalIs DEF Sums
<1>9. QED
  BY <1>1, <1>4, <1>5, <1>7, <1>8

\* The total of a set of places is their number.
LEMMA TotalOfPlaces ==
    ASSUME NEW n \in Nat, NEW up, up \subseteq 1..n, NEW c \in Seq(Int), Len(c) = n,
           \A k \in 1..n : c[k] = IF k \in up THEN 1 ELSE 0
    PROVE  Total(c) = Cardinality(up)
<1> DEFINE u == [i \in 0..n |-> Cardinality(up \cap 1..i)]
<1>1. \A i \in 0..n : IsFiniteSet(up \cap 1..i)
  <2>1. \A i \in 0..n : IsFiniteSet(1..i)
    BY FS_Interval
  <2>2. \A i \in 0..n : up \cap 1..i \subseteq 1..i
    OBVIOUS
  <2>3. QED
    BY <2>1, <2>2, FS_Subset
<1>2. ASSUME NEW i \in 1..n PROVE u[i] = u[i - 1] + c[i]
  <2>1. i - 1 \in 0..n /\ i \in 0..n
    OBVIOUS
  <2>2. PICK S, T : S = up \cap 1..(i - 1) /\ T = up \cap 1..i
    OBVIOUS
  <2>3. u[i] = Cardinality(T) /\ u[i - 1] = Cardinality(S) /\ IsFiniteSet(S)
    BY <1>1, <2>1, <2>2
  <2>4. Cardinality(S) \in Nat
    BY <2>3, FS_CardinalityType
  <2>5. CASE i \in up
    <3>1. T = S \cup {i} /\ i \notin S
      BY <2>2, <2>5
    <3>2. Cardinality(T) = Cardinality(S) + 1
      BY <2>3, <3>1, FS_AddElement
    <3>3. QED
      BY <2>3, <2>5, <3>2
  <2>6. CASE i \notin up
    <3>1. T = S
      BY <2>2, <2>6
    <3>2. QED
      BY <2>3, <2>4, <2>6, <3>1
  <2>7. QED
    BY <2>5, <2>6
<1>3. u[0] = 0
  <2>1. up \cap 1..0 = {}
    OBVIOUS
  <2>2. QED
    BY <2>1, FS_EmptySet
<1>4. u[n] = Cardinality(up)
  <2>1. up \cap 1..n = up
    OBVIOUS
  <2>2. n \in 0..n
    OBVIOUS
  <2>3. u[n] = Cardinality(up \cap 1..n)
    BY <2>2
  <2>4. QED
    BY ONLY <2>1, <2>3
<1> HIDE DEF u
<1>5. Total(c) = u[n]
  BY <1>2, <1>3, TotalIs DEF Sums
<1>6. QED
  BY <1>4, <1>5

-----------------------------------------------------------------------------
(* Distributions *)

\* What a distribution of total over n categories must be for the suite to be whole:
\* only the first count may be negative, and only if there are more categories.
Fair(counts, n, total, weighted) ==
    /\ counts \in Seq(Int) /\ Len(counts) = n /\ Total(counts) = total
    /\ \A k \in 2..n : counts[k] >= 0
    /\ weighted \/ n <= total => counts[1] >= 0

\* One of some numbers is the greatest.
LEMMA Greatest ==
    ASSUME NEW n \in Nat \ {0}, NEW c, \A k \in 1..n : c[k] \in Int
    PROVE  \E k \in 1..n : \A j \in 1..n : c[j] <= c[k]
<1> SUFFICES ASSUME ~\E k \in 1..n : \A j \in 1..n : c[j] <= c[k] PROVE FALSE
  OBVIOUS
<1> DEFINE T == {m \in 1..n : ~\E k \in 1..m : \A j \in 1..m : c[j] <= c[k]}
<1>1. T \subseteq Nat /\ n \in T
  OBVIOUS
<1>2. PICK m \in T : \A k \in T : m <= k
  BY <1>1, Least
<1>3. m # 1
  <2>1. 1..1 = {1} /\ c[1] \in Int
    OBVIOUS
  <2>2. \E k \in 1..1 : \A j \in 1..1 : c[j] <= c[k]
    BY <2>1
  <2>3. QED
    BY <1>2, <2>2
<1>4. m \in 2..n /\ m - 1 \in 1..n /\ m - 1 \notin T
  <2>1. m \in 1..n
    BY <1>2
  <2>2. m \in 2..n /\ m - 1 \in 1..n /\ ~(m <= m - 1)
    BY <1>3, <2>1
  <2>3. QED
    BY <1>2, <2>2
<1>5. PICK k \in 1..(m - 1) : \A j \in 1..(m - 1) : c[j] <= c[k]
  BY <1>4
<1>6. c[k] \in Int /\ c[m] \in Int /\ \A j \in 1..m : j \in 1..(m - 1) \/ j = m
  BY <1>4
<1>7. CASE c[m] <= c[k]
  BY <1>2, <1>4, <1>5, <1>6, <1>7
<1>8. CASE c[k] <= c[m]
  <2>1. \A j \in 1..m : c[j] <= c[m]
    <3>1. SUFFICES ASSUME NEW j \in 1..m PROVE c[j] <= c[m]
      OBVIOUS
    <3>2. c[j] \in Int
      BY <1>4
    <3>3. CASE j = m
      BY <1>6, <3>3
    <3>4. CASE j \in 1..(m - 1)
      <4>1. c[j] <= c[k]
        BY <1>5, <3>4
      <4>2. QED
        BY <1>6, <1>8, <3>2, <4>1
    <3>5. QED
      BY <1>6, <3>3, <3>4
  <2>2. QED
    BY <1>2, <1>4, <2>1
<1>9. QED
  BY <1>6, <1>7, <1>8

\* A request has one to four shares, of one or more each.
LEMMA RequestIs ==
    ASSUME NEW r \in Requests, \A k \in DOMAIN r : r[k].category \in Categories
    PROVE  /\ Len(r) \in 1..4 /\ DOMAIN r = 1..Len(r)
           /\ Shares(r) \in Seq(Int) /\ Len(Shares(r)) = Len(r)
           /\ DOMAIN Shares(r) = 1..Len(r)
           /\ \A k \in 1..Len(r) : Shares(r)[k] \in Int /\ Shares(r)[k] >= 1
           /\ Total(Shares(r)) \in Int /\ Total(Shares(r)) >= 1
<1> DEFINE n == Len(r)
<1>1. /\ n \in Nat \ {0} /\ DOMAIN r = 1..n
      /\ \A k \in 1..n : r[k].share \in Nat \ {0}
      /\ \A j, k \in 1..n : r[j].category = r[k].category => j = k
  BY GenerationAssumption
<1> HIDE DEF n
<1>2. n <= 4
  <2> DEFINE f == [k \in 1..n |-> r[k].category]
  <2>1. f \in Injection(1..n, Categories)
    BY <1>1 DEF Injection, IsInjective
  <2>2. IsFiniteSet(Categories) /\ Cardinality(Categories) <= 4
    BY GenerationAssumption
  <2>3. Cardinality(1..n) <= Cardinality(Categories)
    BY <2>1, <2>2, FS_Injection
  <2>4. Cardinality(1..n) = n /\ Cardinality(Categories) \in Nat
    <3>1. Cardinality(1..n) = n
      BY <1>1, FS_Interval
    <3>2. Cardinality(Categories) \in Nat
      BY <2>2, FS_CardinalityType
    <3>3. QED
      BY <3>1, <3>2
  <2>5. QED
    BY <1>1, <2>2, <2>3, <2>4
<1>3. PICK s : s = [k \in 1..n |-> r[k].share]
  OBVIOUS
<1>4. /\ s \in Seq(Int) /\ Len(s) = n /\ Shares(r) = s /\ DOMAIN s = 1..n
      /\ \A k \in 1..n : s[k] \in Int /\ s[k] >= 1
  BY <1>1, <1>3 DEF Shares
<1>5. Total(s) \in Int /\ Total(s) >= 1
  <2>1. PICK z : z = [k \in 1..n |-> 0]
    OBVIOUS
  <2>2. z \in Seq(Int) /\ Len(z) = n /\ \A k \in 1..n : z[k] = 0
    BY <1>1, <2>1
  <2>3. Total(z) = 0
    BY <2>2, TotalOfNone
  <2>4. 1 \in 1..Len(z) /\ \A k \in 1..Len(z) : z[k] < s[k] /\ z[k] <= s[k]
    BY <1>1, <1>4, <2>2
  <2>5. Total(z) < Total(s)
    BY <1>4, <2>2, <2>4, TotalGrows
  <2>6. QED
    BY <1>4, <2>3, <2>5, TotalIsNumber
<1>6. n \in 1..4
  BY <1>1, <1>2
<1>7. QED
  BY <1>1, <1>4, <1>5, <1>6 DEF n

\* A positive factor keeps the order.
LEMMA ProductsCompare ==
    ASSUME NEW c \in Int, c >= 1, NEW a \in Int, NEW b \in Int
    PROVE  /\ c * a <= c * b => a <= b
           /\ c * a < c * b => a < b
<1>1. ASSUME a > b PROVE c * a > c * b
  <2>1. PICK d \in Int : d >= 1 /\ a = b + d
    <3>1. a - b \in Int /\ a - b >= 1 /\ a = b + (a - b)
      BY <1>1
    <3>2. QED
      BY <3>1
  <2>2. c * (b + d) = c * b + c * d
    OBVIOUS
  <2>3. c * d >= 1
    BY <2>1
  <2>4. QED
    BY <2>1, <2>2, <2>3
<1>2. c * a \in Int /\ c * b \in Int
  OBVIOUS
<1>3. a = b => c * a = c * b
  OBVIOUS
<1>4. QED
  BY <1>1, <1>2, <1>3

\* Counts above one are within their share of the total.
Within(b, s, current, total) ==
    \A k \in 1..Len(b) : b[k] >= 2 => current * b[k] <= total * s[k]

\* A count that is one is less than its share, which is more than nothing.
LEMMA WithinIs ==
    ASSUME NEW b, NEW s, NEW current \in Int, NEW total \in Nat \ {0},
           Within(b, s, current, total), NEW k \in 1..Len(b), b[k] \in Int, b[k] >= 1,
           s[k] \in Int, s[k] >= 1, NEW e \in Int, e = IF b[k] >= 2 THEN b[k] ELSE 0
    PROVE  /\ current * e \in Int /\ total * s[k] \in Int
           /\ current * e <= total * s[k]
           /\ b[k] = 1 => current * e < total * s[k]
<1>1. PICK x \in Int : x = s[k] /\ x >= 1
  OBVIOUS
<1>2. total * x >= 1 /\ total * x \in Int
  BY <1>1
<1>3. CASE b[k] >= 2
  BY <1>1, <1>2, <1>3 DEF Within
<1>4. CASE b[k] = 1
  <2>1. e = 0
    BY <1>4
  <2>2. current * e = 0
    BY <2>1
  <2>3. QED
    BY SMTT(30), <1>1, <1>2, <2>2
<1>5. QED
  BY <1>3, <1>4

\* Of counts that are at least one, and those above one within their share, no more than
\* three can be one if another is larger: what the largest takes back leaves it zero.
LEMMA LargestBears ==
    ASSUME NEW n \in Nat, n <= 4, NEW total \in Nat \ {0}, NEW s \in Seq(Int), Len(s) = n,
           \A k \in 1..n : s[k] \in Int /\ s[k] >= 1,
           NEW current \in Int, current = Total(s), current >= 1,
           NEW b \in Seq(Int), Len(b) = n, \A k \in 1..n : b[k] \in Int /\ b[k] >= 1,
           Within(b, s, current, total), NEW l \in 1..n, b[l] >= 2
    PROVE  b[l] + total - Total(b) >= 0
<1>1. PICK e : e = [k \in 1..n |-> IF b[k] >= 2 THEN b[k] ELSE 0]
  OBVIOUS
<1>2. PICK o : o = [k \in 1..n |-> IF b[k] = 1 THEN 1 ELSE 0]
  OBVIOUS
<1>3. /\ e \in Seq(Int) /\ Len(e) = n
      /\ \A k \in 1..n : e[k] \in Int /\ e[k] = (IF b[k] >= 2 THEN b[k] ELSE 0)
  BY <1>1
<1>4. /\ o \in Seq(Int) /\ Len(o) = n
      /\ \A k \in 1..n : o[k] \in Int /\ o[k] = (IF b[k] = 1 THEN 1 ELSE 0)
  BY <1>2
<1>5. Total(b) = Total(e) + Total(o)
  <2>1. \A k \in 1..n : b[k] = e[k] + o[k]
    <3>1. SUFFICES ASSUME NEW k \in 1..n PROVE b[k] = e[k] + o[k]
      OBVIOUS
    <3>2. b[k] \in Int /\ b[k] >= 1 /\ (b[k] >= 2 \/ b[k] = 1)
      OBVIOUS
    <3>3. QED
      BY SMTT(30), <1>3, <1>4, <3>2
  <2>2. /\ e \in Seq(Int) /\ o \in Seq(Int) /\ b \in Seq(Int)
        /\ Len(o) = Len(e) /\ Len(b) = Len(e) /\ \A k \in 1..Len(e) : b[k] = e[k] + o[k]
    BY <1>3, <1>4, <2>1
  <2>3. QED
    BY ONLY <2>2, TotalAdds
<1>6. PICK te \in Int, to \in Int : te = Total(e) /\ to = Total(o)
  BY <1>3, <1>4, TotalIsNumber
<1>7. ASSUME NEW k \in 1..n
      PROVE  /\ current * e[k] \in Int /\ total * s[k] \in Int
             /\ current * e[k] <= total * s[k]
             /\ b[k] = 1 => current * e[k] < total * s[k]
  <2>1. b[k] \in Int /\ b[k] >= 1 /\ s[k] \in Int /\ s[k] >= 1 /\ k \in 1..Len(b)
    OBVIOUS
  <2>2. e[k] \in Int /\ e[k] = IF b[k] >= 2 THEN b[k] ELSE 0
    BY <1>3
  <2>3. QED
    BY <2>1, <2>2, WithinIs
<1>8. PICK ce : ce = [k \in 1..n |-> current * e[k]]
  OBVIOUS
<1>9. PICK ts : ts = [k \in 1..n |-> total * s[k]]
  OBVIOUS
<1>10. ce \in Seq(Int) /\ Len(ce) = n /\ \A k \in 1..n : ce[k] = current * e[k]
  BY <1>7, <1>8
<1>11. ts \in Seq(Int) /\ Len(ts) = n /\ \A k \in 1..n : ts[k] = total * s[k]
  BY <1>7, <1>9
<1>12. Total(ce) = current * te
  BY ZenonT(60), <1>3, <1>6, <1>10, TotalScales
<1>13. Total(ts) = total * current
  <2>1. total \in Int /\ Len(ts) = Len(s) /\ \A k \in 1..Len(s) : ts[k] = total * s[k]
    BY <1>11
  <2>2. QED
    BY <1>11, <2>1, TotalScales
<1>14. Total(ce) <= Total(ts) /\ ((\E k \in 1..n : b[k] = 1) => Total(ce) < Total(ts))
  <2>1. \A k \in 1..n : ce[k] <= ts[k] /\ (b[k] = 1 => ce[k] < ts[k])
    BY <1>7, <1>10, <1>11
  <2>2. QED
    BY <1>10, <1>11, <2>1, TotalGrows
<1>15. te <= total /\ ((\E k \in 1..n : b[k] = 1) => te < total)
  <2>1. total * current = current * total /\ total \in Int
    OBVIOUS
  <2>2. /\ current * te <= current * total => te <= total
        /\ current * te < current * total => te < total
    BY <2>1, ProductsCompare
  <2>3. QED
    BY <1>12, <1>13, <1>14, <2>1, <2>2
<1>16. to <= n - 1
  <2>1. PICK w : w = [k \in 1..n |-> 1]
    OBVIOUS
  <2>2. w \in Seq(Int) /\ Len(w) = n /\ \A k \in 1..n : w[k] = 1
    BY <2>1
  <2>3. Total(w) = Cardinality(1..n)
    <3>1. 1..n \subseteq 1..n /\ \A k \in 1..n : w[k] = IF k \in 1..n THEN 1 ELSE 0
      BY <2>2
    <3>2. QED
      BY <2>2, <3>1, TotalOfPlaces
  <2>4. Cardinality(1..n) = n
    BY FS_Interval
  <2>5. \A k \in 1..n : o[k] <= w[k]
    <3>1. SUFFICES ASSUME NEW k \in 1..n PROVE o[k] <= w[k]
      OBVIOUS
    <3>2. w[k] = 1 /\ (o[k] = 1 \/ o[k] = 0)
      BY <1>4, <2>2
    <3>3. QED
      BY <3>2
  <2>6. o[l] < w[l]
    <3>1. w[l] = 1 /\ o[l] = 0
      BY <1>4, <2>2
    <3>2. QED
      BY <3>1
  <2>7. Total(o) < Total(w)
    BY <1>4, <2>2, <2>5, <2>6, TotalGrows
  <2>8. QED
    BY <1>6, <2>3, <2>4, <2>7
<1>17. PICK x \in Int : x = b[l] /\ x >= 2
  OBVIOUS
<1>18. CASE \E k \in 1..n : b[k] = 1
  <2>1. te <= total - 1 /\ to <= 3 /\ total \in Int
    <3>1. te < total /\ to <= n - 1
      BY <1>15, <1>16, <1>18
    <3>2. total \in Int /\ n \in Int /\ n <= 4
      OBVIOUS
    <3>3. QED
      BY ONLY <3>1, <3>2, te \in Int, to \in Int
  <2>2. x + total - (te + to) >= 0
    BY ONLY <1>17, <2>1, te \in Int, to \in Int
  <2>3. QED
    BY <1>5, <1>6, <1>17, <2>2
<1>19. CASE ~\E k \in 1..n : b[k] = 1
  <2>1. \A k \in 1..n : o[k] = 0
    BY <1>4, <1>19
  <2>2. to = 0
    BY <1>4, <1>6, <2>1, TotalOfNone
  <2>3. QED
    BY <1>5, <1>6, <1>15, <1>17, <2>2
<1>20. QED
  BY <1>18, <1>19

\* A quotient is rounded down, and below no more than its number.
LEMMA QuotientIs ==
    ASSUME NEW x \in Int, NEW c \in Int, c >= 1
    PROVE  x \div c \in Int /\ c * (x \div c) <= x /\ (x >= 0 => x \div c >= 0)
<1>1. PICK q \in Int, r \in Int :
         q = x \div c /\ r = x % c /\ x = (c * q) + r /\ 0 <= r /\ r < c
  OBVIOUS
<1>2. PICK y \in Int : y = c * q
  OBVIOUS
<1>3. q <= -1 => y <= -c
  <2>1. SUFFICES ASSUME q <= -1 PROVE y <= -c
    OBVIOUS
  <2>2. PICK d \in Int : d >= 0 /\ q = -1 - d
    <3>1. -1 - q \in Int /\ -1 - q >= 0 /\ q = -1 - (-1 - q)
      BY <2>1
    <3>2. QED
      BY <3>1
  <2>3. c * (-1 - d) = -c - c * d /\ c * d >= 0 /\ c * d \in Int
    BY <2>2
  <2>4. QED
    BY <1>2, <2>2, <2>3
<1>4. QED
  BY <1>1, <1>2, <1>3

\* Counts that are scaled are at least one, and within their share if above.
LEMMA ScaledIs ==
    ASSUME NEW n \in Nat, NEW s \in Seq(Int), Len(s) = n, DOMAIN s = 1..n,
           \A k \in 1..n : s[k] \in Int /\ s[k] >= 1,
           NEW current \in Int, current = Total(s), current >= 1, NEW total \in Nat \ {0},
           NEW b \in Scaled(s, total)
    PROVE  /\ b \in Seq(Int) /\ Len(b) = n /\ DOMAIN b = 1..n
           /\ \A k \in 1..n : b[k] \in Int /\ b[k] >= 1
           /\ Within(b, s, current, total)
<1>1. PICK short : b = [k \in DOMAIN s |-> AtLeastOne(
          Floors(s, total)[k] - (IF k \in short THEN 1 ELSE 0))]
  BY DEF Scaled
<1>2. PICK v : v = Floors(s, total) /\ v = [k \in 1..n |-> (s[k] * total) \div current]
  BY DEF Floors
<1>3. ASSUME NEW k \in 1..n
      PROVE  v[k] \in Int /\ current * v[k] <= total * s[k] /\ total * s[k] \in Int
  <2>1. PICK x \in Int : x = s[k]
    OBVIOUS
  <2>2. total * x = x * total /\ x * total \in Int
    OBVIOUS
  <2>3. PICK y \in Int : y = x * total
    BY <2>2
  <2>4. v[k] = y \div current
    BY <1>2, <2>1, <2>3
  <2>5. QED
    BY <2>1, <2>2, <2>3, <2>4, QuotientIs
<1>4. ASSUME NEW k \in 1..n
      PROVE  b[k] = AtLeastOne(v[k] - (IF k \in short THEN 1 ELSE 0))
  BY <1>1, <1>2
<1>5. ASSUME NEW k \in 1..n
      PROVE  b[k] \in Int /\ b[k] >= 1 /\ (b[k] >= 2 => b[k] <= v[k])
  <2>1. PICK y \in Int : y = v[k]
    BY <1>3
  <2>2. b[k] = AtLeastOne(y - (IF k \in short THEN 1 ELSE 0))
    BY <1>4, <2>1
  <2>3. CASE k \in short
    BY <2>1, <2>2, <2>3 DEF AtLeastOne
  <2>4. CASE k \notin short
    BY <2>1, <2>2, <2>4 DEF AtLeastOne
  <2>5. QED
    BY <2>3, <2>4
<1>6. b \in Seq(Int) /\ Len(b) = n /\ DOMAIN b = 1..n
  <2>1. PICK w : w = [k \in 1..n |-> b[k]]
    OBVIOUS
  <2>2. w \in Seq(Int) /\ Len(w) = n /\ DOMAIN w = 1..n
    BY <1>5, <2>1
  <2>3. b = w
    BY <1>1, <2>1
  <2>4. QED
    BY <2>2, <2>3
<1>7. ASSUME NEW k \in 1..n, b[k] >= 2 PROVE current * b[k] <= total * s[k]
  <2>1. PICK x \in Int, y \in Int, z \in Int :
           x = b[k] /\ y = v[k] /\ z = total * s[k] /\ x <= y /\ current * y <= z
    BY <1>3, <1>5, <1>7
  <2>2. PICK d \in Int : d >= 0 /\ y = x + d
    <3>1. y - x \in Int /\ y - x >= 0 /\ y = x + (y - x)
      BY SMTT(30), <2>1
    <3>2. QED
      BY <3>1
  <2>3. current * (x + d) = current * x + current * d /\ current * d >= 0
    BY <2>2
  <2>4. current * x \in Int /\ current * d \in Int
    OBVIOUS
  <2>5. current * x <= z
    <3>1. PICK p \in Int, q \in Int : p = current * x /\ q = current * d
      BY <2>4
    <3>2. current * y = p + q /\ q >= 0
      BY <2>2, <2>3, <3>1
    <3>3. p + q <= z
      BY <2>1, <3>2
    <3>4. p <= z
      BY ONLY <3>2, <3>3, p \in Int, q \in Int, z \in Int
    <3>5. QED
      BY <3>1, <3>4
  <2>6. QED
    BY <2>1, <2>5
<1>8. Within(b, s, current, total)
  BY <1>6, <1>7 DEF Within
<1>9. QED
  BY <1>5, <1>6, <1>8

\* The largest category, and the first one if all are equal.
LEMMA LargestIs ==
    ASSUME NEW n \in Nat \ {0}, NEW b, DOMAIN b = 1..n, \A k \in 1..n : b[k] \in Int,
           NEW l, l = LargestCategory(b)
    PROVE  /\ l \in 1..n /\ \A j \in 1..n : b[j] <= b[l]
           /\ (\A j \in 1..n : b[j] <= b[1]) => l = 1
<1>1. PICK T : T = {k \in 1..n : \A j \in 1..n : b[j] <= b[k]}
  OBVIOUS
<1>2. l = Min(T)
  BY <1>1 DEF LargestCategory
<1>3. T \subseteq Nat
  BY <1>1
<1>4. T # {}
  <2>1. PICK k \in 1..n : \A j \in 1..n : b[j] <= b[k]
    BY Greatest
  <2>2. k \in T
    BY <1>1, <2>1
  <2>3. QED
    BY <2>2
<1>5. l \in T /\ \A k \in T : l <= k
  <2>1. \E x \in T : \A y \in T : x <= y
    BY <1>3, <1>4, Least
  <2>2. QED
    BY <1>2, <2>1 DEF Min
<1>6. 1 \in 1..n
  OBVIOUS
<1>7. QED
  BY <1>1, <1>5, <1>6

\* The same, with a name for each of its parts.
LEMMA RequestPicked ==
    ASSUME NEW r \in Requests, \A k \in DOMAIN r : r[k].category \in Categories
    PROVE  \E n \in Nat \ {0}, s \in Seq(Int), current \in Int :
              /\ n = Len(r) /\ s = Shares(r) /\ current = Total(s) /\ current >= 1
              /\ n <= 4 /\ Len(s) = n /\ DOMAIN s = 1..n
              /\ \A k \in 1..n : s[k] \in Int /\ s[k] >= 1
<1>1. PICK n : n = Len(r)
  OBVIOUS
<1>2. PICK s : s = Shares(r)
  OBVIOUS
<1>3. PICK current : current = Total(s)
  OBVIOUS
<1>4. /\ n \in 1..4 /\ s \in Seq(Int) /\ Len(s) = n /\ DOMAIN s = 1..n
      /\ \A k \in 1..n : s[k] \in Int /\ s[k] >= 1
      /\ current \in Int /\ current >= 1
  BY <1>1, <1>2, <1>3, RequestIs
<1>5. n \in Nat \ {0} /\ n <= 4
  BY <1>4
<1>6. QED
  BY <1>1, <1>2, <1>3, <1>4, <1>5

\* A distribution that is scaled.
LEMMA AbsoluteIs ==
    ASSUME NEW r \in Requests, \A k \in DOMAIN r : r[k].category \in Categories,
           NEW total \in Nat \ {0}, NEW counts \in Absolute(r, total)
    PROVE  Fair(counts, Len(r), total, FALSE)
<1>1. PICK n \in Nat \ {0}, s \in Seq(Int), current \in Int :
         /\ n = Len(r) /\ s = Shares(r) /\ current = Total(s) /\ current >= 1
         /\ n <= 4 /\ Len(s) = n /\ DOMAIN s = 1..n
         /\ \A k \in 1..n : s[k] \in Int /\ s[k] >= 1
  BY RequestPicked
<1>2. CASE current = total
  <2>1. counts = s
    BY <1>1, <1>2 DEF Absolute
  <2>2. \A k \in 1..n : s[k] >= 0
    <3>1. SUFFICES ASSUME NEW k \in 1..n PROVE s[k] >= 0
      OBVIOUS
    <3>2. s[k] \in Int /\ s[k] >= 1
      BY <1>1
    <3>3. QED
      BY <3>2
  <2>3. 1 \in 1..n /\ \A k \in 2..n : k \in 1..n
    OBVIOUS
  <2>4. QED
    BY <1>1, <1>2, <2>1, <2>2, <2>3 DEF Fair
<1>3. CASE current # total
  <2>0. PICK b \in Scaled(s, total) :
           counts = [b EXCEPT ![LargestCategory(b)] = b[LargestCategory(b)] + total - Total(b)]
    BY <1>1, <1>3 DEF Absolute
  <2>1. PICK l : /\ l = LargestCategory(b)
                 /\ counts = [b EXCEPT ![l] = b[l] + total - Total(b)]
    BY <2>0
  <2>2. /\ b \in Seq(Int) /\ Len(b) = n /\ DOMAIN b = 1..n
        /\ \A k \in 1..n : b[k] \in Int /\ b[k] >= 1
        /\ Within(b, s, current, total)
    BY SMTT(30), <1>1, ScaledIs
  <2>3. /\ l \in 1..n /\ \A j \in 1..n : b[j] <= b[l]
        /\ (\A j \in 1..n : b[j] <= b[1]) => l = 1
    BY <2>1, <2>2, LargestIs
  <2>4. PICK x \in Int, t \in Int : x = b[l] /\ t = Total(b) /\ x >= 1
    BY <2>2, <2>3, TotalIsNumber
  <2>5. PICK m \in Int : m = x + total - t
    BY <2>4
  <2>6. counts \in Seq(Int) /\ Len(counts) = n /\ Total(counts) = total
    <3>1. counts = [b EXCEPT ![l] = m]
      BY <2>1, <2>4, <2>5
    <3>2. /\ counts \in Seq(Int) /\ Len(counts) = Len(b)
          /\ Total(counts) = Total(b) + (m - b[l])
      BY <2>2, <2>3, <3>1, TotalChanges
    <3>3. t + ((x + total - t) - x) = total
      OBVIOUS
    <3>4. QED
      BY <2>2, <2>4, <2>5, <3>2, <3>3
  <2>7. counts[l] = m /\ \A k \in 1..n : k # l => counts[k] = b[k]
    BY <2>1, <2>2, <2>3, <2>4, <2>5
  <2>8. CASE x >= 2
    <3>1. m >= 0
      <4>1. b[l] + total - Total(b) >= 0
        BY <1>1, <2>2, <2>3, <2>4, <2>8, LargestBears
      <4>2. QED
        BY <2>4, <2>5, <4>1
    <3>2. \A k \in 1..n : counts[k] >= 0
      <4>1. SUFFICES ASSUME NEW k \in 1..n PROVE counts[k] >= 0
        OBVIOUS
      <4>2. b[k] \in Int /\ b[k] >= 1
        BY <2>2
      <4>3. QED
        BY <2>7, <3>1, <4>2
    <3>3. 1 \in 1..n /\ \A k \in 2..n : k \in 1..n
      OBVIOUS
    <3>4. QED
      BY <1>1, <2>6, <3>2, <3>3 DEF Fair
  <2>9. CASE ~(x >= 2)
    <3>1. ASSUME NEW k \in 1..n PROVE b[k] = 1
      <4>1. b[k] \in Int /\ b[k] >= 1 /\ b[k] <= x
        BY <2>2, <2>3, <2>4
      <4>2. QED
        BY <2>9, <4>1
    <3>2. 1 \in 1..n
      OBVIOUS
    <3>3. l = 1
      BY <2>3, <3>1, <3>2
    <3>4. \A k \in 2..n : counts[k] >= 0
      <4>1. \A k \in 2..n : k \in 1..n /\ k # 1
        OBVIOUS
      <4>2. QED
        BY <2>7, <3>1, <3>3, <4>1
    <3>5. t = n
      <4>1. 1..n \subseteq 1..n /\ \A k \in 1..n : b[k] = IF k \in 1..n THEN 1 ELSE 0
        BY <3>1
      <4>2. Total(b) = Cardinality(1..n)
        BY <2>2, <4>1, TotalOfPlaces
      <4>3. Cardinality(1..n) = n
        BY FS_Interval
      <4>4. QED
        BY <2>4, <4>2, <4>3
    <3>6. n <= total => counts[1] >= 0
      BY <2>4, <2>5, <2>7, <2>9, <3>3, <3>5
    <3>7. QED
      BY <1>1, <2>6, <3>4, <3>6 DEF Fair
  <2>10. QED
    BY <2>8, <2>9
<1>4. QED
  BY <1>2, <1>3

\* A distribution by weights.
LEMMA WeightedIs ==
    ASSUME NEW r \in Requests, \A k \in DOMAIN r : r[k].category \in Categories,
           NEW total \in Nat \ {0}, NEW counts \in Weighted(r, total)
    PROVE  Fair(counts, Len(r), total, TRUE)
<1>1. PICK n \in Nat \ {0}, s \in Seq(Int), current \in Int :
         /\ n = Len(r) /\ s = Shares(r) /\ current = Total(s) /\ current >= 1
         /\ n <= 4 /\ Len(s) = n /\ DOMAIN s = 1..n
         /\ \A k \in 1..n : s[k] \in Int /\ s[k] >= 1
  BY RequestPicked
<1>2. PICK floor : /\ floor = Floors(s, total)
                   /\ floor = [k \in DOMAIN s |-> (s[k] * total) \div current]
  BY <1>1 DEF Floors
<1>3. PICK up \in SUBSET DOMAIN s :
         /\ Cardinality(up) = total - Total(floor)
         /\ counts = [k \in DOMAIN s |-> IF k \in up THEN floor[k] + 1 ELSE floor[k]]
  <2>1. PICK fraction : fraction = Fractions(s, total)
    OBVIOUS
  <2>2. Weighted(r, total) =
           {[k \in DOMAIN s |-> IF k \in up THEN floor[k] + 1 ELSE floor[k]] :
              up \in {u \in SUBSET DOMAIN s :
                 /\ Cardinality(u) = total - Total(floor)
                 /\ \A k \in u, j \in DOMAIN s \ u : fraction[k] >= fraction[j]}}
    BY ONLY <1>1, <1>2, <2>1 DEF Weighted
  <2>3. PICK up \in {u \in SUBSET DOMAIN s :
                 /\ Cardinality(u) = total - Total(floor)
                 /\ \A k \in u, j \in DOMAIN s \ u : fraction[k] >= fraction[j]} :
           counts = [k \in DOMAIN s |-> IF k \in up THEN floor[k] + 1 ELSE floor[k]]
    BY <2>2
  <2>4. QED
    BY <2>3
<1>4. ASSUME NEW k \in 1..n PROVE floor[k] \in Int /\ floor[k] >= 0
  <2>1. PICK x \in Int : x = s[k] /\ x >= 1
    BY <1>1
  <2>2. PICK y \in Int : y = x * total /\ y >= 0
    BY <2>1
  <2>3. floor[k] = y \div current
    BY <1>1, <1>2, <2>1, <2>2
  <2>4. QED
    BY <1>1, <2>2, <2>3, QuotientIs
<1>5. floor \in Seq(Int) /\ Len(floor) = n
  <2>1. PICK w : w = [k \in 1..n |-> floor[k]]
    OBVIOUS
  <2>2. w \in Seq(Int) /\ Len(w) = n
    BY <1>4, <2>1
  <2>3. floor = w
    BY <1>1, <1>2, <2>1
  <2>4. QED
    BY <2>2, <2>3
<1>6. PICK o : o = [k \in 1..n |-> IF k \in up THEN 1 ELSE 0]
  OBVIOUS
<1>7. o \in Seq(Int) /\ Len(o) = n /\ \A k \in 1..n : o[k] = IF k \in up THEN 1 ELSE 0
  BY <1>6
<1>8. Total(o) = Cardinality(up)
  BY <1>1, <1>3, <1>7, TotalOfPlaces
<1>9. ASSUME NEW k \in 1..n
      PROVE  counts[k] = floor[k] + o[k] /\ counts[k] \in Int /\ counts[k] >= 0
  <2>1. PICK y \in Int : y = floor[k] /\ y >= 0
    BY <1>4
  <2>2. counts[k] = (IF k \in up THEN y + 1 ELSE y) /\ o[k] = IF k \in up THEN 1 ELSE 0
    BY <1>1, <1>3, <1>7, <2>1
  <2>3. QED
    BY <2>1, <2>2
<1>10. counts \in Seq(Int) /\ Len(counts) = n
  <2>1. PICK w : w = [k \in 1..n |-> counts[k]]
    OBVIOUS
  <2>2. w \in Seq(Int) /\ Len(w) = n
    BY <1>9, <2>1
  <2>3. counts = w
    BY <1>1, <1>3, <2>1
  <2>4. QED
    BY <2>2, <2>3
<1>11. Total(counts) = Total(floor) + Total(o)
  <2>1. /\ Len(o) = Len(floor) /\ Len(counts) = Len(floor)
        /\ \A k \in 1..Len(floor) : counts[k] = floor[k] + o[k]
    BY <1>5, <1>7, <1>9, <1>10
  <2>2. QED
    BY <1>5, <1>7, <1>10, <2>1, TotalAdds
<1>12. Total(counts) = total
  <2>1. PICK t \in Int : t = Total(floor)
    BY <1>5, TotalIsNumber
  <2>2. t + (total - t) = total
    OBVIOUS
  <2>3. QED
    BY <1>3, <1>8, <1>11, <2>1, <2>2
<1>13. 1 \in 1..n /\ \A k \in 2..n : k \in 1..n
  OBVIOUS
<1>14. QED
  BY <1>1, <1>9, <1>10, <1>12, <1>13 DEF Fair

-----------------------------------------------------------------------------
(* The invariant of a generator *)

\* A generator's suite, whatever it is doing.
SuiteRecords ==
    [at : {"rest", "distribute", "category", "tests", "write", "returned", "raised"},
     total : Nat \ {0}, request : Requests \cup {<<>>}, weighted : BOOLEAN,
     counts : Seq(Int), generated : Seq(Nat), todo : Seq(Int), testId : Int, written : Nat]

TestRecords == [category : Categories \cup {"none"}, id : Int]

\* The tests of this suite that are still to be written.
Queued(queue, written) == {queue[i] : i \in (written + 1)..Len(queue)} \ {Stale}

InCategory(tests, category) == {t \in tests : t.category = category}

SuiteShape ==
    /\ suite \in SuiteRecords /\ toWrite \in Seq(TestRecords)
    /\ stored \subseteq TestRecords /\ IsFiniteSet(stored) /\ lost \in BOOLEAN
    /\ suite.written <= Len(toWrite)
    /\ suite.at # "write" => suite.written = 0

\* The counts are a fair distribution over known categories, and are what the
\* categories that are done are said to have.
Planned(s) ==
    /\ s.request \in Requests
    /\ \A k \in DOMAIN s.request : s.request[k].category \in Categories
    /\ Fair(s.counts, Len(s.request), s.total, s.weighted)
    /\ Len(s.generated) <= Len(s.request)
    /\ \A k \in 1..Len(s.generated) :
          s.generated[k] = IF s.counts[k] > 0 THEN s.counts[k] ELSE 0

\* Tests have numbers of their own, below the next one.
Numbered(tests, next) ==
    /\ \A t \in tests : t.id < next
    /\ \A t, u \in tests : t.id = u.id => t = u

\* Tests are of the first categories.
OfFirst(tests, request, n) ==
    \A t \in tests : \E j \in 1..n : t.category = request[j].category

\* The categories that are done have the tests they are said to have.
DoneWhole(tests, s) ==
    \A j \in 1..Len(s.generated) :
        Cardinality(InCategory(tests, s.request[j].category)) = s.generated[j]

AtDistribute ==
    /\ suite.request \in Requests /\ suite.generated = <<>>
    /\ stored = {} /\ Queued(toWrite, suite.written) = {}

\* Between categories nothing waits to be written, and what an earlier suite left is
\* in the queue only while there has been no test to make.
BetweenCategories ==
    /\ Planned(suite)
    /\ Queued(toWrite, suite.written) = {}
    /\ Numbered(stored, suite.testId)
    /\ OfFirst(stored, suite.request, Len(suite.generated))
    /\ ~lost => DoneWhole(stored, suite)
    /\ toWrite # <<>> => \A k \in 1..Len(suite.generated) : suite.counts[k] <= 0

\* In a category, what has been made and what is left are its count.
InsideCategory ==
    /\ Planned(suite)
    /\ Len(suite.generated) < Len(suite.request) /\ Count > 0
    /\ \A k \in 1..Len(suite.todo) : suite.todo[k] >= 0
    /\ \A t \in Queued(toWrite, suite.written) : t.category = Category
    /\ LET tests == stored \cup Queued(toWrite, suite.written)
       IN  /\ Numbered(tests, suite.testId)
           /\ OfFirst(tests, suite.request, Len(suite.generated) + 1)
           /\ ~lost => /\ DoneWhole(stored, suite)
                       /\ Cardinality(InCategory(tests, Category)) = Count - Total(suite.todo)

GenerationInv ==
    /\ SuiteShape
    /\ suite.at = "distribute" => AtDistribute
    /\ suite.at \in {"category", "returned"} => BetweenCategories
    /\ suite.at = "returned" => Len(suite.generated) = Len(suite.request)
    /\ suite.at \in {"tests", "write"} => InsideCategory

\* The queue gets a test at its end.
LEMMA QueuedAppends ==
    ASSUME NEW q \in Seq(TestRecords), NEW w \in Nat, w <= Len(q), NEW e \in TestRecords
    PROVE  /\ Append(q, e) \in Seq(TestRecords) /\ Len(Append(q, e)) = Len(q) + 1
           /\ e # Stale => Queued(Append(q, e), w) = Queued(q, w) \cup {e}
<1>1. PICK n \in Nat : n = Len(q)
  OBVIOUS
<1>2. PICK p : p = Append(q, e)
  OBVIOUS
<1>3. p \in Seq(TestRecords) /\ Len(p) = n + 1 /\ p[n + 1] = e /\ \A i \in 1..n : p[i] = q[i]
  BY <1>1, <1>2
<1>4. {p[i] : i \in (w + 1)..(n + 1)} = {q[i] : i \in (w + 1)..n} \cup {e}
  <2>1. n + 1 \in (w + 1)..(n + 1)
    BY <1>1
  <2>2. \A i \in (w + 1)..n : i \in 1..n /\ i \in (w + 1)..(n + 1)
    BY <1>1
  <2>3. \A i \in (w + 1)..(n + 1) : i = n + 1 \/ i \in (w + 1)..n
    BY <1>1
  <2>4. QED
    BY <1>3, <2>1, <2>2, <2>3
<1>5. QED
  BY <1>1, <1>2, <1>3, <1>4 DEF Queued

\* The next test of the queue.
LEMMA QueuedAdvances ==
    ASSUME NEW q \in Seq(TestRecords), NEW w \in Nat, w < Len(q)
    PROVE  /\ q[w + 1] \in TestRecords
           /\ q[w + 1] = Stale => Queued(q, w + 1) = Queued(q, w)
           /\ q[w + 1] # Stale => Queued(q, w) = Queued(q, w + 1) \cup {q[w + 1]}
<1>1. PICK n \in Nat : n = Len(q)
  OBVIOUS
<1>2. PICK v \in Nat : v = w + 1
  OBVIOUS
<1>3. v \in 1..n
  BY <1>1, <1>2
<1>4. {q[i] : i \in v..n} = {q[i] : i \in (v + 1)..n} \cup {q[v]}
  <2>1. v \in v..n /\ \A i \in (v + 1)..n : i \in v..n
    BY <1>3
  <2>2. \A i \in v..n : i = v \/ i \in (v + 1)..n
    BY <1>3
  <2>3. QED
    BY <2>1, <2>2
<1>5. QED
  BY <1>1, <1>2, <1>3, <1>4 DEF Queued

\* Behind the end of the queue nothing waits.
LEMMA QueuedNone ==
    ASSUME NEW q, NEW w \in Nat, Len(q) \in Nat, w >= Len(q)
    PROVE  Queued(q, w) = {}
<1>1. (w + 1)..Len(q) = {}
  OBVIOUS
<1>2. QED
  BY <1>1 DEF Queued

\* What an earlier suite has left in the queue is not of this one.
LEMMA QueuedStale ==
    ASSUME NEW q \in Seq(TestRecords), NEW p, p = [k \in DOMAIN q |-> Stale]
    PROVE  p \in Seq(TestRecords) /\ Queued(p, 0) = {}
<1>1. Stale \in TestRecords
  BY DEF Stale, TestRecords
<1>2. PICK n \in Nat : n = Len(q) /\ DOMAIN q = 1..n
  OBVIOUS
<1>3. p \in Seq(TestRecords) /\ Len(p) = n /\ \A i \in 1..n : p[i] = Stale
  BY <1>1, <1>2
<1>4. 0 + 1 = 1
  OBVIOUS
<1>5. QED
  BY <1>3, <1>4 DEF Queued

\* The queued tests are finitely many.
LEMMA QueuedFinite ==
    ASSUME NEW q \in Seq(TestRecords), NEW w \in Nat
    PROVE  IsFiniteSet(Queued(q, w)) /\ Queued(q, w) \subseteq TestRecords
<1>1. PICK n \in Nat : n = Len(q) /\ \A i \in 1..n : q[i] \in TestRecords
  OBVIOUS
<1>2. PICK I : I = (w + 1)..n
  OBVIOUS
<1>3. I \subseteq 1..n /\ IsFiniteSet(1..n)
  BY <1>2, FS_Interval
<1>4. IsFiniteSet(I)
  BY <1>3, FS_Subset
<1>5. IsFiniteSet({q[i] : i \in I})
  <2>1. PICK f : f = [i \in I |-> q[i]]
    OBVIOUS
  <2>2. f \in Surjection(I, {q[i] : i \in I})
    BY <2>1 DEF Surjection
  <2>3. QED
    BY <1>4, <2>2, FS_Surjection
<1>6. Queued(q, w) \subseteq {q[i] : i \in I}
  BY <1>1, <1>2 DEF Queued
<1>7. QED
  BY <1>1, <1>3, <1>5, <1>6, FS_Subset

\* Two categories of a request are different, and a test is of one of them.
LEMMA CategoriesDiffer ==
    ASSUME NEW r \in Requests, NEW j \in 1..Len(r), NEW k \in 1..Len(r), j # k
    PROVE  r[j].category # r[k].category
BY GenerationAssumption

\* The category that is next: its count is negative only if it is the first one.
LEMMA ThisCategory ==
    ASSUME NEW s, Planned(s), NEW n, n = Len(s.generated), Len(s.generated) \in Nat,
           Len(s.generated) < Len(s.request)
    PROVE  /\ n + 1 \in 1..Len(s.request)
           /\ s.request[n + 1].category \in Categories
           /\ s.counts[n + 1] \in Int /\ (n > 0 => s.counts[n + 1] >= 0)
           /\ \A j \in 1..n : s.request[j].category # s.request[n + 1].category
<1>1. Len(s.request) \in Nat \ {0} /\ DOMAIN s.request = 1..Len(s.request)
  BY GenerationAssumption DEF Planned
<1>2. n + 1 \in 1..Len(s.request) /\ \A j \in 1..n : j \in 1..Len(s.request) /\ j # n + 1
  BY <1>1
<1>3. s.counts[n + 1] \in Int
  BY <1>2 DEF Planned, Fair
<1>4. n > 0 => s.counts[n + 1] >= 0
  <2>1. n > 0 => n + 1 \in 2..Len(s.request)
    BY <1>2
  <2>2. QED
    BY <2>1 DEF Planned, Fair
<1>5. \A j \in 1..n : s.request[j].category # s.request[n + 1].category
  BY <1>2, CategoriesDiffer DEF Planned
<1>6. QED
  BY <1>1, <1>2, <1>3, <1>4, <1>5 DEF Planned

-----------------------------------------------------------------------------
(* Every step keeps it *)

\* At first there is no suite.
LEMMA GenerationBegins ==
    ASSUME GenerationInit PROVE GenerationInv
<1>1. suite \in SuiteRecords /\ suite.at = "rest" /\ suite.written = 0
  BY DEF GenerationInit, NoSuite, SuiteRecords
<1>2. toWrite \in Seq(TestRecords) /\ Len(toWrite) = 0
  BY DEF GenerationInit
<1>3. stored \subseteq TestRecords /\ IsFiniteSet(stored) /\ lost \in BOOLEAN
  BY FS_EmptySet DEF GenerationInit
<1>4. QED
  BY <1>1, <1>2, <1>3 DEF GenerationInv, SuiteShape

\* A suite is begun: what the queue holds is of an earlier one.
LEMMA StartSuiteKeeps ==
    ASSUME GenerationInv, NEW r \in Requests, NEW total \in Totals, NEW w \in BOOLEAN,
           StartSuite(r, total, w)
    PROVE  GenerationInv'
<1>1. total \in Nat \ {0}
  BY GenerationAssumption
<1>2. suite' = [at |-> "distribute", total |-> total, request |-> r, weighted |-> w,
                counts |-> <<>>, generated |-> <<>>, todo |-> <<>>, testId |-> 1,
                written |-> 0]
  BY DEF StartSuite, NoSuite
<1>3. /\ suite' \in SuiteRecords /\ suite'.at = "distribute" /\ suite'.request = r
      /\ suite'.generated = <<>> /\ suite'.written = 0
  BY <1>1, <1>2 DEF SuiteRecords
<1>4. toWrite' \in Seq(TestRecords) /\ Queued(toWrite', 0) = {}
  <2>1. toWrite \in Seq(TestRecords) /\ toWrite' = [k \in DOMAIN toWrite |-> Stale]
    BY DEF GenerationInv, SuiteShape, StartSuite
  <2>2. QED
    BY <2>1, QueuedStale
<1>5. stored' = {} /\ lost' = FALSE /\ IsFiniteSet(stored')
  BY FS_EmptySet DEF StartSuite
<1>6. suite'.written <= Len(toWrite')
  <2>1. Len(toWrite') \in Nat
    BY <1>4
  <2>2. QED
    BY <1>3, <2>1
<1>7. SuiteShape'
  <2>1. stored' \subseteq TestRecords /\ lost' \in BOOLEAN
    BY <1>5
  <2>2. QED
    BY ONLY <1>3, <1>4, <1>5, <1>6, <2>1 DEF SuiteShape
<1>8. AtDistribute'
  BY <1>3, <1>4, <1>5 DEF AtDistribute
<1>9. QED
  BY <1>3, <1>7, <1>8 DEF GenerationInv

\* A suite that raises leaves its queue behind.
LEMMA SuiteRaisesKeeps ==
    ASSUME GenerationInv, SuiteRaises
    PROVE  GenerationInv'
<1>1. /\ suite \in SuiteRecords /\ suite.written = 0
      /\ suite' = [suite EXCEPT !.at = "raised"]
  BY DEF GenerationInv, SuiteShape, SuiteRaises
<1>2. suite' \in SuiteRecords /\ suite'.at = "raised" /\ suite'.written = 0
  BY <1>1 DEF SuiteRecords
<1>3. SuiteShape'
  BY <1>2 DEF GenerationInv, SuiteShape, SuiteRaises
<1>4. QED
  BY <1>2, <1>3 DEF GenerationInv

\* The total is distributed over the categories.
LEMMA DistributeKeeps ==
    ASSUME GenerationInv, Distribute
    PROVE  GenerationInv'
<1>1. /\ SuiteShape /\ AtDistribute /\ suite.at = "distribute"
      /\ UNCHANGED <<toWrite, stored, lost>>
  BY DEF GenerationInv, Distribute, Making
<1>2. \A k \in DOMAIN suite.request : suite.request[k].category \in Categories
  BY DEF Distribute
<1>3. PICK counts : /\ suite.weighted => counts \in Weighted(suite.request, suite.total)
                    /\ ~suite.weighted => counts \in Absolute(suite.request, suite.total)
                    /\ suite' = [suite EXCEPT !.at = "category", !.counts = counts]
  BY DEF Distribute
<1>4. /\ suite \in SuiteRecords /\ suite.total \in Nat \ {0} /\ suite.weighted \in BOOLEAN
      /\ suite.request \in Requests /\ suite.generated = <<>> /\ suite.written = 0
  BY <1>1 DEF SuiteShape, SuiteRecords, AtDistribute
<1>5. Fair(counts, Len(suite.request), suite.total, suite.weighted)
  <2>1. CASE suite.weighted
    <3>1. Fair(counts, Len(suite.request), suite.total, TRUE)
      BY <1>2, <1>3, <1>4, <2>1, WeightedIs
    <3>2. QED
      BY <3>1, <2>1 DEF Fair
  <2>2. CASE ~suite.weighted
    <3>1. Fair(counts, Len(suite.request), suite.total, FALSE)
      BY <1>2, <1>3, <1>4, <2>2, AbsoluteIs
    <3>2. QED
      BY <3>1, <2>2 DEF Fair
  <2>3. QED
    BY <1>4, <2>1, <2>2
<1>6. counts \in Seq(Int)
  BY <1>5 DEF Fair
<1>7. /\ suite' \in SuiteRecords /\ suite'.at = "category" /\ suite'.written = 0
      /\ suite'.request = suite.request /\ suite'.total = suite.total
      /\ suite'.weighted = suite.weighted /\ suite'.generated = <<>> /\ suite'.counts = counts
      /\ suite'.testId = suite.testId
  BY <1>3, <1>4, <1>6 DEF SuiteRecords
<1>8. SuiteShape'
  BY <1>1, <1>7 DEF SuiteShape
<1>9. 1..Len(suite'.generated) = {} /\ Len(suite'.generated) = 0
  BY <1>7
<1>10. Len(suite.request) \in Nat
  BY <1>4, GenerationAssumption
<1>11. Planned(suite')
  BY <1>2, <1>4, <1>5, <1>7, <1>9, <1>10 DEF Planned
<1>12. stored' = {} /\ Queued(toWrite', suite'.written) = {}
  BY <1>1, <1>4, <1>7 DEF AtDistribute
<1>13. BetweenCategories'
  BY <1>9, <1>11, <1>12 DEF BetweenCategories, Numbered, OfFirst, DoneWhole
<1>14. QED
  BY <1>7, <1>8, <1>13 DEF GenerationInv

\* The suite returns after its last category.
LEMMA ReturnCountsKeeps ==
    ASSUME GenerationInv, ReturnCounts
    PROVE  GenerationInv'
<1>1. /\ SuiteShape /\ BetweenCategories /\ suite.at = "category"
      /\ UNCHANGED <<toWrite, stored, lost>>
      /\ suite' = [suite EXCEPT !.at = "returned"]
      /\ ~(Len(suite.generated) < Len(suite.request))
  BY DEF GenerationInv, ReturnCounts, Making, CategoriesLeft
<1>2. suite \in SuiteRecords /\ suite.written = 0
  BY <1>1 DEF SuiteShape
<1>3. /\ suite' \in SuiteRecords /\ suite'.at = "returned" /\ suite'.written = suite.written
      /\ suite'.request = suite.request /\ suite'.total = suite.total
      /\ suite'.weighted = suite.weighted /\ suite'.generated = suite.generated
      /\ suite'.counts = suite.counts /\ suite'.testId = suite.testId
  BY <1>1, <1>2 DEF SuiteRecords
<1>4. SuiteShape'
  BY <1>1, <1>2, <1>3 DEF SuiteShape
<1>5. Planned(suite')
  BY <1>1, <1>3 DEF BetweenCategories, Planned
<1>6. DoneWhole(stored, suite) => DoneWhole(stored', suite')
  BY <1>1, <1>3 DEF DoneWhole
<1>7. BetweenCategories'
  BY <1>1, <1>3, <1>5, <1>6 DEF BetweenCategories
<1>8. Len(suite.generated) \in Nat /\ Len(suite.request) \in Nat
  BY <1>1, <1>2, GenerationAssumption DEF BetweenCategories, Planned, SuiteRecords
<1>9. Len(suite'.generated) = Len(suite'.request)
  BY <1>1, <1>3, <1>8 DEF BetweenCategories, Planned
<1>10. QED
  BY <1>3, <1>4, <1>7, <1>9 DEF GenerationInv

\* A category is begun: its count is spread over its scenario types.
LEMMA EnterCategoryKeeps ==
    ASSUME GenerationInv, EnterCategory
    PROVE  GenerationInv'
<1>1. /\ SuiteShape /\ BetweenCategories /\ suite.at = "category"
      /\ UNCHANGED <<toWrite, stored, lost>>
      /\ Len(suite.generated) < Len(suite.request) /\ Count > 0
      /\ suite' = [suite EXCEPT !.at = "tests", !.todo = Spread(Count, ScenarioTypes[Category])]
  BY DEF GenerationInv, EnterCategory, Making, CategoriesLeft
<1>2. /\ suite \in SuiteRecords /\ suite.written = 0 /\ Planned(suite)
      /\ Queued(toWrite, suite.written) = {} /\ IsFiniteSet(stored)
  BY <1>1 DEF SuiteShape, BetweenCategories
<1>3. PICK n \in Nat : n = Len(suite.generated)
  BY <1>2 DEF SuiteRecords
<1>4. /\ n + 1 \in 1..Len(suite.request) /\ Category \in Categories
      /\ Count \in Int /\ Category = suite.request[n + 1].category
      /\ \A j \in 1..n : suite.request[j].category # Category
  <2>1. Category = suite.request[n + 1].category /\ Count = suite.counts[n + 1]
    BY <1>3 DEF Category, Count
  <2>2. QED
    BY <1>1, <1>2, <1>3, <2>1, ThisCategory
<1>5. PICK m \in Nat, types \in Nat \ {0} : m = Count /\ types = ScenarioTypes[Category]
  BY <1>1, <1>4, GenerationAssumption
<1>6. PICK tasks : tasks = Spread(m, types)
  OBVIOUS
<1>7. tasks \in Seq(Int) /\ Len(tasks) = types /\ Total(tasks) = m /\ \A k \in 1..types : tasks[k] >= 0
  BY <1>6, SpreadTotal
<1>8. /\ suite' \in SuiteRecords /\ suite'.at = "tests" /\ suite'.written = suite.written
      /\ suite'.request = suite.request /\ suite'.total = suite.total
      /\ suite'.weighted = suite.weighted /\ suite'.generated = suite.generated
      /\ suite'.counts = suite.counts /\ suite'.testId = suite.testId /\ suite'.todo = tasks
  BY <1>1, <1>2, <1>5, <1>6, <1>7 DEF SuiteRecords
<1>9. SuiteShape'
  BY <1>1, <1>2, <1>8 DEF SuiteShape
<1>10. Planned(suite')
  BY <1>2, <1>8 DEF Planned
<1>11. Count' = Count /\ Category' = Category
  BY <1>8 DEF Count, Category
<1>12. Queued(toWrite', suite'.written) = {}
  BY <1>1, <1>2, <1>8
<1>13. Numbered(stored', suite'.testId) /\ OfFirst(stored', suite'.request, n + 1)
  <2>1. \A j \in 1..n : j \in 1..(n + 1)
    OBVIOUS
  <2>2. OfFirst(stored, suite.request, n)
    BY <1>1, <1>3 DEF BetweenCategories
  <2>3. OfFirst(stored, suite.request, n + 1)
    BY <2>1, <2>2 DEF OfFirst
  <2>4. QED
    BY <1>1, <1>8, <2>3 DEF BetweenCategories
<1>14. InCategory(stored, Category) = {}
  <2>1. OfFirst(stored, suite.request, n)
    BY <1>1, <1>3 DEF BetweenCategories
  <2>2. QED
    BY <1>4, <2>1 DEF OfFirst, InCategory
<1>15. ~lost' => /\ DoneWhole(stored', suite')
                 /\ Cardinality(InCategory(stored', Category')) = Count' - Total(suite'.todo)
  <2>1. Cardinality(InCategory(stored', Category')) = 0
    BY <1>1, <1>11, <1>14, FS_EmptySet
  <2>2. Count' - Total(suite'.todo) = 0
    BY <1>5, <1>7, <1>8, <1>11
  <2>3. ~lost' => DoneWhole(stored', suite')
    BY <1>1, <1>8 DEF BetweenCategories, DoneWhole
  <2>4. QED
    BY <2>1, <2>2, <2>3
<1>16. stored' \cup Queued(toWrite', suite'.written) = stored'
  BY <1>12
<1>17. InsideCategory'
  <2>1. Len(suite'.generated) = n /\ Count' > 0 /\ n < Len(suite'.request)
    BY <1>1, <1>3, <1>8, <1>11
  <2>2. \A k \in 1..Len(suite'.todo) : suite'.todo[k] >= 0
    BY <1>7, <1>8
  <2>3. QED
    BY <1>10, <1>12, <1>13, <1>15, <1>16, <2>1, <2>2 DEF InsideCategory
<1>18. QED
  BY <1>8, <1>9, <1>17 DEF GenerationInv

\* A category of no tests: only before the first test the numbers go back.
LEMMA SkipCategoryKeeps ==
    ASSUME GenerationInv, SkipCategory
    PROVE  GenerationInv'
<1>1. /\ SuiteShape /\ BetweenCategories /\ suite.at = "category"
      /\ UNCHANGED <<toWrite, stored, lost>>
      /\ Len(suite.generated) < Len(suite.request) /\ Count <= 0
      /\ suite' = [suite EXCEPT !.generated = Append(suite.generated, 0),
                                !.testId = suite.testId + Count]
  BY DEF GenerationInv, SkipCategory, Making, CategoriesLeft
<1>2. /\ suite \in SuiteRecords /\ suite.written = 0 /\ Planned(suite)
      /\ Queued(toWrite, suite.written) = {}
  BY <1>1 DEF SuiteShape, BetweenCategories
<1>3. PICK n \in Nat, g \in Seq(Nat), id \in Int :
         g = suite.generated /\ n = Len(g) /\ id = suite.testId
  BY <1>2 DEF SuiteRecords
<1>4. /\ n + 1 \in 1..Len(suite.request)
      /\ Count \in Int /\ Count = suite.counts[n + 1] /\ (n > 0 => Count >= 0)
      /\ \A j \in 1..n : suite.request[j].category # suite.request[n + 1].category
  <2>1. Count = suite.counts[n + 1]
    BY <1>3 DEF Count
  <2>2. QED
    BY <1>1, <1>2, <1>3, <2>1, ThisCategory
<1>5. PICK h \in Seq(Nat), c \in Int : h = Append(g, 0) /\ c = Count
  <2>1. Append(g, 0) \in Seq(Nat)
    OBVIOUS
  <2>2. QED
    BY <1>4, <2>1
<1>6. Len(h) = n + 1 /\ h[n + 1] = 0 /\ \A k \in 1..n : h[k] = g[k]
  BY <1>3, <1>5
<1>7. /\ suite' \in SuiteRecords /\ suite'.at = "category" /\ suite'.written = suite.written
      /\ suite'.request = suite.request /\ suite'.total = suite.total
      /\ suite'.weighted = suite.weighted /\ suite'.generated = h
      /\ suite'.counts = suite.counts /\ suite'.testId = id + c
  <2>1. PICK i \in Int : i = id + c
    OBVIOUS
  <2>2. suite' = [suite EXCEPT !.generated = h, !.testId = i]
    BY <1>1, <1>3, <1>5, <2>1
  <2>3. QED
    BY <1>1, <1>2, <2>1, <2>2 DEF SuiteRecords
<1>8. SuiteShape'
  BY <1>1, <1>2, <1>7 DEF SuiteShape
<1>9. \A k \in 1..(n + 1) : k \in 1..n \/ k = n + 1
  OBVIOUS
<1>10. Planned(suite')
  <2>1. \A k \in 1..n : g[k] = IF suite.counts[k] > 0 THEN suite.counts[k] ELSE 0
    BY <1>2, <1>3 DEF Planned
  <2>2. \A k \in 1..(n + 1) : h[k] = IF suite.counts[k] > 0 THEN suite.counts[k] ELSE 0
    <3>1. ~(suite.counts[n + 1] > 0)
      BY <1>1, <1>4
    <3>2. QED
      BY <1>6, <1>9, <2>1, <3>1
  <2>3. n + 1 <= Len(suite.request)
    BY <1>4
  <2>4. QED
    BY <1>2, <1>6, <1>7, <2>2, <2>3 DEF Planned
<1>11. Queued(toWrite', suite'.written) = {}
  BY <1>1, <1>2, <1>7
<1>12. OfFirst(stored, suite.request, n)
  BY <1>1, <1>3 DEF BetweenCategories
<1>13. OfFirst(stored', suite'.request, Len(suite'.generated))
  <2>1. \A j \in 1..n : j \in 1..(n + 1)
    OBVIOUS
  <2>2. OfFirst(stored, suite.request, n + 1)
    BY <1>12, <2>1 DEF OfFirst
  <2>3. QED
    BY <1>1, <1>6, <1>7, <2>2
<1>14. Numbered(stored', suite'.testId)
  <2>1. CASE n = 0
    <3>1. stored = {}
      BY <1>12, <2>1 DEF OfFirst
    <3>2. QED
      BY <1>1, <3>1 DEF Numbered
  <2>2. CASE n # 0
    <3>1. c = 0
      BY <1>1, <1>4, <1>5, <2>2
    <3>2. suite'.testId = suite.testId
      BY <1>3, <1>7, <3>1
    <3>3. QED
      BY <1>1, <3>2 DEF BetweenCategories
  <2>3. QED
    BY <2>1, <2>2
<1>15. ~lost' => DoneWhole(stored', suite')
  <2>1. SUFFICES ASSUME ~lost' PROVE DoneWhole(stored', suite')
    OBVIOUS
  <2>2. \A j \in 1..n : Cardinality(InCategory(stored, suite.request[j].category)) = g[j]
    BY <1>1, <1>3, <2>1 DEF BetweenCategories, DoneWhole
  <2>3. InCategory(stored, suite.request[n + 1].category) = {}
    BY <1>4, <1>12 DEF OfFirst, InCategory
  <2>4. Cardinality(InCategory(stored, suite.request[n + 1].category)) = 0
    BY <2>3, FS_EmptySet
  <2>5. \A j \in 1..(n + 1) : Cardinality(InCategory(stored, suite.request[j].category)) = h[j]
    BY <1>6, <1>9, <2>2, <2>4
  <2>6. QED
    BY <1>1, <1>6, <1>7, <2>5 DEF DoneWhole
<1>16. toWrite' # <<>> => \A k \in 1..Len(suite'.generated) : suite'.counts[k] <= 0
  <2>1. SUFFICES ASSUME toWrite' # <<>> PROVE \A k \in 1..(n + 1) : suite.counts[k] <= 0
    BY <1>6, <1>7
  <2>2. \A k \in 1..n : suite.counts[k] <= 0
    BY <1>1, <1>3, <2>1 DEF BetweenCategories
  <2>3. QED
    BY <1>1, <1>4, <1>9, <2>2
<1>17. BetweenCategories'
  BY <1>10, <1>11, <1>13, <1>14, <1>15, <1>16 DEF BetweenCategories
<1>18. QED
  BY <1>7, <1>8, <1>17 DEF GenerationInv

\* The queue is emptied when all of it was written.
LEMMA ClearQueueKeeps ==
    ASSUME GenerationInv, ClearQueue
    PROVE  GenerationInv'
<1>1. /\ SuiteShape /\ InsideCategory /\ suite.at = "write" /\ toWrite' = <<>>
      /\ UNCHANGED <<stored, lost>> /\ suite.written = Len(toWrite)
      /\ suite' = [suite EXCEPT !.at = "tests", !.written = 0]
  BY DEF GenerationInv, ClearQueue, Making
<1>2. suite \in SuiteRecords /\ suite.written \in Nat /\ toWrite \in Seq(TestRecords)
  BY <1>1 DEF SuiteShape, SuiteRecords
<1>3. /\ suite' \in SuiteRecords /\ suite'.at = "tests" /\ suite'.written = 0
      /\ suite'.request = suite.request /\ suite'.total = suite.total
      /\ suite'.weighted = suite.weighted /\ suite'.generated = suite.generated
      /\ suite'.counts = suite.counts /\ suite'.testId = suite.testId
      /\ suite'.todo = suite.todo
  BY <1>1, <1>2 DEF SuiteRecords
<1>4. Len(toWrite') = 0 /\ toWrite' \in Seq(TestRecords)
  BY <1>1
<1>5. SuiteShape'
  BY <1>1, <1>3, <1>4 DEF SuiteShape
<1>6. Queued(toWrite, suite.written) = {} /\ Queued(toWrite', suite'.written) = {}
  <2>1. Len(toWrite) \in Nat /\ suite.written >= Len(toWrite)
    BY <1>1, <1>2
  <2>2. Queued(toWrite, suite.written) = {}
    BY <1>2, <2>1, QueuedNone
  <2>3. Queued(toWrite', 0) = {}
    BY <1>4, QueuedNone
  <2>4. QED
    BY <1>3, <2>2, <2>3
<1>7. Planned(suite')
  BY <1>1, <1>3 DEF InsideCategory, Planned
<1>8. Count' = Count /\ Category' = Category
  BY <1>3 DEF Count, Category
<1>9. DoneWhole(stored, suite) => DoneWhole(stored', suite')
  BY <1>1, <1>3 DEF DoneWhole
<1>10. stored' \cup Queued(toWrite', suite'.written) = stored \cup Queued(toWrite, suite.written)
  BY <1>1, <1>6
<1>11. InsideCategory'
  BY <1>1, <1>3, <1>6, <1>7, <1>8, <1>9, <1>10 DEF InsideCategory
<1>12. QED
  BY <1>3, <1>5, <1>11 DEF GenerationInv

\* A category ends when nothing waits in the queue, which is written before.
LEMMA EndTestsKeeps ==
    ASSUME GenerationInv, EndTests
    PROVE  GenerationInv'
<1>1. /\ SuiteShape /\ InsideCategory /\ suite.at = "tests" /\ Total(suite.todo) = 0
      /\ UNCHANGED <<toWrite, stored, lost>>
  BY DEF GenerationInv, EndTests, Making
<1>2. suite \in SuiteRecords /\ suite.written = 0 /\ toWrite \in Seq(TestRecords)
  BY <1>1 DEF SuiteShape
<1>3. CASE toWrite # <<>>
  <2>1. suite' = [suite EXCEPT !.at = "write"]
    BY <1>3 DEF EndTests
  <2>2. /\ suite' \in SuiteRecords /\ suite'.at = "write" /\ suite'.written = suite.written
        /\ suite'.request = suite.request /\ suite'.total = suite.total
        /\ suite'.weighted = suite.weighted /\ suite'.generated = suite.generated
        /\ suite'.counts = suite.counts /\ suite'.testId = suite.testId
        /\ suite'.todo = suite.todo
    BY <1>2, <2>1 DEF SuiteRecords
  <2>3. SuiteShape'
    BY <1>1, <2>2 DEF SuiteShape
  <2>4. Planned(suite')
    BY <1>1, <2>2 DEF InsideCategory, Planned
  <2>5. Count' = Count /\ Category' = Category
    BY <2>2 DEF Count, Category
  <2>6. DoneWhole(stored, suite) => DoneWhole(stored', suite')
    BY <1>1, <2>2 DEF DoneWhole
  <2>7. Queued(toWrite', suite'.written) = Queued(toWrite, suite.written)
    BY <1>1, <2>2
  <2>8. InsideCategory'
    BY <1>1, <2>2, <2>4, <2>5, <2>6, <2>7 DEF InsideCategory
  <2>9. QED
    BY <2>2, <2>3, <2>8 DEF GenerationInv
<1>4. CASE toWrite = <<>>
  <2>1. suite' = [suite EXCEPT !.at = "category", !.generated = Append(suite.generated, Count)]
    BY <1>4 DEF EndTests
  <2>2. PICK n \in Nat, g \in Seq(Nat) : g = suite.generated /\ n = Len(g)
    BY <1>2 DEF SuiteRecords
  <2>3. Planned(suite) /\ Len(suite.generated) < Len(suite.request) /\ Count > 0
    BY <1>1 DEF InsideCategory
  <2>4. /\ n + 1 \in 1..Len(suite.request) /\ Category = suite.request[n + 1].category
        /\ Count \in Int /\ Count = suite.counts[n + 1]
    <3>1. Category = suite.request[n + 1].category /\ Count = suite.counts[n + 1]
      BY <2>2 DEF Category, Count
    <3>2. QED
      BY <2>2, <2>3, <3>1, ThisCategory
  <2>5. PICK c \in Nat, h \in Seq(Nat) : c = Count /\ h = Append(g, c)
    <3>1. PICK c \in Nat : c = Count
      BY <2>3, <2>4
    <3>2. Append(g, c) \in Seq(Nat)
      OBVIOUS
    <3>3. QED
      BY <3>1, <3>2
  <2>6. Len(h) = n + 1 /\ h[n + 1] = c /\ \A k \in 1..n : h[k] = g[k]
    BY <2>2, <2>5
  <2>7. /\ suite' \in SuiteRecords /\ suite'.at = "category" /\ suite'.written = suite.written
        /\ suite'.request = suite.request /\ suite'.total = suite.total
        /\ suite'.weighted = suite.weighted /\ suite'.generated = h
        /\ suite'.counts = suite.counts /\ suite'.testId = suite.testId
    BY <1>2, <2>1, <2>2, <2>5 DEF SuiteRecords
  <2>8. SuiteShape'
    BY <1>1, <1>2, <2>7 DEF SuiteShape
  <2>9. \A k \in 1..(n + 1) : k \in 1..n \/ k = n + 1
    OBVIOUS
  <2>10. Planned(suite')
    <3>1. \A k \in 1..n : g[k] = IF suite.counts[k] > 0 THEN suite.counts[k] ELSE 0
      BY <2>2, <2>3 DEF Planned
    <3>2. \A k \in 1..(n + 1) : h[k] = IF suite.counts[k] > 0 THEN suite.counts[k] ELSE 0
      BY <2>3, <2>4, <2>5, <2>6, <2>9, <3>1
    <3>3. n + 1 <= Len(suite.request)
      BY <2>4
    <3>4. QED
      BY <2>3, <2>6, <2>7, <3>2, <3>3 DEF Planned
  <2>11. Queued(toWrite, suite.written) = {}
    <3>1. Len(toWrite) = 0 /\ suite.written >= Len(toWrite)
      BY <1>2, <1>4
    <3>2. QED
      BY <1>2, <3>1, QueuedNone
  <2>12. stored \cup Queued(toWrite, suite.written) = stored
    BY <2>11
  <2>13. /\ Numbered(stored, suite.testId) /\ OfFirst(stored, suite.request, n + 1)
         /\ ~lost => /\ DoneWhole(stored, suite)
                     /\ Cardinality(InCategory(stored, Category)) = Count - Total(suite.todo)
    BY <1>1, <2>2, <2>12 DEF InsideCategory
  <2>14. ~lost' => DoneWhole(stored', suite')
    <3>1. SUFFICES ASSUME ~lost' PROVE DoneWhole(stored', suite')
      OBVIOUS
    <3>2. \A j \in 1..n : Cardinality(InCategory(stored, suite.request[j].category)) = g[j]
      BY <1>1, <2>2, <2>13, <3>1 DEF DoneWhole
    <3>3. Cardinality(InCategory(stored, suite.request[n + 1].category)) = c
      BY <1>1, <2>4, <2>5, <2>13, <3>1
    <3>4. \A j \in 1..(n + 1) : Cardinality(InCategory(stored, suite.request[j].category)) = h[j]
      BY <2>6, <2>9, <3>2, <3>3
    <3>5. QED
      BY <1>1, <2>6, <2>7, <3>4 DEF DoneWhole
  <2>15. /\ Numbered(stored', suite'.testId) /\ toWrite' = <<>>
         /\ OfFirst(stored', suite'.request, Len(suite'.generated))
         /\ Queued(toWrite', suite'.written) = {}
    BY <1>1, <1>4, <2>6, <2>7, <2>11, <2>13
  <2>16. BetweenCategories'
    BY <2>10, <2>14, <2>15 DEF BetweenCategories
  <2>17. QED
    BY <2>7, <2>8, <2>16 DEF GenerationInv
<1>5. QED
  BY <1>3, <1>4

\* A test is made: it has the next number, and one less is to be made.
LEMMA MakeTestKeeps ==
    ASSUME GenerationInv, MakeTest
    PROVE  GenerationInv'
<1>1. /\ SuiteShape /\ InsideCategory /\ suite.at = "tests" /\ Total(suite.todo) > 0
      /\ UNCHANGED <<stored, lost>>
  BY DEF GenerationInv, MakeTest, Making
<1>2. /\ suite \in SuiteRecords /\ suite.written = 0 /\ toWrite \in Seq(TestRecords)
      /\ stored \subseteq TestRecords /\ IsFiniteSet(stored)
  BY <1>1 DEF SuiteShape
<1>3. Planned(suite) /\ Len(suite.generated) < Len(suite.request) /\ Count > 0
  BY <1>1 DEF InsideCategory
<1>4. PICK n \in Nat, tasks \in Seq(Int), id \in Int :
         n = Len(suite.generated) /\ tasks = suite.todo /\ id = suite.testId
  BY <1>2 DEF SuiteRecords
<1>5. /\ n + 1 \in 1..Len(suite.request) /\ Category = suite.request[n + 1].category
      /\ Category \in Categories /\ Count \in Int /\ Count = suite.counts[n + 1]
      /\ \A j \in 1..n : suite.request[j].category # Category
  <2>1. Category = suite.request[n + 1].category /\ Count = suite.counts[n + 1]
    BY <1>4 DEF Category, Count
  <2>2. QED
    BY <1>3, <1>4, <2>1, ThisCategory
<1>6. \A k \in 1..Len(tasks) : tasks[k] \in Int /\ tasks[k] >= 0
  BY <1>1, <1>4 DEF InsideCategory
<1>7. PICK type \in 1..Len(tasks) :
         /\ type = Min({k \in DOMAIN suite.todo : suite.todo[k] > 0})
         /\ tasks[type] \in Int /\ tasks[type] >= 1
  <2>1. PICK T : T = {k \in 1..Len(tasks) : tasks[k] > 0}
    OBVIOUS
  <2>2. T # {}
    <3>1. SUFFICES ASSUME T = {} PROVE FALSE
      OBVIOUS
    <3>2. \A k \in 1..Len(tasks) : tasks[k] = 0
      BY <1>6, <2>1, <3>1
    <3>3. Total(tasks) = 0
      BY <3>2, TotalOfNone
    <3>4. QED
      BY <1>1, <1>4, <3>3
  <2>3. T \subseteq Nat
    BY <2>1
  <2>4. Min(T) \in T
    BY <2>2, <2>3, MinIn
  <2>5. T = {k \in DOMAIN suite.todo : suite.todo[k] > 0}
    BY <1>4, <2>1
  <2>6. PICK m : m = Min(T) /\ m \in T
    BY <2>4
  <2>7. m \in 1..Len(tasks) /\ tasks[m] \in Int /\ tasks[m] >= 1
    BY <1>6, <2>1, <2>6
  <2>8. QED
    BY <2>5, <2>6, <2>7
<1>8. PICK test : test = [category |-> Category, id |-> id]
  OBVIOUS
<1>9. /\ test \in TestRecords /\ test # Stale /\ test.category = Category /\ test.id = id
  <2>1. Category # "none"
    BY <1>5, GenerationAssumption
  <2>2. QED
    BY <1>5, <1>8, <2>1 DEF TestRecords, Stale
<1>10. PICK at \in {"tests", "write"}, left \in Seq(Int), next \in Int :
          /\ left = [tasks EXCEPT ![type] = tasks[type] - 1] /\ next = id + 1
          /\ toWrite' = Append(toWrite, test)
          /\ suite' = [suite EXCEPT !.todo = left, !.testId = next, !.at = at]
  <2>1. PICK queued : queued = Append(toWrite, test)
    OBVIOUS
  <2>2. PICK at : at = IF Len(queued) >= BatchSize THEN "write" ELSE "tests"
    OBVIOUS
  <2>3. /\ toWrite' = queued
        /\ suite' = [suite EXCEPT !.todo[type] = tasks[type] - 1, !.testId = id + 1, !.at = at]
    BY <1>4, <1>7, <1>8, <2>1, <2>2 DEF MakeTest
  <2>4. PICK m \in Int : m = tasks[type] - 1
    <3>1. PICK x \in Int : x = tasks[type]
      BY <1>7
    <3>2. x - 1 \in Int
      OBVIOUS
    <3>3. QED
      BY <3>1, <3>2
  <2>5. PICK left : left = [tasks EXCEPT ![type] = m]
    OBVIOUS
  <2>6. left \in Seq(Int)
    BY <2>5, TotalChanges
  <2>7. PICK next \in Int : next = id + 1
    OBVIOUS
  <2>8. at \in {"tests", "write"}
    BY <2>2
  <2>9. suite' = [suite EXCEPT !.todo = left, !.testId = next, !.at = at]
    BY <1>2, <1>4, <2>3, <2>4, <2>5, <2>7 DEF SuiteRecords
  <2>10. left = [tasks EXCEPT ![type] = tasks[type] - 1]
    BY <2>4, <2>5
  <2>11. toWrite' = Append(toWrite, test)
    BY <2>1, <2>3
  <2>12. QED
    BY ONLY <2>6, <2>7, <2>8, <2>9, <2>10, <2>11
<1>11. /\ Len(left) = Len(tasks) /\ Total(left) = Total(tasks) - 1
       /\ \A k \in 1..Len(left) : left[k] >= 0
  <2>1. PICK x \in Int, m \in Int, t \in Int : x = tasks[type] /\ m = x - 1 /\ t = Total(tasks)
    <3>1. PICK x \in Int, t \in Int : x = tasks[type] /\ t = Total(tasks)
      BY <1>7, TotalIsNumber
    <3>2. x - 1 \in Int
      OBVIOUS
    <3>3. QED
      BY <3>1, <3>2
  <2>2. left = [tasks EXCEPT ![type] = m]
    BY <1>10, <2>1
  <2>3. Len(left) = Len(tasks) /\ Total(left) = Total(tasks) + (m - tasks[type])
    BY <2>2, TotalChanges
  <2>4. t + ((x - 1) - x) = t - 1
    OBVIOUS
  <2>5. Total(left) = Total(tasks) - 1
    BY <2>1, <2>3, <2>4
  <2>6. \A k \in 1..Len(tasks) : left[k] = IF k = type THEN m ELSE tasks[k]
    BY <2>2
  <2>7. m >= 0
    BY <1>7, <2>1
  <2>8. \A k \in 1..Len(tasks) : left[k] >= 0
    BY <1>6, <2>6, <2>7
  <2>9. QED
    BY <2>3, <2>5, <2>8
<1>12. /\ suite' \in SuiteRecords /\ suite'.at = at /\ suite'.written = suite.written
       /\ suite'.request = suite.request /\ suite'.total = suite.total
       /\ suite'.weighted = suite.weighted /\ suite'.generated = suite.generated
       /\ suite'.counts = suite.counts /\ suite'.testId = next /\ suite'.todo = left
  BY <1>2, <1>10 DEF SuiteRecords
<1>13. PICK Q : Q = Queued(toWrite, suite.written)
  OBVIOUS
<1>14. /\ toWrite' \in Seq(TestRecords) /\ Len(toWrite') = Len(toWrite) + 1
       /\ Queued(toWrite', suite'.written) = Q \cup {test}
  <2>1. PICK w \in Nat : w = suite.written /\ w <= Len(toWrite)
    BY <1>2
  <2>2. /\ Append(toWrite, test) \in Seq(TestRecords)
        /\ Len(Append(toWrite, test)) = Len(toWrite) + 1
        /\ Queued(Append(toWrite, test), w) = Queued(toWrite, w) \cup {test}
    BY <1>2, <1>9, <2>1, QueuedAppends
  <2>3. QED
    BY <1>10, <1>12, <1>13, <2>1, <2>2
<1>15. SuiteShape'
  <2>1. suite'.written <= Len(toWrite')
    BY <1>2, <1>12, <1>14
  <2>2. QED
    BY <1>1, <1>2, <1>12, <1>14, <2>1 DEF SuiteShape
<1>16. PICK M : M = stored \cup Q
  OBVIOUS
<1>17. /\ M \subseteq TestRecords /\ IsFiniteSet(M)
       /\ \A t \in M : t.id \in Int
  <2>1. suite.written \in Nat
    BY <1>2
  <2>2. IsFiniteSet(Q) /\ Q \subseteq TestRecords
    BY <1>2, <1>13, <2>1, QueuedFinite
  <2>3. M \subseteq TestRecords /\ IsFiniteSet(M)
    BY <1>2, <1>16, <2>2, FS_Union
  <2>4. QED
    BY <2>3 DEF TestRecords
<1>18. /\ Numbered(M, id) /\ OfFirst(M, suite.request, n + 1)
       /\ \A t \in Q : t.category = Category
       /\ ~lost => /\ DoneWhole(stored, suite)
                   /\ Cardinality(InCategory(M, Category)) = Count - Total(tasks)
  BY <1>1, <1>4, <1>13, <1>16 DEF InsideCategory
<1>19. stored' \cup Queued(toWrite', suite'.written) = M \cup {test}
  BY <1>1, <1>14, <1>16
<1>20. Numbered(M \cup {test}, next)
  <2>1. \A t \in M : t.id \in Int /\ t.id < id
    BY <1>17, <1>18 DEF Numbered
  <2>2. \A t \in M \cup {test} : t.id < next
    <3>1. SUFFICES ASSUME NEW t \in M \cup {test} PROVE t.id < next
      OBVIOUS
    <3>2. CASE t \in M
      BY <1>10, <2>1, <3>2
    <3>3. CASE t = test
      BY <1>9, <1>10, <3>3
    <3>4. QED
      BY <3>2, <3>3
  <2>3. \A t, u \in M \cup {test} : t.id = u.id => t = u
    <3>1. SUFFICES ASSUME NEW t \in M \cup {test}, NEW u \in M \cup {test}, t.id = u.id
                   PROVE  t = u
      OBVIOUS
    <3>2. CASE t \in M /\ u \in M
      BY <1>18, <3>1, <3>2 DEF Numbered
    <3>3. CASE t = test /\ u = test
      BY <3>3
    <3>4. CASE t \in M /\ u = test
      BY <1>9, <2>1, <3>1, <3>4
    <3>5. CASE t = test /\ u \in M
      BY <1>9, <2>1, <3>1, <3>5
    <3>6. QED
      BY <3>2, <3>3, <3>4, <3>5
  <2>4. QED
    BY <2>2, <2>3 DEF Numbered
<1>21. OfFirst(M \cup {test}, suite.request, n + 1)
  <2>1. n + 1 \in 1..(n + 1)
    OBVIOUS
  <2>2. QED
    BY <1>5, <1>9, <1>18, <2>1 DEF OfFirst
<1>22. Cardinality(InCategory(M \cup {test}, Category)) = Cardinality(InCategory(M, Category)) + 1
  <2>1. InCategory(M \cup {test}, Category) = InCategory(M, Category) \cup {test}
    BY <1>9 DEF InCategory
  <2>2. test \notin InCategory(M, Category)
    BY <1>9, <1>17, <1>18 DEF InCategory, Numbered
  <2>3. InCategory(M, Category) \subseteq M
    BY DEF InCategory
  <2>4. IsFiniteSet(InCategory(M, Category))
    BY <1>17, <2>3, FS_Subset
  <2>5. QED
    BY <2>1, <2>2, <2>4, FS_AddElement
<1>23. Count' = Count /\ Category' = Category
  BY <1>12 DEF Count, Category
<1>24. Planned(suite')
  BY <1>3, <1>12 DEF Planned
<1>25. ~lost' => /\ DoneWhole(stored', suite')
                 /\ Cardinality(InCategory(M \cup {test}, Category')) = Count' - Total(suite'.todo)
  <2>1. PICK t \in Int, c \in Int : t = Total(tasks) /\ c = Count
    BY <1>5, TotalIsNumber
  <2>2. DoneWhole(stored, suite) => DoneWhole(stored', suite')
    BY <1>1, <1>12 DEF DoneWhole
  <2>3. ~lost => Cardinality(InCategory(M \cup {test}, Category)) = c - (t - 1)
    BY <1>18, <1>22, <2>1
  <2>4. Count' - Total(suite'.todo) = c - (t - 1)
    BY <1>11, <1>12, <1>23, <2>1
  <2>5. QED
    BY <1>1, <1>18, <1>23, <2>2, <2>3, <2>4
<1>26. InsideCategory'
  <2>1. /\ Len(suite'.generated) < Len(suite'.request) /\ Count' > 0
        /\ Len(suite'.generated) = n
        /\ \A k \in 1..Len(suite'.todo) : suite'.todo[k] >= 0
    BY <1>3, <1>4, <1>11, <1>12, <1>23
  <2>2. \A t \in Queued(toWrite', suite'.written) : t.category = Category'
    BY <1>9, <1>14, <1>18, <1>23
  <2>3. Numbered(M \cup {test}, suite'.testId) /\ OfFirst(M \cup {test}, suite'.request, n + 1)
    BY <1>12, <1>20, <1>21
  <2>4. QED
    BY <1>19, <1>24, <1>25, <2>1, <2>2, <2>3 DEF InsideCategory
<1>27. QED
  BY <1>10, <1>12, <1>15, <1>26 DEF GenerationInv

\* A test is written, unless the write fails.
LEMMA WriteTestKeeps ==
    ASSUME GenerationInv, NEW fails \in BOOLEAN, WriteTest(fails)
    PROVE  GenerationInv'
<1>1. /\ SuiteShape /\ InsideCategory /\ suite.at = "write" /\ toWrite' = toWrite
      /\ suite.written < Len(toWrite)
      /\ suite' = [suite EXCEPT !.written = suite.written + 1]
  BY DEF GenerationInv, WriteTest, Making
<1>2. /\ suite \in SuiteRecords /\ toWrite \in Seq(TestRecords)
      /\ stored \subseteq TestRecords /\ IsFiniteSet(stored)
  BY <1>1 DEF SuiteShape
<1>3. PICK w \in Nat : w = suite.written
  BY <1>2 DEF SuiteRecords
<1>4. PICK v \in Nat : v = w + 1
  OBVIOUS
<1>5. /\ suite' \in SuiteRecords /\ suite'.at = "write" /\ suite'.written = v
      /\ suite'.request = suite.request /\ suite'.total = suite.total
      /\ suite'.weighted = suite.weighted /\ suite'.generated = suite.generated
      /\ suite'.counts = suite.counts /\ suite'.testId = suite.testId
      /\ suite'.todo = suite.todo
  BY <1>1, <1>2, <1>3, <1>4 DEF SuiteRecords
<1>6. PICK test : test = toWrite[v]
  OBVIOUS
<1>7. /\ test = Stale => UNCHANGED <<stored, lost>>
      /\ test # Stale => /\ stored' = IF fails THEN stored ELSE stored \cup {test}
                         /\ lost' = (lost \/ fails)
  BY <1>3, <1>4, <1>6 DEF WriteTest
<1>8. PICK Q : Q = Queued(toWrite, w)
  OBVIOUS
<1>9. PICK R : R = Queued(toWrite', suite'.written)
  OBVIOUS
<1>10. /\ test \in TestRecords
       /\ test = Stale => R = Q
       /\ test # Stale => Q = R \cup {test}
  BY <1>1, <1>2, <1>3, <1>4, <1>5, <1>6, <1>8, <1>9, QueuedAdvances
<1>11. /\ stored' \subseteq TestRecords /\ IsFiniteSet(stored') /\ lost' \in BOOLEAN
  <2>1. lost \in BOOLEAN
    BY <1>1 DEF SuiteShape
  <2>2. IsFiniteSet(stored \cup {test})
    BY <1>2, FS_AddElement
  <2>3. QED
    BY <1>2, <1>7, <1>10, <2>1, <2>2
<1>12. SuiteShape'
  <2>1. v <= Len(toWrite)
    BY <1>1, <1>2, <1>3, <1>4
  <2>2. QED
    BY <1>1, <1>2, <1>5, <1>11, <2>1 DEF SuiteShape
<1>13. /\ R \subseteq Q /\ stored' \cup R \subseteq stored \cup Q
       /\ ~lost' => ~lost /\ stored' \cup R = stored \cup Q
       /\ stored' \subseteq stored \cup Q /\ stored \subseteq stored'
  <2>1. lost \in BOOLEAN /\ lost' \in BOOLEAN
    BY <1>1, <1>11 DEF SuiteShape
  <2>2. CASE test = Stale
    BY <1>7, <1>10, <2>1, <2>2
  <2>3. CASE test # Stale /\ fails
    <3>1. stored' = stored /\ lost' /\ Q = R \cup {test}
      BY <1>7, <1>10, <2>3
    <3>2. QED
      BY <3>1
  <2>4. CASE test # Stale /\ ~fails
    <3>1. stored' = stored \cup {test} /\ Q = R \cup {test}
      BY <1>7, <1>10, <2>4
    <3>2. ~lost' => ~lost
      BY <1>7, <2>4
    <3>3. QED
      BY <3>1, <3>2
  <2>5. QED
    BY <2>2, <2>3, <2>4
<1>14. /\ Planned(suite) /\ Len(suite.generated) < Len(suite.request) /\ Count > 0
       /\ \A k \in 1..Len(suite.todo) : suite.todo[k] >= 0
       /\ \A t \in Q : t.category = Category
       /\ Numbered(stored \cup Q, suite.testId)
       /\ OfFirst(stored \cup Q, suite.request, Len(suite.generated) + 1)
       /\ ~lost => /\ DoneWhole(stored, suite)
                   /\ Cardinality(InCategory(stored \cup Q, Category)) = Count - Total(suite.todo)
  BY <1>1, <1>3, <1>8 DEF InsideCategory
<1>15. Planned(suite')
  BY <1>5, <1>14 DEF Planned
<1>16. Count' = Count /\ Category' = Category
  BY <1>5 DEF Count, Category
<1>17. /\ Numbered(stored' \cup R, suite'.testId)
       /\ OfFirst(stored' \cup R, suite'.request, Len(suite'.generated) + 1)
  BY <1>5, <1>13, <1>14 DEF Numbered, OfFirst
<1>18. DoneWhole(stored, suite) => DoneWhole(stored', suite')
  <2>1. \A j \in 1..Len(suite.generated) : suite.request[j].category # Category
    <3>1. PICK n \in Nat : n = Len(suite.generated)
      BY <1>2 DEF SuiteRecords
    <3>2. \A j \in 1..n : suite.request[j].category # suite.request[n + 1].category
      BY <1>14, <3>1, ThisCategory
    <3>3. QED
      BY <3>1, <3>2 DEF Category
  <2>2. \A t \in stored' : t \in stored \/ t.category = Category
    BY <1>13, <1>14
  <2>3. \A j \in 1..Len(suite.generated) :
           InCategory(stored', suite.request[j].category)
              = InCategory(stored, suite.request[j].category)
    BY <1>13, <2>1, <2>2 DEF InCategory
  <2>4. QED
    BY <1>5, <2>3 DEF DoneWhole
<1>19. ~lost' => /\ DoneWhole(stored', suite')
                 /\ Cardinality(InCategory(stored' \cup R, Category')) = Count' - Total(suite'.todo)
  BY <1>5, <1>13, <1>14, <1>16, <1>18
<1>20. InsideCategory'
  BY <1>5, <1>9, <1>13, <1>14, <1>15, <1>16, <1>17, <1>19 DEF InsideCategory
<1>21. QED
  BY <1>5, <1>12, <1>20 DEF GenerationInv

\* Nothing else does.
LEMMA RestKeepsGeneration ==
    ASSUME GenerationInv, UNCHANGED generationVars
    PROVE  GenerationInv'
BY DEF GenerationInv, generationVars, SuiteShape, AtDistribute, BetweenCategories, InsideCategory,
       Count, Category

\* A suite that returns has been made whole.
LEMMA GenerationInvWhole ==
    ASSUME GenerationInv PROVE SuiteIsWhole
<1> SUFFICES ASSUME suite.at = "returned" PROVE SuiteIsWhole
  BY DEF SuiteIsWhole, Making
<1>1. /\ SuiteShape /\ BetweenCategories /\ Len(suite.generated) = Len(suite.request)
      /\ Planned(suite)
  BY DEF GenerationInv, BetweenCategories
<1>2. PICK n \in Nat \ {0} : n = Len(suite.request) /\ DOMAIN suite.request = 1..n
  BY <1>1, GenerationAssumption DEF Planned
<1>3. PICK counts \in Seq(Int), generated \in Seq(Int), total \in Nat \ {0} :
         /\ counts = suite.counts /\ generated = suite.generated /\ total = suite.total
         /\ Len(counts) = n /\ Len(generated) = n /\ Total(counts) = total
  <2>1. suite.counts \in Seq(Int) /\ Len(suite.counts) = n /\ Total(suite.counts) = suite.total
    BY <1>1, <1>2 DEF Planned, Fair
  <2>2. suite.generated \in Seq(Nat) /\ suite.total \in Nat \ {0}
    BY <1>1 DEF SuiteShape, SuiteRecords
  <2>3. suite.generated \in Seq(Int)
    BY <2>2
  <2>4. QED
    BY <1>1, <1>2, <2>1, <2>2, <2>3
<1>4. toWrite = <<>>
  <2>1. SUFFICES ASSUME toWrite # <<>> PROVE FALSE
    OBVIOUS
  <2>2. \A k \in 1..n : counts[k] <= 0
    BY <1>1, <1>3, <2>1 DEF BetweenCategories
  <2>3. PICK z : z = [k \in 1..n |-> 0]
    OBVIOUS
  <2>4. z \in Seq(Int) /\ Len(z) = n /\ \A k \in 1..n : z[k] = 0
    BY <2>3
  <2>5. Total(z) = 0
    BY <2>4, TotalOfNone
  <2>6. \A k \in 1..Len(counts) : counts[k] <= z[k]
    BY <1>3, <2>2, <2>4
  <2>7. Total(counts) <= Total(z)
    BY <1>3, <2>4, <2>6, TotalGrows
  <2>8. QED
    BY <1>3, <2>5, <2>7
<1>5. ~lost => \A k \in DOMAIN suite.request :
         suite.generated[k] =
            Quantify(stored, LAMBDA test : test.category = suite.request[k].category)
  <2>1. ~lost => \A k \in 1..n :
           Cardinality(InCategory(stored, suite.request[k].category)) = suite.generated[k]
    BY <1>1, <1>2 DEF BetweenCategories, DoneWhole
  <2>2. ~lost => \A k \in DOMAIN suite.request :
           Cardinality({test \in stored : test.category = suite.request[k].category})
              = suite.generated[k]
    BY <1>2, <2>1 DEF InCategory
  <2>3. QED
    BY ONLY <2>2 DEF Quantify
<1>6. \A s, t \in stored : s.id = t.id => s = t
  BY <1>1 DEF BetweenCategories, Numbered
<1>7. suite.weighted \/ Len(suite.request) <= suite.total => Total(suite.generated) = suite.total
  <2>1. SUFFICES ASSUME suite.weighted \/ n <= total PROVE Total(generated) = total
    BY <1>2, <1>3
  <2>2. counts[1] >= 0 /\ \A k \in 2..n : counts[k] >= 0
    BY <1>1, <1>2, <1>3, <2>1 DEF Planned, Fair
  <2>3. \A k \in 1..n : counts[k] \in Int /\ counts[k] >= 0
    <3>1. \A k \in 1..n : k = 1 \/ k \in 2..n
      OBVIOUS
    <3>2. QED
      BY <1>3, <2>2, <3>1
  <2>4. \A k \in 1..n : generated[k] = IF counts[k] > 0 THEN counts[k] ELSE 0
    BY <1>1, <1>3 DEF Planned
  <2>5. \A k \in 1..n : generated[k] = counts[k]
    <3>1. SUFFICES ASSUME NEW k \in 1..n PROVE generated[k] = counts[k]
      OBVIOUS
    <3>2. PICK c \in Int : c = counts[k] /\ c >= 0
      BY <2>3
    <3>3. generated[k] = IF c > 0 THEN c ELSE 0
      BY <2>4, <3>2
    <3>4. QED
      BY <3>2, <3>3
  <2>6. generated = counts
    BY <1>3, <2>5
  <2>7. QED
    BY <1>3, <2>6
<1>8. QED
  BY <1>4, <1>5, <1>6, <1>7 DEF SuiteIsWhole

\* The invariant of a generator holds.
THEOREM GenerationInvariant == GenerationSpec => []GenerationInv
<1>1. GenerationInit => GenerationInv
  BY GenerationBegins
<1>2. GenerationInv /\ [GenerationNext]_generationVars => GenerationInv'
  <2> SUFFICES ASSUME GenerationInv, [GenerationNext]_generationVars PROVE GenerationInv'
    OBVIOUS
  <2>1. ASSUME NEW r \in Requests, NEW total \in Totals, NEW w \in BOOLEAN,
               StartSuite(r, total, w)
        PROVE  GenerationInv'
    BY <2>1, StartSuiteKeeps
  <2>2. CASE Distribute
    BY <2>2, DistributeKeeps
  <2>3. CASE SuiteRaises
    BY <2>3, SuiteRaisesKeeps
  <2>4. CASE SkipCategory
    BY <2>4, SkipCategoryKeeps
  <2>5. CASE EnterCategory
    BY <2>5, EnterCategoryKeeps
  <2>6. CASE ReturnCounts
    BY <2>6, ReturnCountsKeeps
  <2>7. CASE MakeTest
    BY <2>7, MakeTestKeeps
  <2>8. CASE EndTests
    BY <2>8, EndTestsKeeps
  <2>9. CASE ClearQueue
    BY <2>9, ClearQueueKeeps
  <2>10. ASSUME NEW fails \in BOOLEAN, WriteTest(fails) PROVE GenerationInv'
    BY <2>10, WriteTestKeeps
  <2>11. CASE UNCHANGED generationVars
    BY <2>11, RestKeepsGeneration
  <2>12. QED
    BY <2>1, <2>2, <2>3, <2>4, <2>5, <2>6, <2>7, <2>8, <2>9, <2>10, <2>11 DEF GenerationNext
<1>3. QED
  BY <1>1, <1>2, PTL DEF GenerationSpec

\* Every suite that returns is what its counts say.
THEOREM SuitesAreWhole == GenerationSpec => []SuiteIsWhole
<1>1. GenerationInv => SuiteIsWhole
  BY GenerationInvWhole
<1>2. QED
  BY <1>1, GenerationInvariant, PTL
==============================================================================
