------------------------------ MODULE ZipNames ------------------------------
(***************************************************************************)
(* What the files in a bulk download are called: the name an asset is      *)
(* staged under (stageDownloadAsset) and the name its ZIP entry gets       *)
(* (getUniqueFilename), one asset after the other in the order asked for.  *)
(* A name is a stem, the counters appended to it and an extension, so      *)
(* "a_2.jpg" is [stem |-> a, marks |-> <<2>>, ext |-> jpg] whether the     *)
(* server made it or the photographer did.                                 *)
(***************************************************************************)
EXTENDS Integers, Sequences, FiniteSets, SequencesExt

CONSTANTS
  Stems, Ids,           \* stems of original names; assets' UUIDs
  Bare,                 \* the stem of a name that is an extension alone
  Exts, Jpg,            \* known extensions; ".jpg"
  NoExt, NoName,
  MaxEntries            \* bound on the assets of a request

ASSUME ZipNamesAssumption ==
  /\ Stems \cap Ids = {} /\ Bare \notin Stems \cup Ids
  /\ Jpg \in Exts /\ NoExt \notin Exts
  /\ MaxEntries \in Nat

Qualities == {"original", "preview"}
Kinds == {"IMAGE", "VIDEO"}
Counters == 2 .. MaxEntries + 1
Name(stem, marks, ext) == [stem |-> stem, marks |-> marks, ext |-> ext]

\* Names of files as they were uploaded: plain, ending in a counter, or ".jpg",
\* which sanitizeFilename turns into "jpg".
OriginalNames ==
  {Name(s, m, e) : s \in Stems, m \in {<< >>, <<2>>}, e \in Exts}
    \cup {Name(Bare, << >>, e) : e \in Exts}

VARIABLES
  quality,              \* of bulk downloads, from the configuration
  stagedAs,             \* names of the assets so far, in order
  used,                 \* usedFilenames: name to count
  entries               \* names of the ZIP's entries
namesVars == <<quality, stagedAs, used, entries>>

NamesInit ==
  /\ quality \in Qualities
  /\ stagedAs = << >>
  /\ used = << >>
  /\ entries = << >>

\* The name an asset is staged under.  A recompressed image has the extension
\* of what Immich sent, ".jpg" if that is unknown, and the UUID for a stem if
\* its name is an extension alone; filepath.Base makes "." of a missing name,
\* so a nameless image is called by its extension.  Anything else keeps its
\* name or takes the answer's Content-Disposition or, failing that, its UUID.
Recompressed(asset, ext) ==
  CASE asset.original = NoName -> Name(Bare, << >>, ext)
    [] asset.original # NoName /\ asset.original.stem = Bare -> Name(asset.id, << >>, ext)
    [] OTHER -> [asset.original EXCEPT !.ext = ext]

StagedName(asset, disposition, mimeExt) ==
  CASE asset.kind = "IMAGE" /\ quality # "original" ->
         Recompressed(asset, IF mimeExt = NoExt THEN Jpg ELSE mimeExt)
    [] OTHER ->
         IF asset.original # NoName THEN asset.original
         ELSE IF disposition # NoName THEN disposition
         ELSE Name(asset.id, << >>, mimeExt)

Counted(n, count) ==
  [m \in DOMAIN used \cup {n} |-> IF m = n THEN count ELSE used[m]]

\* Mutated GetUniqueFilename: a name seen for the first time is not recorded.
GetUniqueFilenameForgets(filename) ==
  IF filename \in DOMAIN used
    THEN LET unique == [filename EXCEPT !.marks = Append(@, used[filename] + 1)]
         IN /\ used' = Counted(unique, used[filename] + 1)
            /\ entries' = Append(entries, unique)
    ELSE /\ used' = used
         /\ entries' = Append(entries, filename)

\* Mutated GetUniqueFilename: counting starts at zero.
GetUniqueFilenameFromZero(filename) ==
  IF filename \in DOMAIN used
    THEN LET unique == [filename EXCEPT !.marks = Append(@, used[filename] + 1)]
         IN /\ used' = Counted(unique, used[filename] + 1)
            /\ entries' = Append(entries, unique)
    ELSE /\ used' = Counted(filename, 0)
         /\ entries' = Append(entries, filename)

\* A name that was used is given a counter.  What is counted up is the entry
\* of the new name: the count of the old one stays where it was.
GetUniqueFilename(filename) ==
  IF filename \in DOMAIN used
    THEN LET unique == [filename EXCEPT !.marks = Append(@, used[filename] + 1)]
         IN /\ used' = Counted(unique, used[filename] + 1)
            /\ entries' = Append(entries, unique)
    ELSE /\ used' = Counted(filename, 1)
         /\ entries' = Append(entries, filename)

\* The next asset: any asset, also one that was asked for before.
AddEntry ==
  /\ Len(entries) < MaxEntries
  /\ \E id \in Ids, original \in OriginalNames \cup {NoName}, kind \in Kinds,
        disposition \in {n \in OriginalNames : n.marks = << >>} \cup {NoName},
        mimeExt \in Exts \cup {NoExt} :
       LET asset == [id |-> id, original |-> original, kind |-> kind]
           filename == StagedName(asset, disposition, mimeExt)
       IN /\ stagedAs' = Append(stagedAs, filename)
          /\ GetUniqueFilename(filename)
  /\ UNCHANGED quality

NamesNext == AddEntry
NamesSpec == NamesInit /\ [][NamesNext]_namesVars

----------------------------------------------------------------------------
IsName(n) ==
  /\ n.stem \in Stems \cup Ids \cup {Bare}
  /\ n.ext \in Exts \cup {NoExt}
  /\ \A i \in DOMAIN n.marks : n.marks[i] \in Counters

\* The counts kept are those of names already in the ZIP.
NamesTypeOK ==
  /\ quality \in Qualities
  /\ Len(stagedAs) <= MaxEntries
  /\ \A i \in DOMAIN stagedAs : IsName(stagedAs[i])
  /\ \A i \in DOMAIN entries : IsName(entries[i])
  /\ DOMAIN used = ToSet(entries)
  /\ \A n \in DOMAIN used : used[n] \in 1 .. MaxEntries + 1

Times(n) == Cardinality({i \in DOMAIN stagedAs : stagedAs[i] = n})

\* How far getUniqueFilename keeps its word: no two entries of a ZIP have the
\* same name so long as no name is asked for three times and no file was
\* called, when it was uploaded, what a duplicate of another would be called.
UniqueUpToTwo ==
  (\A n \in ToSet(stagedAs) :
     Times(n) <= 2 /\ (Times(n) = 2 => [n EXCEPT !.marks = Append(@, 2)] \notin ToSet(stagedAs)))
    => IsInjective(entries)

\* An asset keeps the name it was staged under if no file before it, and no
\* duplicate before it, had that name; nothing else is renamed.
RenamedOnlyIfTaken ==
  \A i \in DOMAIN entries :
    (entries[i] # stagedAs[i]) <=> \E j \in 1 .. i - 1 : entries[j] = stagedAs[i]

\* The entries are named as far as getUniqueFilename can keep its word.
EntriesSound == NamesTypeOK /\ UniqueUpToTwo /\ RenamedOnlyIfTaken

\* The comment of getUniqueFilename, "ensures filenames are unique in the ZIP"
\* (share_download_jobs.go:190).
NamesUnique == IsInjective(entries)
=============================================================================
