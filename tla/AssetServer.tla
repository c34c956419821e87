----------------------------- MODULE AssetServer -----------------------------
(***************************************************************************)
(* The asset server: requests for an asset or for a transformed image of   *)
(* it, the storage that holds the assets and the cache of transformed      *)
(* images, and the uploads and deletions of the shop.  Every call of the   *)
(* storage is a step of its own; on a local disk writing a file is two,    *)
(* because it is there as soon as it is opened.                            *)
(*                                                                         *)
(* The image library and the shop's AssetService, which picks a name that  *)
(* no file has, are outside the repository.                                *)
(***************************************************************************)
EXTENDS Integers, Sequences, FiniteSets

CONSTANTS
    Names,          \* paths of assets, without and with their extension
    Contents,       \* files that can be uploaded, each once
    Sizes,          \* w and h
    Modes,          \* texts of the mode, as sequences of words
    Presets,        \* names of presets there are
    FocalPoints,    \* fpx and fpy
    Formats,        \* formats there are
    Qualities,      \* q
    Queries,        \* query strings that are sent
    Visits,         \* concurrent requests of browsers
    None,           \* not given, no file
    MaxVisits,      \* bound: requests made
    MaxFaults       \* bound: images that cannot be transformed, writes that fail, stops

VARIABLES
    storage,        \* "local" or "s3"
    source,         \* the file of every asset
    uploading,      \* what writeFileFromStream is writing into it
    cache,          \* the files below cache/
    visit,          \* the local state of every request
    visits,         \* requests so far
    faults,         \* faults so far
    uploaded,       \* history: contents each name has had
    ambiguous,      \* history: cache files whose key does not say what is drawn
    torn            \* history: files used while they were written, or left in part

vars == <<storage, source, uploading, cache, visit, visits, faults, uploaded, ambiguous, torn>>

Query ==
    [size : Sizes \cup {None}, mode : Modes \cup {None}, preset : Presets \cup {None},
     focal : FocalPoints \cup {None}, format : Formats \cup {None},
     quality : Qualities \cup {None}, cache : BOOLEAN]

NoQuery ==
    [size |-> None, mode |-> None, preset |-> None, focal |-> None, format |-> None,
     quality |-> None, cache |-> FALSE]

-----------------------------------------------------------------------------
(* getFileNameFromRequest.                                                  *)

\* A part of a text, in the words it is put together from.
Given(part) == IF part = None THEN <<>> ELSE <<part>>

\* The key: w and h come before the preset, and the mode is taken as it was
\* sent. (Its md5, which is taken for injective.)
FileKey(q) ==
    (IF q.size # None THEN <<q.size>> \o (IF q.mode = None THEN <<"undefined">> ELSE q.mode)
                      ELSE Given(q.preset))
        \o Given(q.focal) \o Given(q.format) \o Given(q.quality)

Plain(q) == FileKey(q) = <<>>

\* addSuffix: a format takes the place of the extension.
CacheFile(n, q) ==
    [base |-> n.base, key |-> FileKey(q), ext |-> IF q.format # None THEN q.format ELSE n.ext]

CacheFiles == {CacheFile(n, q) : n \in Names, q \in Queries}

\* transformImage: a preset replaces the dimensions and the mode of the query;
\* without dimensions a mode does nothing.
Drawn(q) ==
    [area |-> IF q.preset # None THEN q.preset ELSE q.size,
     crop |-> q.preset = None /\ q.size # None /\ q.mode \in {None, <<"crop">>},
     focal |-> q.focal, format |-> q.format, quality |-> q.quality]

\* What the key does not tell from other queries: a preset that replaces the
\* dimensions it names, and a mode that is none of the documented ones.
Ambiguous(q) ==
    q.size # None /\ (q.preset # None \/ q.mode \notin {None, <<"crop">>, <<"resize">>})

-----------------------------------------------------------------------------
\* The file of an asset, or an image of it: all of it, or a part.
File == [of : Contents, whole : BOOLEAN]
Image == [of : Contents, drawn : {Drawn(q) : q \in Queries}, whole : BOOLEAN]

NoAnswer == [status |-> 0, of |-> None, drawn |-> None, whole |-> FALSE]

Idle == [step |-> "idle", name |-> None, query |-> NoQuery, file |-> None, answer |-> NoAnswer]

Init ==
    /\ storage \in {"local", "s3"}
    /\ source = [n \in Names |-> None]
    /\ uploading = [n \in Names |-> None]
    /\ cache = [f \in CacheFiles |-> None]
    /\ visit = [v \in Visits |-> Idle]
    /\ visits = 0
    /\ faults = 0
    /\ uploaded = [n \in Names |-> {}]
    /\ ambiguous = {}
    /\ torn = {}

Fault ==
    /\ faults < MaxFaults
    /\ faults' = faults + 1

-----------------------------------------------------------------------------
(* The shop.                                                                *)

\* writeFileFromStream of LocalAssetStorageStrategy opens the file and then
\* fills it, that of S3AssetStorageStrategy puts an object. The AssetService
\* takes a name for which there is no file.
Upload(n, c) ==
    /\ source[n] = None
    /\ \A m \in Names : c \notin uploaded[m]
    /\ source' = [source EXCEPT ![n] = [of |-> c, whole |-> storage = "s3"]]
    /\ uploading' = [uploading EXCEPT ![n] = IF storage = "s3" THEN None ELSE c]
    /\ uploaded' = [uploaded EXCEPT ![n] = @ \cup {c}]
    /\ UNCHANGED <<storage, cache, visit, visits, faults, ambiguous, torn>>

\* The stream is closed.
UploadCloses(n) ==
    /\ uploading[n] # None
    /\ source' = [source EXCEPT ![n] = [of |-> uploading[n], whole |-> TRUE]]
    /\ uploading' = [uploading EXCEPT ![n] = None]
    /\ UNCHANGED <<storage, cache, visit, visits, faults, uploaded, ambiguous, torn>>

\* The upload breaks off; what was written stays.
UploadFails(n) ==
    /\ uploading[n] # None
    /\ Fault
    /\ uploading' = [uploading EXCEPT ![n] = None]
    /\ torn' = torn \cup {n}
    /\ UNCHANGED <<storage, source, cache, visit, visits, uploaded, ambiguous>>

\* deleteFile is called for the asset and its preview, not for what the cache
\* holds of them.
DeleteFile(n) ==
    /\ source[n] # None /\ uploading[n] = None
    /\ source' = [source EXCEPT ![n] = None]
    /\ UNCHANGED <<storage, uploading, cache, visit, visits, faults, uploaded, ambiguous, torn>>

-----------------------------------------------------------------------------
(* sendAsset and generateTransformedImage.                                  *)

Get(v, n, q) ==
    /\ visit[v].step \in {"idle", "answered"}
    /\ visits < MaxVisits
    /\ visits' = visits + 1
    /\ visit' = [visit EXCEPT ![v] = [Idle EXCEPT !.step = "send", !.name = n, !.query = q]]
    /\ ambiguous' = IF Ambiguous(q) THEN ambiguous \cup {CacheFile(n, q)} ELSE ambiguous
    /\ UNCHANGED <<storage, source, uploading, cache, faults, uploaded, torn>>

Goto(v, step) == visit' = [visit EXCEPT ![v].step = step]

Answer(v, answer) == visit' = [visit EXCEPT ![v].step = "answered", ![v].answer = answer]

Status(code) == [NoAnswer EXCEPT !.status = code]

Sent(image) == [status |-> 200, of |-> image.of, drawn |-> image.drawn, whole |-> image.whole]

\* The file a request is for: an asset or one of the cache.
Target(v) ==
    IF Plain(visit[v].query) THEN visit[v].name ELSE CacheFile(visit[v].name, visit[v].query)

Writing(f) == \E v \in Visits : visit[v].step = "writing" /\ Target(v) = f

\* A file is read that somebody writes.
Reading(f) ==
    torn' = IF Writing(f) \/ (f \in Names /\ uploading[f] # None) THEN torn \cup {f} ELSE torn

\* sendAsset: the file of that name, the asset itself or one in the cache.
SendAsset(v) ==
    LET n == visit[v].name
        q == visit[v].query
        found == IF ~Plain(q) THEN cache[CacheFile(n, q)]
                 ELSE IF source[n] = None THEN None
                 ELSE [of |-> source[n].of, drawn |-> Drawn(q), whole |-> source[n].whole]
    IN
    /\ visit[v].step = "send"
    /\ IF found = None THEN Goto(v, "original") ELSE Answer(v, Sent(found))
    /\ Reading(Target(v))
    /\ UNCHANGED <<storage, source, uploading, cache, visits, faults, uploaded, ambiguous>>

\* A slip of NotFound: the promise is rejected and nobody answers.
NobodyAnswers(v) == Goto(v, "original")

NotFound(v) == Answer(v, Status(404))

\* generateTransformedImage: the asset is read, or there is none.
ReadOriginal(v) ==
    LET file == source[visit[v].name] IN
    /\ visit[v].step = "original"
    /\ IF file = None THEN NotFound(v)
       ELSE visit' = [visit EXCEPT ![v].step = "transform", ![v].file = file]
    /\ Reading(visit[v].name)
    /\ UNCHANGED <<storage, source, uploading, cache, visits, faults, uploaded, ambiguous>>

\* A slip of Transformed: the file that was read is kept, not the image.
Untransformed(v) ==
    [of |-> visit[v].file.of, drawn |-> Drawn(NoQuery), whole |-> visit[v].file.whole]

Transformed(v) ==
    [of |-> visit[v].file.of, drawn |-> Drawn(visit[v].query), whole |-> visit[v].file.whole]

\* transformImage and toBuffer.
Transform(v) ==
    /\ visit[v].step = "transform"
    /\ IF visit[v].query.cache THEN Goto(v, "write") ELSE Answer(v, Sent(Transformed(v)))
    /\ UNCHANGED <<storage, source, uploading, cache, visits, faults, uploaded, ambiguous, torn>>

\* toBuffer rejects: 500. transformImage, which is awaited outside the try,
\* rejects: nobody answers.
TransformFails(v, inside) ==
    /\ visit[v].step = "transform"
    /\ Fault
    /\ IF inside THEN Answer(v, Status(500)) ELSE Goto(v, "hung")
    /\ UNCHANGED <<storage, source, uploading, cache, visits, uploaded, ambiguous, torn>>

\* The file a request is for becomes what it drew, or the beginning of it. A
\* request without parameters that found no file, and finds it now, writes the
\* asset itself, as it read it: also when it was deleted meanwhile.
Put(v, whole) ==
    LET image == Transformed(v) IN
    IF Plain(visit[v].query)
    THEN /\ source' = [source EXCEPT ![visit[v].name] =
                          [of |-> image.of, whole |-> whole /\ image.whole]]
         /\ UNCHANGED cache
    ELSE /\ cache' = [cache EXCEPT ![Target(v)] = [image EXCEPT !.whole = whole /\ @]]
         /\ UNCHANGED source

\* LocalAssetStorageStrategy.writeFileFromBuffer: the file is opened, which
\* empties it, and then filled.
OpenFile(v) ==
    /\ visit[v].step = "write"
    /\ storage = "local"
    /\ Put(v, FALSE)
    /\ Goto(v, "writing")
    /\ UNCHANGED <<storage, uploading, visits, faults, uploaded, ambiguous, torn>>

Stored(v) ==
    /\ Put(v, TRUE)
    /\ Answer(v, Sent(Transformed(v)))
    /\ UNCHANGED <<storage, uploading, visits, faults, uploaded, ambiguous, torn>>

FillFile(v) == visit[v].step = "writing" /\ Stored(v)

\* S3AssetStorageStrategy.writeFile: an object appears as a whole.
PutObject(v) == visit[v].step = "write" /\ storage = "s3" /\ Stored(v)

\* The disk is full, or S3 refuses: 500, and what was written stays.
WriteFails(v) ==
    /\ visit[v].step \in {"write", "writing"}
    /\ Fault
    /\ Answer(v, Status(500))
    /\ torn' = IF visit[v].step = "writing" THEN torn \cup {Target(v)} ELSE torn
    /\ UNCHANGED <<storage, source, uploading, cache, visits, uploaded, ambiguous>>

\* The server stops. A file that was being written stays as it is.
Crash ==
    /\ Fault
    /\ visit' = [v \in Visits |-> Idle]
    /\ uploading' = [n \in Names |-> None]
    /\ torn' = torn \cup {n \in Names : uploading[n] # None}
                   \cup {Target(v) : v \in {v \in Visits : visit[v].step = "writing"}}
    /\ UNCHANGED <<storage, source, cache, visits, uploaded, ambiguous>>

Serve(v) ==
    \/ SendAsset(v) \/ ReadOriginal(v) \/ Transform(v)
    \/ OpenFile(v) \/ FillFile(v) \/ PutObject(v)

Next ==
    \/ \E n \in Names : \/ DeleteFile(n) \/ UploadCloses(n) \/ UploadFails(n)
                        \/ \E c \in Contents : Upload(n, c)
    \/ \E v \in Visits :
          \/ \E n \in Names, q \in Queries : Get(v, n, q)
          \/ Serve(v) \/ WriteFails(v)
          \/ \E inside \in BOOLEAN : TransformFails(v, inside)
    \/ Crash

Spec == Init /\ [][Next]_vars

\* The server goes on with the requests it has.
Fairness == \A v \in Visits : WF_vars(Serve(v))

-----------------------------------------------------------------------------
(* Properties.                                                              *)

VisitSteps == {"idle", "send", "original", "transform", "write", "writing", "answered", "hung"}

\* Assets, cached files and requests keep their types: what is written has a
\* name and a content.
TypeOK ==
    /\ storage \in {"local", "s3"}
    /\ source \in [Names -> File \cup {None}]
    /\ uploading \in [Names -> Contents \cup {None}]
    /\ cache \in [CacheFiles -> Image \cup {None}]
    /\ \A v \in Visits :
          /\ visit[v].step \in VisitSteps
          /\ visit[v].step # "idle" => visit[v].name \in Names /\ visit[v].query \in Queries
          /\ visit[v].file \in File \cup {None}
          /\ visit[v].step \in {"transform", "write", "writing"} => visit[v].file # None
    /\ visits \in Nat /\ faults \in Nat
    /\ uploaded \in [Names -> SUBSET Contents]
    /\ ambiguous \in SUBSET CacheFiles /\ torn \in SUBSET (CacheFiles \cup Names)

\* Other assets that share the cache file of a query: with a format, those that
\* differ in their extension only.
Namesakes(n, q) == {m \in Names \ {n} : q.format # None /\ m.base = n.base}

\* An image that is sent shows the asset as it was asked for, and all of it,
\* whoever put it into the cache. The cases in which it does not are those of
\* an asset whose name was used before, of two assets that share a cache file
\* because a format took the place of their extension, of a file asked for by
\* size and preset at once or by an unknown mode, whose key does not say what
\* is drawn, and, on a local disk, of a file that is read while somebody
\* writes it or that was left half done.
SentImageIsRight ==
    \A v \in Visits :
        LET a == visit[v].answer
            n == visit[v].name
            q == visit[v].query
        IN
        (/\ visit[v].step = "answered" /\ a.status = 200
         /\ Cardinality(uploaded[n]) <= 1
         /\ \A m \in Namesakes(n, q) : uploaded[m] = {}
         /\ CacheFile(n, q) \notin ambiguous
         /\ n \notin torn /\ Target(v) \notin torn)
            => /\ a.of \in uploaded[n]
               /\ a.drawn = Drawn(q)
               /\ a.whole

\* No request waits for ever, unless the image library rejects where the code
\* does not expect it or the server stops.
RequestIsAnswered ==
    []<>(\A v \in Visits : visit[v].step \in {"answered", "hung", "idle"})

\* A deleted asset is not served any more.
DeletedAssetIsGone ==
    \A n \in Names, q \in Queries : source[n] = None => cache[CacheFile(n, q)] = None
=============================================================================
