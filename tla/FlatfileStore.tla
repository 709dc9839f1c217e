---------------------------- MODULE FlatfileStore ----------------------------
(* The local copy of one daily flat file (trainer/providers/                   *)
(* massive_flatfiles.py): ensure_day() lists the bucket, verifies what is      *)
(* there or downloads, and then writes the metadata in a second file;          *)
(* cache_status() and iter_bars() read the copy later.  The provider may       *)
(* publish the day anew, the disk may damage the copy, and the process may     *)
(* stop between the two files.                                                 *)
EXTENDS Integers, FiniteSets

CONSTANTS
    Versions,       \* what the provider may publish for the day
    SizeOf,         \* the size of a version
    MaxUpsets       \* bound: publications, damages and stops together

ASSUME SizeAssumption == SizeOf \in [Versions -> Nat] /\ "NONE" \notin Versions

VARIABLES
    listed,         \* the versions the bucket lists for the day
    archive,        \* the local .csv.gz
    metadata,       \* the local .metadata.json: the digest and size it records
    fetch,          \* ensure_day() of the running process
    blind,          \* history: damage has struck a copy that had no metadata yet
    upsets
storeVars == <<listed, archive, metadata, fetch, blind, upsets>>

-----------------------------------------------------------------------------
\* a file is a version and what has become of it: a damaged copy keeps its size,
\* and its header may still be readable
Copies == [of: Versions, damage: {"none", "body", "header"}]
Nothing == [of |-> "NONE", damage |-> "none"]
Whole(v) == [of |-> v, damage |-> "none"]
IsFile(copy) == copy # Nothing

NoFetch == [stage |-> "idle", target |-> "NONE", part |-> Nothing]

StoreInit ==
    /\ listed \in {{v} : v \in Versions}
    /\ archive = Nothing /\ metadata = Nothing
    /\ fetch = NoFetch
    /\ blind = FALSE /\ upsets = 0

\* _validate_csv_gzip(): it reads the header and one row
Readable(copy) == copy.damage # "header"

\* _sha256(): two files have one digest iff they are the same copy
Digest(copy) == copy

\* mutant: the recorded size is compared, not the digest
SizeMatches(copy) == metadata # Nothing => SizeOf[metadata.of] = SizeOf[copy.of]

\* the metadata, where there is any, is that of the copy
MetadataMatches(copy) == metadata # Nothing => metadata = Digest(copy)

\* _verified_cached(): with no metadata the size and a readable header will do
Verified(copy, v) ==
    IsFile(copy) /\ SizeOf[copy.of] = SizeOf[v] /\ Readable(copy) /\ MetadataMatches(copy)

\* cache_status() and what iter_bars() goes by
CacheStatus ==
    CASE ~IsFile(archive) -> "MISSING"
      [] IsFile(archive) /\ Readable(archive) /\ MetadataMatches(archive) -> "PRESENT"
      [] OTHER -> "CORRUPT"

-----------------------------------------------------------------------------
(* ensure_day().                                                               *)

\* resolve_object(): exactly one object, else an error and nothing happens
ResolveObject(v) ==
    /\ fetch.stage = "idle" /\ listed = {v}
    /\ fetch' = [NoFetch EXCEPT !.stage = "verify", !.target = v]
    /\ UNCHANGED <<listed, archive, metadata, blind, upsets>>

\* the copy is good: the metadata is written anew
KeepCopy ==
    /\ fetch.stage = "verify" /\ Verified(archive, fetch.target)
    /\ metadata' = Digest(archive)
    /\ fetch' = NoFetch
    /\ UNCHANGED <<listed, archive, blind, upsets>>

\* download_file() into the .part file: what is listed by now, or an error
Download(v) ==
    /\ fetch.stage = "verify" /\ ~Verified(archive, fetch.target)
    /\ v \in listed
    /\ fetch' = [fetch EXCEPT !.stage = "part", !.part = Whole(v)]
    /\ UNCHANGED <<listed, archive, metadata, blind, upsets>>

\* any exception: the .part file goes, the copy stays
DownloadFails ==
    /\ \/ fetch.stage = "verify" /\ ~Verified(archive, fetch.target)
       \/ fetch.stage = "part" /\ SizeOf[fetch.part.of] # SizeOf[fetch.target]
    /\ fetch' = NoFetch
    /\ UNCHANGED <<listed, archive, metadata, blind, upsets>>

Replace ==
    /\ fetch.stage = "part" /\ SizeOf[fetch.part.of] = SizeOf[fetch.target]
    /\ archive' = fetch.part
    /\ fetch' = [fetch EXCEPT !.stage = "replaced"]
    /\ UNCHANGED <<listed, metadata, blind, upsets>>

\* the digest is that of the .part file
WriteMetadata ==
    /\ fetch.stage = "replaced"
    /\ metadata' = Digest(fetch.part)
    /\ fetch' = NoFetch
    /\ UNCHANGED <<listed, archive, blind, upsets>>

-----------------------------------------------------------------------------
Upset == upsets < MaxUpsets /\ upsets' = upsets + 1

\* the provider replaces the file, or lists two for a while
Publish(vs) ==
    /\ Upset
    /\ vs # listed /\ listed' = vs
    /\ UNCHANGED <<archive, metadata, fetch, blind>>

\* the disk damages the copy
Damage(where) ==
    /\ Upset
    /\ IsFile(archive) /\ archive.damage = "none"
    /\ archive' = [archive EXCEPT !.damage = where]
    /\ blind' = (blind \/ metadata = Nothing)
    /\ UNCHANGED <<listed, metadata, fetch>>

\* the process stops; a .part file is overwritten by the next download
StoreStops ==
    /\ Upset
    /\ fetch.stage # "idle" /\ fetch' = NoFetch
    /\ UNCHANGED <<listed, archive, metadata, blind>>

StoreNext ==
    \/ \E v \in Versions : ResolveObject(v) \/ Download(v)
    \/ KeepCopy \/ DownloadFails \/ Replace \/ WriteMetadata \/ StoreStops
    \/ \E vs \in {listed \cup {v} : v \in Versions} \cup {{v} : v \in Versions} : Publish(vs)
    \/ \E where \in {"body", "header"} : Damage(where)

StoreSpec == StoreInit /\ [][StoreNext]_storeVars

-----------------------------------------------------------------------------
(* Properties.                                                                 *)

\* The type invariant.
StoreTypeOK ==
    /\ listed \in SUBSET Versions /\ listed # {}
    /\ archive \in Copies \cup {Nothing} /\ metadata \in Copies \cup {Nothing}
    /\ fetch \in [stage: {"idle", "verify", "part", "replaced"},
                  target: Versions \cup {"NONE"}, part: Copies \cup {Nothing}]
    /\ blind \in BOOLEAN /\ upsets \in Nat

\* A copy that is damaged once its metadata was written is never taken for good
\* again, by iter_bars() or by ensure_day(), whatever is published, downloaded or
\* interrupted afterwards (README.md:157: a file is reused "when their S3 size and
\* local checksum still match").
DamageIsNoticed ==
    (archive.damage # "none" /\ ~blind) =>
        /\ CacheStatus = "CORRUPT"
        /\ \A v \in Versions : ~Verified(archive, v)
=============================================================================
