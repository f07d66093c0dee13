--------------------------- MODULE DatabaseLifecycle ---------------------------
(***************************************************************************)
(* The archive, restore and delete operations of icpdb_runtime on one      *)
(* database, as a canister that holds the database runs them: each is one  *)
(* atomic message.  A content of the SQLite file is a version number and   *)
(* stands for its SHA-256 digest too.  An operation whose guard fails      *)
(* answers an error and changes nothing.                                   *)
(***************************************************************************)
EXTENDS Integers

CONSTANTS Blank,       \* no content: no snapshot, no complete set of chunks
          MaxVersion,  \* bound: number of SQL writes
          MaxMounts    \* mount ids of the canister, none is used twice

VARIABLES status,      \* databases.status
          snapshot,    \* databases.snapshot_hash
          image,       \* content of the SQLite file
          chunks,      \* database_restore_chunks: the file they amount to, if any
          mounts,      \* mount ids handed out, the rows of database_mount_history
          newest       \* versions written so far

database == <<status, snapshot, image, chunks, mounts, newest>>

Versions == 0..MaxVersion
DatabaseStatuses == {"hot", "archiving", "archived", "restoring", "deleted"}

Init == /\ status = "hot"
        /\ snapshot = Blank
        /\ image = 0
        /\ chunks = Blank
        /\ mounts = 1
        /\ newest = 0

(* A SQL write, which only a hot database takes.                           *)
SqlWrite == /\ status = "hot"
            /\ newest < MaxVersion
            /\ newest' = newest + 1
            /\ image' = newest'
            /\ UNCHANGED <<status, snapshot, chunks, mounts>>

begin_database_archive ==
  /\ status = "hot"
  /\ status' = "archiving"
  /\ UNCHANGED <<snapshot, image, chunks, mounts, newest>>

(* Mutant: the digest is not compared.                                     *)
AnyDigest(h) == TRUE

DigestMatches(h) == h = image

finalize_database_archive(h) ==
  /\ status = "archiving"
  /\ DigestMatches(h)
  /\ status' = "archived"
  /\ snapshot' = h
  /\ UNCHANGED <<image, chunks, mounts, newest>>

cancel_database_archive ==
  /\ status = "archiving"
  /\ status' = "hot"
  /\ UNCHANGED <<snapshot, image, chunks, mounts, newest>>

(* Mutant: mounts never run out.                                           *)
AnyMount == TRUE

FreeMount == mounts < MaxMounts

(* The database gets a mount of its own, whose file is empty.              *)
begin_database_restore(h) ==
  /\ status \in {"archived", "deleted"}
  /\ FreeMount
  /\ status' = "restoring"
  /\ snapshot' = h
  /\ image' = Blank
  /\ chunks' = Blank
  /\ mounts' = mounts + 1
  /\ UNCHANGED newest

(* The new file cannot be mounted: the session is rolled back, all but its *)
(* mount id, and the caller gets an error.                                 *)
rollback_database_restore_begin ==
  /\ status \in {"archived", "deleted"}
  /\ FreeMount
  /\ chunks' = Blank
  /\ mounts' = mounts + 1
  /\ UNCHANGED <<status, snapshot, image, newest>>

(* One chunk of the file v is stored, under its range.  With the chunks    *)
(* stored before it may complete v, or else leave a file with gaps or one  *)
(* mixed from several, whose digest is nobody's.                           *)
write_database_restore_chunk(v) ==
  /\ status = "restoring"
  /\ chunks' \in {v, Blank}
  /\ UNCHANGED <<status, snapshot, image, mounts, newest>>

(* restore_chunks_cover_expected_size, and then the digest of what they    *)
(* cover.                                                                  *)
Covered == chunks # Blank
Verified == chunks = snapshot

finalize_database_restore ==
  /\ status = "restoring"
  /\ Covered
  /\ Verified
  /\ status' = "hot"
  /\ image' = chunks
  /\ chunks' = Blank
  /\ UNCHANGED <<snapshot, mounts, newest>>

delete_database ==
  /\ status \in {"hot", "archived"}
  /\ status' = "deleted"
  /\ UNCHANGED <<snapshot, image, chunks, mounts, newest>>
================================================================================
