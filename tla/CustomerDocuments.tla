-------------------------- MODULE CustomerDocuments --------------------------
(***************************************************************************)
(* Documents founders give to a customer (services/documents.py): the row  *)
(* is flushed, the object is put into the bucket, the row is committed; a  *)
(* failure in between rolls the row back and tries to delete the object.   *)
(* The bucket is external (document_storage.py calls it).                   *)
(***************************************************************************)
EXTENDS Integers, FiniteSets

CONSTANTS Papers, Visitors, NoPaper

ASSUME DocumentsAssumption == NoPaper \notin Papers

VARIABLES
    paper,     \* [Papers -> the committed status, "none" before]
    upload,    \* [Papers -> where its upload stands]
    bucket,    \* the documents whose object exists
    visit,     \* [Visitors -> the request of a reader]
    shown,     \* history: what was shown or sent to a reader
    logged     \* the committed access records: <<visitor, document>>

documentVars == <<paper, upload, bucket, visit, shown, logged>>

NoVisit == [step |-> "idle", paper |-> NoPaper, content |-> FALSE, founder |-> FALSE]

PaperStatuses == {"none", "active", "archived", "revoked"}

DocumentsTypeOK ==
    /\ paper \in [Papers -> PaperStatuses]
    /\ upload \in [Papers -> {"none", "flushed", "stored", "failed", "ended"}]
    /\ bucket \subseteq Papers
    /\ visit \in [Visitors -> [step : {"idle", "fetch", "log", "answer"}, paper : Papers \cup {NoPaper},
                               content : BOOLEAN, founder : BOOLEAN]]
    /\ shown \subseteq Visitors \X Papers /\ logged \subseteq Visitors \X Papers

DocumentsInit ==
    /\ paper = [d \in Papers |-> "none"] /\ upload = [d \in Papers |-> "none"]
    /\ bucket = {}
    /\ visit = [v \in Visitors |-> NoVisit]
    /\ shown = {} /\ logged = {}

-----------------------------------------------------------------------------
(* Upload.                                                                  *)

Uploading(d, from, to) == upload[d] = from /\ upload' = [upload EXCEPT ![d] = to]

\* The row is written with the key "pending", and keys are unique: an upload waits
\* here until no other one is under way.
FlushRow(d) ==
    /\ \A e \in Papers : upload[e] \notin {"flushed", "stored"}
    /\ Uploading(d, "none", "flushed")
    /\ UNCHANGED <<paper, bucket, visit, shown, logged>>

Put(d) ==
    /\ Uploading(d, "flushed", "stored")
    /\ bucket' = bucket \cup {d}
    /\ UNCHANGED <<paper, visit, shown, logged>>

\* A put that raises may have stored the object.
PutFails(d) ==
    /\ Uploading(d, "flushed", "failed")
    /\ bucket' \in {bucket, bucket \cup {d}}
    /\ UNCHANGED <<paper, visit, shown, logged>>

CommitUpload(d) ==
    /\ Uploading(d, "stored", "ended")
    /\ paper' = [paper EXCEPT ![d] = "active"]
    /\ UNCHANGED <<bucket, visit, shown, logged>>

CommitUploadFails(d) ==
    /\ Uploading(d, "stored", "failed")
    /\ UNCHANGED <<paper, bucket, visit, shown, logged>>

\* The row was rolled back; the deletion of the object may fail unnoticed.
CleanUp(d) ==
    /\ Uploading(d, "failed", "ended")
    /\ bucket' \in {bucket, bucket \ {d}}
    /\ UNCHANGED <<paper, visit, shown, logged>>

\* The process dies: the row is gone, an object that was put stays.
UploadDies(d) ==
    /\ upload[d] \in {"flushed", "stored", "failed"}
    /\ upload' = [upload EXCEPT ![d] = "ended"]
    /\ UNCHANGED <<paper, bucket, visit, shown, logged>>

-----------------------------------------------------------------------------
(* Status changes and reading.                                              *)

\* Any committed document, whatever its status; the last write stays.
ChangeStatus(d, status) ==
    /\ paper[d] # "none"
    /\ paper' = [paper EXCEPT ![d] = status]
    /\ UNCHANGED <<upload, bucket, visit, shown, logged>>

\* A customer finds active documents only, a founder every document.
Visible(d, founder) == IF founder THEN paper[d] # "none" ELSE paper[d] = "active"

Look(v, d, content, founder) ==
    /\ visit[v].step = "idle" /\ Visible(d, founder)
    /\ visit' = [visit EXCEPT ![v] = [step |-> IF content THEN "fetch" ELSE "log", paper |-> d,
                                      content |-> content, founder |-> founder]]
    /\ UNCHANGED <<paper, upload, bucket, shown, logged>>

InBucket(d) == d \in bucket

\* Only a download asks the bucket; a missing object is an error.
Fetch(v) ==
    /\ visit[v].step = "fetch"
    /\ visit' = [visit EXCEPT ![v] = IF InBucket(visit[v].paper) THEN [@ EXCEPT !.step = "log"]
                                     ELSE NoVisit]
    /\ UNCHANGED <<paper, upload, bucket, shown, logged>>

\* The access record is committed before the answer is built.
RecordAccess(v) ==
    /\ visit[v].step = "log"
    /\ logged' = logged \cup {<<v, visit[v].paper>>}
    /\ visit' = [visit EXCEPT ![v].step = "answer"]
    /\ UNCHANGED <<paper, upload, bucket, shown>>

Answer(v) ==
    /\ visit[v].step = "answer"
    /\ shown' = shown \cup {<<v, visit[v].paper>>}
    /\ visit' = [visit EXCEPT ![v] = NoVisit]
    /\ UNCHANGED <<paper, upload, bucket, logged>>

\* The bucket or the commit fails, or the process dies.
VisitFails(v) ==
    /\ visit[v].step # "idle"
    /\ visit' = [visit EXCEPT ![v] = NoVisit]
    /\ UNCHANGED <<paper, upload, bucket, shown, logged>>

DocumentsNext ==
    \/ \E d \in Papers :
          \/ FlushRow(d) \/ Put(d) \/ PutFails(d) \/ CommitUpload(d) \/ CommitUploadFails(d)
          \/ CleanUp(d) \/ UploadDies(d)
          \/ \E status \in {"archived", "revoked"} : ChangeStatus(d, status)
    \/ \E v \in Visitors :
          \/ \E d \in Papers, content, founder \in BOOLEAN : Look(v, d, content, founder)
          \/ Fetch(v) \/ RecordAccess(v) \/ Answer(v) \/ VisitFails(v)

DocumentsSpec == DocumentsInit /\ [][DocumentsNext]_documentVars

-----------------------------------------------------------------------------
(* Properties.                                                              *)

\* A document anybody can find has its object, however uploads fail or die.
FoundDocumentsHaveTheirObject == \A d \in Papers : paper[d] # "none" => d \in bucket

\* Nobody is shown a document whose access record is not committed.
ShownIsLogged == shown \subseteq logged

DocumentsSafe == DocumentsTypeOK /\ FoundDocumentsHaveTheirObject /\ ShownIsLogged
=============================================================================
