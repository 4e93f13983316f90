---------------------------- MODULE ObjectStore ----------------------------
(* The object storage lab (01/12): single and multipart uploads, parts sent one *)
(* after the other or in parallel, an upload interrupted in the middle, the     *)
(* presigned URL and the listing.  The content of an object is the sequence of  *)
(* its parts; the ETag is a function of it.                                     *)
EXTENDS Integers, Sequences, FiniteSets

CONSTANTS
  ObjectKeys,   \* the keys the phases write
  Bodies,       \* the contents: sequences of parts; one part is a single upload
  MaxUploads,   \* bound: multipart uploads begun
  UrlExpiry,    \* expires, in ticks
  MaxTime       \* bound: the clock

VARIABLES
  bucket,       \* key -> content, on the keys that have an object
  uploads,      \* the multipart uploads: [key, body, parallel, parts, state]
  urls,         \* the presigned URLs handed out: <<key, expiry>>
  clock

vars == <<bucket, uploads, urls, clock>>

Init == bucket = <<>> /\ uploads = <<>> /\ urls = {} /\ clock = 0

Store(k, body) == [x \in DOMAIN bucket \cup {k} |-> IF x = k THEN body ELSE bucket[x]]

\* put_object of one part: the object is there at once.
PutSmall(k, body) ==
  /\ Len(body) = 1
  /\ bucket' = Store(k, body)
  /\ UNCHANGED <<uploads, urls, clock>>

\* InitiateMultipartUpload.
Initiate(k, body, parallel) ==
  /\ Len(body) > 1 /\ Len(uploads) < MaxUploads
  /\ uploads' = Append(uploads, [key |-> k, body |-> body, parallel |-> parallel,
                                 parts |-> <<>>, state |-> "open"])
  /\ UNCHANGED <<bucket, urls, clock>>

Sent(u) == {u.parts[i][1] : i \in DOMAIN u.parts}

\* UploadPart: in order with num_parallel_uploads=1, else in any order.
UploadPart(i, n) ==
  /\ uploads[i].state = "open" /\ n \in DOMAIN uploads[i].body \ Sent(uploads[i])
  /\ uploads[i].parallel \/ Sent(uploads[i]) = 1..(n - 1)
  /\ uploads' = [uploads EXCEPT ![i].parts = Append(@, <<n, uploads[i].body[n]>>)]
  /\ UNCHANGED <<bucket, urls, clock>>

\* Mutation: the parts are put together in the order they arrived.
AssembleAsArrived(u) == [n \in DOMAIN u.body |-> u.parts[n][2]]

\* CompleteMultipartUpload puts the parts together in part_number order.
Assemble(u) ==
  [n \in DOMAIN u.body |-> u.parts[CHOOSE i \in DOMAIN u.parts : u.parts[i][1] = n][2]]

Complete(i) ==
  /\ uploads[i].state = "open" /\ Sent(uploads[i]) = DOMAIN uploads[i].body
  /\ uploads' = [uploads EXCEPT ![i].state = "complete"]
  /\ bucket' = Store(uploads[i].key, Assemble(uploads[i]))
  /\ UNCHANGED <<urls, clock>>

\* UploadInterrupted: the parts sent so far stay, and no object appears.
Interrupt(i) ==
  /\ uploads[i].state = "open" /\ uploads[i].parts # <<>>
  /\ uploads' = [uploads EXCEPT ![i].state = "zombie"]
  /\ UNCHANGED <<bucket, urls, clock>>

\* presigned_get_object: the URL holds the key and when it expires.
Presign(k) ==
  /\ k \in DOMAIN bucket
  /\ urls' = urls \cup {<<k, clock + UrlExpiry>>}
  /\ UNCHANGED <<bucket, uploads, clock>>

Valid(url) == clock <= url[2] /\ url[1] \in DOMAIN bucket

Tick == clock < MaxTime /\ clock' = clock + 1 /\ UNCHANGED <<bucket, uploads, urls>>

\* list_objects shows objects, never parts.
Listing == DOMAIN bucket

Next ==
  \/ \E k \in ObjectKeys : Presign(k) \/ \E b \in Bodies : PutSmall(k, b) \/ \E p \in BOOLEAN : Initiate(k, b, p)
  \/ \E i \in DOMAIN uploads : Complete(i) \/ Interrupt(i) \/ \E n \in DOMAIN uploads[i].body : UploadPart(i, n)
  \/ Tick
  \/ (clock = MaxTime /\ UNCHANGED vars)

Spec == Init /\ [][Next]_vars

-------------------------------------------------------------------------------
TypeOK ==
  /\ DOMAIN bucket \subseteq ObjectKeys /\ Len(uploads) <= MaxUploads
  /\ \A i \in DOMAIN uploads : uploads[i].state \in {"open", "complete", "zombie"}

\* Whatever order the parts arrive in and whatever is interrupted or overlaps:
\* an object is one of the contents written, whole and in order; an interrupted
\* upload keeps parts and shows no object by itself; a URL never outlives its
\* expiry.
ObjectsAreWhole ==
  /\ \A k \in Listing : bucket[k] \in Bodies
  /\ \A k \in Listing : Len(bucket[k]) > 1 =>
       \E i \in DOMAIN uploads : uploads[i].state = "complete" /\ uploads[i].key = k
                                  /\ uploads[i].body = bucket[k]
  /\ \A url \in urls : Valid(url) => clock <= url[2] /\ url[2] <= clock + UrlExpiry

=============================================================================
