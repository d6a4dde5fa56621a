------------------------------- MODULE Upload -------------------------------
(***************************************************************************)
(* Sending a file: queries.c, from send_file_part_on_answer to             *)
(* do_send_photo.                                                          *)
(*                                                                         *)
(* A file is sent part by part, each after the answer to the one before,   *)
(* and then a message that names the parts.  Its size is the one that      *)
(* fstat told before the first part; what read returns later is what the   *)
(* file is then.  Neither the upload nor the message of a secret chat is   *)
(* in the log.                                                             *)
(*                                                                         *)
(* The bytes of a file are counted in units; Block units are what AES      *)
(* needs.  A query is answered once, as Rpc promises, or dies with the     *)
(* process, carried out or not.  The server is external.                   *)
(***************************************************************************)
EXTENDS Integers, Sequences, FiniteSetsExt, SequencesExt, Functions

CONSTANTS
  FileSizes,   \* of files; 0: there is none, or it is empty
  Types,       \* media_type: "photo", "audio", "video", "document"
  Block,       \* 16
  PartSizes,   \* 1 << 10, doubled again and again, up to 512 << 10
  ManyParts,   \* 3000
  BigFile,     \* 16 << 20
  MaxSends,    \* bound: calls of do_send_photo
  MaxUpFaults  \* bound: files that change, errors, crashes

ASSUME UploadAssumption ==
  /\ FileSizes \subseteq Nat /\ FileSizes # {} /\ IsFiniteSet(FileSizes)
  /\ {Block, ManyParts, BigFile} \subseteq Nat \ {0}
  /\ PartSizes \subseteq Nat \ {0} /\ \A p \in PartSizes : p % Block = 0
  /\ {MaxSends, MaxUpFaults} \subseteq Nat

Sends == 1 .. MaxSends
Padding == 0
LongestFile == Max(FileSizes) + 1   \* bound: a file grows by one unit

VARIABLES
  sends,      \* of do_send_photo
  F,          \* the struct send_file that each of them made
  readable,   \* how much can be read of the file that each was given
  query,      \* the query pending for each
  done,       \* the calls whose query the server has carried out
  stored,     \* the server's parts of each call's file
  thumbs,     \* the calls whose thumbnail the server has
  messages,   \* the calls whose message the server has
  known,      \* the calls whose message the client has
  cur_uploading_bytes,
  cur_uploaded_bytes,
  up_faults,
  (* For the properties only. *)
  odd,        \* calls with a directory, or a file that changed after fstat
  aborted,    \* calls whose send_part failed an assertion
  dead        \* calls that were refused, or whose process has ended

up_vars == <<sends, F, readable, query, done, stored, thumbs, messages, known,
             cur_uploading_bytes, cur_uploaded_bytes, up_faults, odd, aborted, dead>>
server == <<done, stored, thumbs, messages>>
client == <<F, query, cur_uploading_bytes, cur_uploaded_bytes>>

NoFile == [state |-> "none", encr |-> FALSE]
SendFile == [state : {"open", "closed", "freed"}, size : 1 .. LongestFile,
             offset : 0 .. LongestFile, part_num : 0 .. ManyParts + 1,
             part_size : Nat, media_type : Types, encr : BOOLEAN]

FilePart == [n : 0 .. ManyParts, units : Seq(0 .. LongestFile),
             total : 0 .. ManyParts + 1]
NoQuery == [kind |-> "none"]
Query == [kind : {"thumb", "media", "encrypted_file"}]
           \cup [kind : {"part"}, part : FilePart]

UpTypeOK ==
  /\ sends \in 0 .. MaxSends /\ up_faults \in 0 .. MaxUpFaults
  /\ F \in [Sends -> SendFile \cup {NoFile}]
  /\ readable \in [Sends -> 0 .. LongestFile]
  /\ query \in [Sends -> Query \cup {NoQuery}] /\ stored \in [Sends -> SUBSET FilePart]
  /\ \A set \in {done, thumbs, messages, known, odd, aborted, dead} :
       set \subseteq Sends
  /\ {cur_uploading_bytes, cur_uploaded_bytes} \subseteq Nat

UpInit ==
  /\ sends = 0 /\ F = [s \in Sends |-> NoFile] /\ readable = [s \in Sends |-> 0]
  /\ query = [s \in Sends |-> NoQuery] /\ done = {}
  /\ stored = [s \in Sends |-> {}] /\ thumbs = {} /\ messages = {} /\ known = {}
  /\ cur_uploading_bytes = 0 /\ cur_uploaded_bytes = 0 /\ up_faults = 0
  /\ odd = {} /\ aborted = {} /\ dead = {}

UpFault == up_faults < MaxUpFaults /\ up_faults' = up_faults + 1
Secret == {s \in Sends : F[s].encr}

-----------------------------------------------------------------------------
Ceil(x, y) == (x + y - 1) \div y

(* Seeded fault: rounded down, a file needs one part too many. *)
part_size_down(size) == Min({p \in PartSizes : p >= size \div ManyParts})

(* The smallest that does with ManyParts parts, if there is one.           *)
part_size(size) == Min({p \in PartSizes : p >= Ceil(size, ManyParts)})

thumbed(type, encr) == type \in {"video", "document"} /\ ~encr

(* read, of a file that has len units by now.                              *)
read(g, len) == [i \in 1 .. Min({g.part_size, len - g.offset}) |-> g.offset + i]

(* Random bytes up to a whole block, for AES.                              *)
Padded(g, x) ==
  IF g.encr THEN x \o [i \in 1 .. (-Len(x)) % Block |-> Padding] ELSE x

(* upload.saveBigFilePart tells how many parts there will be.              *)
total(g) == IF g.size < BigFile THEN 0 ELSE Ceil(g.size, g.part_size)

(* The assertions of send_part on what read returned.                      *)
Asserted(g, x) ==
  /\ x # <<>>
  /\ g.encr /\ Len(x) % Block # 0 => g.offset + Len(x) = g.size
  /\ g.offset + Len(x) # g.size => Len(Padded(g, x)) = g.part_size

(* The process ends: the log knows nothing of uploads, nor of the messages *)
(* of secret chats; of the others the next start fetches the difference.   *)
UpEnded ==
  /\ dead' = dead \cup {s \in Sends : F[s] # NoFile}
  /\ F' = [s \in Sends |-> IF F[s] = NoFile THEN NoFile
                             ELSE [F[s] EXCEPT !.state = "freed"]]
  /\ query' = [s \in Sends |-> NoQuery]
  /\ known' = messages \ Secret
  /\ cur_uploading_bytes' = 0 /\ cur_uploaded_bytes' = 0

AtEnd(g, x) == g.offset + Len(x) = g.size

send_one_part(s, g, len) ==
  LET x == read(g, len)
  IN IF ~Asserted(g, x)
     THEN UpEnded /\ aborted' = aborted \cup {s}
     ELSE /\ F' = [F EXCEPT ![s] =
               [g EXCEPT !.offset = @ + Len(x), !.part_num = @ + 1,
                         !.state = IF AtEnd(g, x) THEN "closed" ELSE "open"]]
          /\ query' = [query EXCEPT ![s] =
               [kind |-> "part",
                part |-> [n |-> g.part_num, units |-> Padded(g, x),
                          total |-> total(g)]]]
          /\ cur_uploading_bytes' =
               cur_uploading_bytes + IF g.part_num = 0 THEN g.size ELSE 0
          /\ cur_uploaded_bytes' = cur_uploaded_bytes + Len(x)
          /\ UNCHANGED <<known, aborted, dead>>

(* The message that names the parts; the struct is freed.                  *)
out_message(s, g) ==
  /\ F' = [F EXCEPT ![s].state = "freed"]
  /\ query' = [query EXCEPT ![s] =
       [kind |-> IF g.encr THEN "encrypted_file" ELSE "media"]]
  /\ UNCHANGED <<known, aborted, dead>>

(* Seeded faults: the counters are left alone; the answer to the last part *)
(* is the end.                                                             *)
send_message_uncounted(s, g) ==
  out_message(s, g) /\ UNCHANGED <<cur_uploading_bytes, cur_uploaded_bytes>>
send_message_never(s, g) ==
  /\ query' = [query EXCEPT ![s] = NoQuery]
  /\ UNCHANGED <<F, known, aborted, dead, cur_uploading_bytes, cur_uploaded_bytes>>

send_message(s, g) ==
  /\ out_message(s, g)
  /\ cur_uploading_bytes' = cur_uploading_bytes - g.size
  /\ cur_uploaded_bytes' = cur_uploaded_bytes - g.size

send_part(s, g, len) ==
  IF g.state = "open" THEN send_one_part(s, g, len) ELSE send_message(s, g)

send_file_thumb(s, g) ==
  /\ F' = [F EXCEPT ![s] = g] /\ query' = [query EXCEPT ![s] = [kind |-> "thumb"]]
  /\ UNCHANGED <<cur_uploading_bytes, cur_uploaded_bytes, known, aborted, dead>>

(* A directory opens like a file, and has a size, but nothing to read.     *)
do_send_photo(type, encr, size, directory) ==
  /\ sends < MaxSends /\ sends' = sends + 1
  /\ LET s == sends + 1
         g == [state |-> "open", size |-> size, offset |-> 0, part_num |-> 0,
               part_size |-> part_size(size), media_type |-> type, encr |-> encr]
         Sent == size > 0 /\ \E p \in PartSizes : p >= Ceil(size, ManyParts)
     IN /\ readable' = [readable EXCEPT ![s] = IF directory THEN 0 ELSE size]
        /\ odd' = IF directory THEN odd \cup {s} ELSE odd
        /\ \/ ~Sent /\ UNCHANGED <<client, known, aborted, dead>>
           \/ Sent /\ thumbed(type, encr) /\ send_file_thumb(s, g)
           \/ Sent /\ ~thumbed(type, encr) /\ send_part(s, g, readable'[s])
  /\ UNCHANGED <<server, up_faults>>

-----------------------------------------------------------------------------
(* The server carries out a query, once.                                   *)
carry_out(s) ==
  /\ query[s] # NoQuery /\ s \notin done /\ done' = done \cup {s}
  /\ LET kind == query[s].kind
     IN /\ thumbs' = IF kind = "thumb" THEN thumbs \cup {s} ELSE thumbs
        /\ stored' = IF kind = "part"
                     THEN [stored EXCEPT ![s] = @ \cup {query[s].part}] ELSE stored
        /\ messages' = IF kind \in {"media", "encrypted_file"}
                       THEN messages \cup {s} ELSE messages
  /\ UNCHANGED <<sends, client, readable, known, up_faults, odd, aborted, dead>>

(* Its answer comes while the process that asked is still there.           *)
Answered(s, kinds) ==
  s \in done /\ query[s].kind \in kinds /\ done' = done \ {s}

send_file_part_on_answer(s) ==
  /\ Answered(s, {"thumb", "part"}) /\ send_part(s, F[s], readable[s])
  /\ UNCHANGED <<sends, readable, stored, thumbs, messages, up_faults, odd>>

(* Seeded fault: the message of a secret chat is not inserted.             *)
plain_file_on_answer(s) ==
  /\ Answered(s, {"media", "encrypted_file"})
  /\ query' = [query EXCEPT ![s] = NoQuery] /\ known' = (known \cup {s}) \ Secret
  /\ UNCHANGED <<sends, F, readable, stored, thumbs, messages, cur_uploading_bytes,
                 cur_uploaded_bytes, up_faults, odd, aborted, dead>>

(* send_file_on_answer has the message from the answer; the other inserts  *)
(* the one made by send_part.                                              *)
send_file_on_answer(s) ==
  /\ Answered(s, {"media", "encrypted_file"})
  /\ query' = [query EXCEPT ![s] = NoQuery] /\ known' = known \cup {s}
  /\ UNCHANGED <<sends, F, readable, stored, thumbs, messages, cur_uploading_bytes,
                 cur_uploaded_bytes, up_faults, odd, aborted, dead>>

(* None of the three methods has an on_error: the struct stays for ever.   *)
up_refused(s) ==
  /\ query[s] # NoQuery /\ s \notin done /\ UpFault
  /\ query' = [query EXCEPT ![s] = NoQuery] /\ dead' = dead \cup {s}
  /\ UNCHANGED <<sends, F, readable, server, known, cur_uploading_bytes,
                 cur_uploaded_bytes, odd, aborted>>

up_crash ==
  /\ UpFault /\ UpEnded /\ UNCHANGED <<sends, readable, server, odd, aborted>>

file_changes(s) ==
  /\ F[s].state = "open" /\ s \notin odd /\ UpFault /\ odd' = odd \cup {s}
  /\ \E len \in {readable[s] - 1, readable[s] + 1} :
       readable' = [readable EXCEPT ![s] = len]
  /\ UNCHANGED <<sends, client, server, known, aborted, dead>>

UpNext ==
  \/ \E type \in Types, size \in FileSizes, encr, directory \in BOOLEAN :
       do_send_photo(type, encr, size, directory)
  \/ \E s \in Sends :
       \/ carry_out(s) \/ up_refused(s) \/ file_changes(s)
       \/ send_file_part_on_answer(s) \/ send_file_on_answer(s)
  \/ up_crash

(* A server that answers, and a query layer that sends until it does.      *)
UpFairness ==
  \A s \in Sends : /\ WF_up_vars(carry_out(s))
                   /\ WF_up_vars(send_file_part_on_answer(s))
                   /\ WF_up_vars(send_file_on_answer(s))

UpSpec == UpInit /\ [][UpNext]_up_vars /\ UpFairness

-----------------------------------------------------------------------------
(* The assertions of send_part hold, except for a directory and for a file *)
(* that changed after fstat.                                               *)
AbortsAreOdd == aborted \subseteq odd

(* The parts of a whole file: those that it counts, not more than the      *)
(* server takes, in whole blocks if it is secret, and as many as a big     *)
(* file's parts said.                                                      *)
Units(g) == [i \in 1 .. g.size + (IF g.encr THEN (-g.size) % Block ELSE 0) |->
               IF i > g.size THEN Padding ELSE i]
WholeIn(g, parts) ==
  /\ g.part_num <= ManyParts /\ {p.n : p \in parts} = 0 .. g.part_num - 1
  /\ \A p \in parts :
       /\ p.units = SubSeq(Units(g), p.n * g.part_size + 1,
                           Min({(p.n + 1) * g.part_size, Len(Units(g))}))
       /\ g.size >= BigFile => p.total = g.part_num

(* When its message is sent the server has the whole file, and the         *)
(* thumbnail.                                                              *)
SentIsWhole ==
  \A s \in Sends : query[s].kind \in {"media", "encrypted_file"} \/ s \in messages =>
    /\ WholeIn(F[s], stored[s])
    /\ F[s].media_type \in {"video", "document"} /\ ~F[s].encr => s \in thumbs

(* The counters are the sums over the uploads begun and not finished, with *)
(* those that were refused.                                                *)
UpCountersAddUp ==
  LET Counted(s) == F[s].state \in {"open", "closed"}
  IN /\ cur_uploading_bytes = SumFunction([s \in Sends |->
          IF Counted(s) /\ F[s].part_num > 0 THEN F[s].size ELSE 0])
     /\ cur_uploaded_bytes = SumFunction([s \in Sends |->
          IF Counted(s) THEN F[s].offset ELSE 0])

(* UploadsCounted: the counters of the prompt, and the ends of the process *)
(* that the assertions of send_part bring about.                           *)
UploadsCounted == UpTypeOK /\ UpCountersAddUp /\ AbortsAreOdd

(* What was sent is known when its answer is in, and ever after, unless it *)
(* is a secret chat's and the process has ended; what is known was sent.   *)
SentIsKnown ==
  /\ known \subseteq messages
  /\ \A s \in messages : query[s] = NoQuery => s \in known \cup (Secret \cap dead)

(* An upload ends with its message known, or is refused, or dies.          *)
UploadsEnd ==
  \A s \in Sends : F[s] # NoFile ~> s \in known \cup dead \cup aborted

=============================================================================
