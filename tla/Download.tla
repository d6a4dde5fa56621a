------------------------------ MODULE Download ------------------------------
(***************************************************************************)
(* Loading a file from the server into the downloads directory: queries.c, *)
(* from do_load_photo to do_load_encr_video, load_next_part,               *)
(* download_on_answer and end_load.                                        *)
(*                                                                         *)
(* The directory outlives the process.  load_next_part takes the length of *)
(* what it finds there for the offset to go on from, and the file is opened*)
(* for writing at its beginning, whatever that offset is; nothing says that*)
(* a file is being loaded already.                                         *)
(*                                                                         *)
(* Bytes are counted in units, and a unit is its position in the file the  *)
(* server has.  A query is answered once, as Rpc promises, or dies with the*)
(* process.  The server is external: it returns the part it was asked for, *)
(* or what there is of it, or an error.                                    *)
(***************************************************************************)
EXTENDS Integers, Sequences, FiniteSetsExt, SequencesExt

CONSTANTS
  Media,         \* what can be loaded
  size,          \* what the message says of its size, photo_size included
  length,        \* what the server has of it
  encrypted,     \* media of secret chats
  PartSize,      \* 1 << 14
  MaxLoads,      \* bound: calls of do_load_*
  MaxFaults      \* bound: errors, full disks, crashes

ASSUME DownloadAssumption ==
  /\ size \in [Media -> Nat \ {0}] /\ length \in [Media -> Nat \ {0}]
  /\ IsFiniteSet(Media) /\ Media # {} /\ encrypted \subseteq Media
  /\ PartSize \in Nat \ {0} /\ {MaxLoads, MaxFaults} \subseteq Nat

Loads == 1 .. MaxLoads
Closed == 0            \* D->fd == -1; an open fd is its position plus 1
Garbage == 0

(* No file gets longer than this; Broken: D->iv belongs to no offset.      *)
Longest == Max({size[m] : m \in Media} \cup {length[m] : m \in Media}) + PartSize
Broken == Longest + 1

VARIABLES
  D,          \* the struct downloads, by the call that made them
  calls,      \* how many there were
  disk,       \* the files of the downloads directory; no file is an empty one
  said,       \* media reported as "Done" or "Already downloaded"
  cur_downloading_bytes,
  cur_downloaded_bytes,
  faults,
  (* For the properties only. *)
  resumed,    \* media for which an offset was taken from a file
  leaked,     \* structs whose query was refused: nobody has them any more
  excess      \* bytes that the counters got and that will not be taken back

vars == <<D, calls, disk, said, cur_downloading_bytes, cur_downloaded_bytes,
          faults, resumed, leaked, excess>>

NoDownload == [of |-> "nothing"]
Download == [of : Media, offset : 0 .. Longest, fd : 0 .. Longest + 1, iv : 0 .. Broken]

TypeOK ==
  /\ calls \in 0 .. MaxLoads /\ faults \in 0 .. MaxFaults
  /\ D \in [Loads -> Download \cup {NoDownload}]
  /\ disk \in [Media -> Seq(0 .. Longest)]
  /\ \A m \in Media : Len(disk[m]) <= Longest
  /\ said \subseteq Media /\ resumed \subseteq Media /\ leaked \subseteq Loads
  /\ {cur_downloading_bytes, cur_downloaded_bytes} \subseteq Nat
  /\ excess \in [ing : Nat, ed : Nat]

Init ==
  /\ D = [l \in Loads |-> NoDownload] /\ calls = 0
  /\ disk = [m \in Media |-> <<>>] /\ said = {}
  /\ cur_downloading_bytes = 0 /\ cur_downloaded_bytes = 0 /\ faults = 0
  /\ resumed = {} /\ leaked = {} /\ excess = [ing |-> 0, ed |-> 0]

Active == {l \in Loads : D[l] # NoDownload} \ leaked
Fault == faults < MaxFaults /\ faults' = faults + 1

-----------------------------------------------------------------------------
(* Seeded fault: the counters are left alone. *)
end_load_uncounted(l, m, ing, ed) ==
  /\ D' = [D EXCEPT ![l] = NoDownload] /\ said' = said \cup {m}
  /\ cur_downloading_bytes' = ing /\ cur_downloaded_bytes' = ed

(* ing and ed: what the two counters have come to.                         *)
end_load(l, m, ing, ed) ==
  /\ D' = [D EXCEPT ![l] = NoDownload] /\ said' = said \cup {m}
  /\ cur_downloading_bytes' = ing - size[m] /\ cur_downloaded_bytes' = ed - size[m]

(* load_next_part of the struct d that l has or gets, when the files are f *)
(* and cur_downloaded_bytes has come to ed; again: not for the first time. *)
(* Without an offset it looks at the file.                                 *)
load_next_part(l, d, f, ed, again) ==
  LET there == Len(f[d.of])
      found == IF there > 0 THEN resumed \cup {d.of} ELSE resumed
      more == IF again THEN size[d.of] ELSE 0
  IN \/ /\ d.offset > 0
        /\ D' = [D EXCEPT ![l] = d] /\ cur_downloaded_bytes' = ed
        /\ UNCHANGED <<said, cur_downloading_bytes, resumed, excess>>
     \/ /\ d.offset = 0 /\ there >= size[d.of]
        /\ end_load(l, d.of, cur_downloading_bytes + size[d.of], ed + there)
        /\ excess' = [ing |-> excess.ing + more, ed |-> excess.ed + there - size[d.of]]
        /\ UNCHANGED resumed
     \/ /\ d.offset = 0 /\ there < size[d.of]
        /\ D' = [D EXCEPT ![l] = [d EXCEPT !.offset = there]]
        /\ cur_downloading_bytes' = cur_downloading_bytes + size[d.of]
        /\ cur_downloaded_bytes' = ed + there
        /\ resumed' = found /\ excess' = [excess EXCEPT !.ing = @ + more]
        /\ UNCHANGED said

(* do_load_video, do_load_audio, do_load_document, do_load_photo_size for  *)
(* the largest size of a photo and for thumbnails (one that names no data  *)
(* centre cannot be loaded and is none of Media) and, with a copy of the   *)
(* message's iv, do_load_encr_video.                                       *)
do_load(m) ==
  /\ calls < MaxLoads /\ calls' = calls + 1
  /\ load_next_part(calls + 1, [of |-> m, offset |-> 0, fd |-> Closed, iv |-> 0],
                    disk, cur_downloaded_bytes, FALSE)
  /\ UNCHANGED <<disk, faults, leaked>>

(* The part the server has at an offset. *)
Part(d) == [i \in 1 .. Min({PartSize, length[d.of] - d.offset}) |-> d.offset + i]

(* The chaining of AES-IGE: what is not decrypted right after what comes   *)
(* before it is garbage, and so is all that follows.                       *)
Decrypted(d, part) ==
  IF d.of \notin encrypted \/ d.iv = d.offset THEN part
  ELSE [i \in 1 .. Len(part) |-> Garbage]
NextIv(d, part) == IF d.iv = d.offset THEN d.offset + Len(part) ELSE Broken

(* A secret chat's file is stored in whole blocks, and cut to its size.    *)
Clipped(d, part) ==
  LET room == size[d.of] - d.offset
  IN IF d.of \in encrypted /\ Len(part) > room
     THEN SubSeq(Decrypted(d, part), 1, room) ELSE Decrypted(d, part)

(* open without O_TRUNC or O_APPEND, at the first answer.                  *)
Position(d) == IF d.fd = Closed THEN 0 ELSE d.fd - 1

(* Seeded fault: what is behind the part is cut off.                       *)
write_cut(file, at, s) ==
  [i \in 1 .. at + Len(s) |-> IF i > at THEN s[i - at] ELSE file[i]]

write(file, at, s) ==
  [i \in 1 .. Max({Len(file), at + Len(s)}) |->
     IF i > at /\ i <= at + Len(s) THEN s[i - at] ELSE file[i]]

(* Seeded fault: a part that is not full is taken for the last one.        *)
EndsAtShortPart(d, len) == len < PartSize
(* Seeded fault: when it has all it asks once more, and so for ever.       *)
EndsTooLate(d, len) == d.offset + len > size[d.of]
Ends(d, len) == d.offset + len >= size[d.of]

download_on_answer(l, part) ==
  /\ l \in Active
  /\ LET d == D[l]
         bytes == Clipped(d, part)
         ed == cur_downloaded_bytes + Len(part)
         f == [disk EXCEPT ![d.of] = write(@, Position(d), bytes)]
         next == [d EXCEPT !.offset = @ + Len(bytes), !.iv = NextIv(d, part),
                           !.fd = Position(d) + Len(bytes) + 1]
         over == Len(part) - Len(bytes)
     IN /\ disk' = f
        /\ \/ /\ Ends(d, Len(bytes))
              /\ end_load(l, d.of, cur_downloading_bytes, ed)
              /\ excess' = [excess EXCEPT !.ed = @ + over + next.offset - size[d.of]]
              /\ UNCHANGED resumed
           \/ /\ ~Ends(d, Len(bytes))
              /\ load_next_part(l, next, f, ed, TRUE)
  /\ UNCHANGED <<calls, leaked>>

answered(l) == download_on_answer(l, Part(D[l])) /\ UNCHANGED faults
answered_with_nothing(l) == download_on_answer(l, <<>>) /\ Fault

(* download_methods has no on_error.                                       *)
refused(l) ==
  /\ l \in Active /\ Fault /\ leaked' = leaked \cup {l}
  /\ UNCHANGED <<D, calls, disk, said, cur_downloading_bytes,
                 cur_downloaded_bytes, resumed, excess>>

(* The process ends, and with it all that is not a file.                   *)
Ended ==
  /\ D' = [l \in Loads |-> NoDownload] /\ leaked' = {}
  /\ cur_downloading_bytes' = 0 /\ cur_downloaded_bytes' = 0
  /\ excess' = [ing |-> 0, ed |-> 0]
  /\ UNCHANGED <<calls, said, resumed>>

crash == Fault /\ Ended /\ UNCHANGED disk

(* The assertion on what write returns, after n units have been written.   *)
disk_full(l, n) ==
  /\ l \in Active /\ Fault
  /\ LET bytes == Clipped(D[l], Part(D[l]))
     IN /\ n < Len(bytes)
        /\ disk' = [disk EXCEPT ![D[l].of] =
                      write(@, Position(D[l]), SubSeq(bytes, 1, n))]
  /\ Ended

Next ==
  \/ \E m \in Media : do_load(m)
  \/ \E l \in Loads : answered(l) \/ answered_with_nothing(l) \/ refused(l)
  \/ \E l \in Loads, n \in 0 .. PartSize - 1 : disk_full(l, n)
  \/ crash

(* The query layer keeps sending a query until it is answered.             *)
Fairness == \A l \in Loads : WF_vars(answered(l))

Spec == Init /\ [][Next]_vars /\ Fairness

-----------------------------------------------------------------------------
(* A file has its bytes in their places, unless a download of it took an   *)
(* offset from a file that was there: two downloads that both begin before *)
(* the first byte is there do one another no harm.                         *)
OnlyResumedAreWrong ==
  \A m \in Media \ resumed : disk[m] = [i \in 1 .. Len(disk[m]) |-> i]

(* What is reported as loaded is whole, with the same exception.           *)
SaidIsWhole ==
  \A m \in said \ resumed :
    Len(disk[m]) >= IF size[m] <= length[m] THEN size[m] ELSE length[m]

(* end_load says "Done", and load_next_part "Already downloaded".          *)
DoneIsDone ==
  \A m \in said : /\ Len(disk[m]) >= size[m]
                  /\ \A i \in 1 .. size[m] : disk[m][i] = i

(* The counters are the sums over the downloads that are in progress or were*)
(* refused, and what is counted twice or too much: the size again when the *)
(* first part was empty, the padding of a secret file, and what a file has *)
(* over its size.                                                          *)
CountersAddUp ==
  /\ cur_downloading_bytes
       = excess.ing + SumFunction([l \in Loads |->
                        IF D[l] = NoDownload THEN 0 ELSE size[D[l].of]])
  /\ cur_downloaded_bytes
       = excess.ed + SumFunction([l \in Loads |->
                       IF D[l] = NoDownload THEN 0 ELSE D[l].offset])

(* DownloadsCounted: the counters of the prompt, of every download begun,  *)
(* refused or ended.                                                       *)
DownloadsCounted == TypeOK /\ CountersAddUp

(* FilesRight: what is on disk, and what is reported, is what was asked,   *)
(* unless a download was resumed.                                          *)
FilesRight == OnlyResumedAreWrong /\ SaidIsWhole

(* A whole file stays whole whatever is loaded later, with the same        *)
(* exception.                                                              *)
WholeStays ==
  [][\A m \in Media \ resumed' :
       Len(disk[m]) >= size[m] => IsPrefix(disk[m], disk'[m])]_vars

(* A download ends, or is refused, or dies with the process, unless the    *)
(* message says that the file is longer than it is: then it asks for the   *)
(* part behind the end for ever.                                           *)
DownloadsEnd ==
  \A l \in Loads :
    (D[l] # NoDownload /\ size[D[l].of] <= length[D[l].of])
      ~> (D[l] = NoDownload \/ l \in leaked)

=============================================================================
