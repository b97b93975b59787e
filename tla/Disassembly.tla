------------------------------ MODULE Disassembly -------------------------------
(***************************************************************************)
(* The disassembler driver of libdisasm and of its program x86dis: a list  *)
(* of requests, kept in the order of their offsets, is carried out on one  *)
(* image.  A request prints one instruction, a range of bytes in sequence  *)
(* (x86_disasm_range), or what execution can reach from an entry point     *)
(* (x86_disasm_forward), which calls itself for the target of every jump.  *)
(* The resolver of x86dis follows a jump once: it keeps the addresses of   *)
(* the jumps it has seen in a sorted list whose head is address 0.  The    *)
(* image is a mapped file.  A range may go on behind it: what is there can *)
(* be read up to the end of its last page, and further if something else   *)
(* is mapped next to it.                                                   *)
(***************************************************************************)
EXTENDS Ia32, SequencesExt

CONSTANTS
  Images,        \* the images disassembled: sequences of bytes
  Page,          \* the size of a page
  Tails,         \* what may be mapped after the last page of the image
  Base,          \* the address of the first byte of the image
  Offsets,       \* offsets of requests
  Lengths,       \* lengths of range requests
  MaxRequests    \* a bound: requests on the command line

ASSUME DisassemblyAssumption ==
  /\ Base \in Nat /\ Page \in Nat \ {0}
  /\ MaxRequests \in Nat
  /\ Offsets \subseteq Nat /\ Lengths \subseteq Nat
  /\ \A bytes \in Images \cup Tails : bytes \in Seq(0..255)

VARIABLES
  image,      \* the bytes of the file
  tail,       \* the bytes after its last page, if any are mapped
  phase,      \* "options" while these are read, "acting" once requests are
              \* served, "killed" by SIGSEGV, "undefined" after an overflow
  requests,   \* requests still to be carried out, sorted
  current,    \* the request being carried out, or NoRequest
  served,     \* number of requests taken from the list
  bytes,      \* bytes a range request has gone through
  frames,     \* active calls of x86_disasm_forward, innermost last
  seen,       \* rva_list: addresses of jumps the resolver was called for
  printed     \* instructions passed to the callback, with the request

vars ==
  << image, tail, phase, requests, current, served, bytes, frames, seen, printed >>

\* A file is mapped in whole pages, with zeros after its last byte.
Mapped(img) == [k \in 1..(Page * ((Len(img) + Page - 1) \div Page)) |-> At(img, k)]

\* do_request: a range is not longer than the image, wherever it starts.
Clamped(len, img) == IF len > Len(img) THEN Len(img) ELSE len

\* Where the buffers end that x86_disasm is called with: x86_disasm_range has
\* one that ends where the range does.
Stops(img) ==
  {Len(img)} \cup {offset + Clamped(len, img) : offset \in Offsets, len \in Lengths}

\* What x86_disasm finds at each offset of these buffers.
Decoded == [img \in Images |-> [after \in Tails |->
              [end \in Stops(img) |-> [offset \in 0..end |->
                 x86_disasm(Mapped(img) \o after, end, offset)]]]]
Decode(end, offset) ==
  IF offset > end THEN NoInsn ELSE Decoded[image][tail][end][offset]

\* Does x86_disasm copy a byte there that is not mapped?
Unmapped(end, offset) ==
  \E o \in offset..(end - 1) :
    o - offset < MAX_INSTRUCTION_SIZE /\ o >= Len(Mapped(image)) + Len(tail)

Types == << "addr", "range", "entry" >>
Rank(type) == CHOOSE k \in 1..3 : Types[k] = type
NoRequest == [type |-> "none", offset |-> 0, len |-> 0]

\* What is asked for may lie outside the image.
Requests ==
  [type : {"addr", "entry"}, offset : Offsets, len : {0}]
    \cup [type : {"range"}, offset : Offsets, len : Lengths]

(***************************************************************************)
(* add_request: before the first request of a larger offset; next to one   *)
(* of the same offset according to their types.                            *)
(***************************************************************************)
\* Fault: a new request goes before the first of the same offset.
AddRegardless(list, r) ==
  LET stops == {i \in DOMAIN list : list[i].offset >= r.offset}
  IN  IF stops = {} THEN Append(list, r) ELSE InsertAt(list, Min(stops), r)

add_request(list, r) ==
  LET stops == {i \in DOMAIN list : list[i].offset >= r.offset}
      i == CHOOSE j \in stops : \A k \in stops : j <= k
      before == list[i].offset > r.offset \/ Rank(list[i].type) > Rank(r.type)
  IN  IF stops = {} THEN Append(list, r)
      ELSE InsertAt(list, IF before THEN i ELSE i + 1, r)

(***************************************************************************)
(* The resolver of x86dis: where a jump goes, if it is to be followed.     *)
(***************************************************************************)
Signed(value, bits) == IF value >= 2^(bits - 1) THEN value - 2^bits ELSE value
Word(p) == At(image, p) + 256 * At(image, p + 1)

\* The target of the jump insn at offset; -1 when it is not in the code.
Target(insn, offset) ==
  LET p == offset + insn.opcode + 1
      next == Base + offset + insn.size
      o == insn.row.ops[1]
      width == insn.size - insn.opcode
  IN  CASE o.method = "J" /\ width = 1 -> next + Signed(At(image, p), 8)
        [] o.method = "J" /\ width = 2 -> next + Signed(Word(p), 16)
        [] o.method = "J" /\ width = 4 -> next + Word(p) + 65536 * Signed(Word(p + 2), 16)
        [] o.method = "A" -> Word(p)
        [] OTHER -> -1

Follows(insn) == insn.row.name \in {"jmp", "jcc", "call"}
DoesntReturn(insn) == insn.row.name \in {"jmp", "ret"}

\* Fault: the resolver does not remember the jumps it has seen.
rva_list_forgets(rva) == seen

rva_list_add(rva) == seen \cup {rva}

\* Fault: the search stops at the first larger address in the list.
IsNewBeyond(rva) == \A other \in seen : rva > other

\* rva 0 is the head of the list: it is never new.
IsNew(rva) == rva \notin seen

\* Offsets are unsigned: a target below Base is a huge offset.
NextOffset(insn, offset) == Target(insn, offset) - Base
InBuffer(offset) == offset \in 0..Len(image) - 1

---------------------------------------------------------------------------------
Init ==
  /\ image \in Images /\ tail \in Tails
  /\ phase = "options"
  /\ requests = << >>
  /\ current = NoRequest
  /\ served = 0
  /\ bytes = 0
  /\ frames = << >>
  /\ seen = {0}
  /\ printed = << >>

\* The options of the command line are read before anything is disassembled.
AddRequest(r) ==
  /\ phase = "options" /\ Len(requests) < MaxRequests
  /\ requests' = add_request(requests, r)
  /\ UNCHANGED << image, tail, phase, current, served, bytes, frames, seen, printed >>

Act ==
  /\ phase = "options" /\ requests # << >>
  /\ phase' = "acting"
  /\ UNCHANGED << image, tail, requests, current, served, bytes, frames, seen, printed >>

Call(offset) == [start |-> offset, bytes |-> 0, cont |-> TRUE]

\* act_on_mmap: the next request of the list.
StartRequest ==
  /\ phase = "acting" /\ current = NoRequest /\ requests # << >>
  /\ current' = Head(requests)
  /\ requests' = Tail(requests)
  /\ served' = served + 1
  /\ bytes' = 0
  /\ frames' = IF Head(requests).type = "entry" THEN << Call(Head(requests).offset) >>
                                                ELSE << >>
  /\ UNCHANGED << image, tail, phase, seen, printed >>

Callback(insn, offset) ==
  printed' = IF insn.size = 0 THEN printed
             ELSE Append(printed, [offset |-> offset, insn |-> insn, request |-> served,
                             type |-> current.type])

EndRequest == current' = NoRequest

\* do_request, req_addr: one instruction, when the offset is not out of bounds.
AddressInsn == Decode(Len(image), current.offset)

DisasmAddress ==
  /\ phase = "acting" /\ current.type = "addr" /\ ~TooLong(AddressInsn)
  /\ IF current.offset > Len(image) THEN UNCHANGED printed
     ELSE Callback(AddressInsn, current.offset)
  /\ EndRequest
  /\ UNCHANGED << image, tail, phase, requests, served, bytes, frames, seen >>

\* Fault: an undecodable byte is not skipped alone, its neighbour goes with it.
AdvanceTwo(insn) == IF insn.size = 0 THEN 2 ELSE insn.size

\* Fault: an undecodable byte is not skipped at all.
AdvanceNone(insn) == insn.size

\* Bytes that start no instruction are skipped one by one.
Advance(insn) == IF insn.size = 0 THEN 1 ELSE insn.size

\* x86_disasm_range: the buffer ends where the range does.
RangeLen == Clamped(current.len, image)
RangeStop == current.offset + RangeLen
RangeInsn == Decode(RangeStop, current.offset + bytes)
RangeGoesOn == phase = "acting" /\ current.type = "range" /\ bytes < RangeLen
Readable == ~Unmapped(RangeStop, current.offset + bytes)

DisasmRange ==
  /\ RangeGoesOn /\ Readable /\ ~TooLong(RangeInsn)
  /\ Callback(RangeInsn, current.offset + bytes)
  /\ bytes' = bytes + Advance(RangeInsn)
  /\ UNCHANGED << image, tail, phase, requests, current, served, frames, seen >>

\* SIGSEGV when the bytes of an instruction are copied.
RangeKilled ==
  /\ RangeGoesOn /\ ~Readable
  /\ phase' = "killed"
  /\ UNCHANGED << image, tail, requests, current, served, bytes, frames, seen, printed >>

RangeEnds ==
  /\ phase = "acting" /\ current.type = "range" /\ bytes >= RangeLen
  /\ EndRequest
  /\ UNCHANGED << image, tail, phase, requests, served, bytes, frames, seen, printed >>

\* x86_disasm_forward, one turn of its loop: one instruction, and a call for the
\* target of a jump; the loop stops after an instruction that does not return.
ForwardGoesOn ==
  /\ phase = "acting" /\ frames # << >>
  /\ Last(frames).cont /\ Last(frames).bytes < Len(image)
ForwardOffset == Last(frames).start + Last(frames).bytes
ForwardInsn == Decode(Len(image), ForwardOffset)

DisasmForward ==
  /\ ForwardGoesOn /\ ~TooLong(ForwardInsn)
  /\ LET n == Len(frames)
         offset == ForwardOffset
         insn == ForwardInsn
         after == [frames EXCEPT ![n].bytes = @ + Advance(insn),
                                 ![n].cont = ~DoesntReturn(insn)]
         resolve == Follows(insn) /\ IsNew(Base + offset)
         into == NextOffset(insn, offset)
     IN  /\ Callback(insn, offset)
         /\ seen' = IF Follows(insn) THEN rva_list_add(Base + offset) ELSE seen
         /\ frames' = IF resolve /\ Target(insn, offset) # -1 /\ InBuffer(into)
                        THEN Append(after, Call(into)) ELSE after
  /\ UNCHANGED << image, tail, phase, requests, current, served, bytes >>

ForwardReturns ==
  /\ phase = "acting" /\ frames # << >>
  /\ ~Last(frames).cont \/ Last(frames).bytes >= Len(image)
  /\ frames' = Front(frames)
  /\ current' = IF Len(frames) = 1 THEN NoRequest ELSE current
  /\ UNCHANGED << image, tail, phase, requests, served, bytes, seen, printed >>

\* x86_disasm copies more bytes of an instruction than it has room for.
DisasmOverflows ==
  /\ phase = "acting"
  /\ \/ current.type = "addr" /\ TooLong(AddressInsn)
     \/ RangeGoesOn /\ Readable /\ TooLong(RangeInsn)
     \/ ForwardGoesOn /\ TooLong(ForwardInsn)
  /\ phase' = "undefined"
  /\ UNCHANGED << image, tail, requests, current, served, bytes, frames, seen, printed >>

Next ==
  \/ \E r \in Requests : AddRequest(r)
  \/ Act
  \/ StartRequest
  \/ DisasmAddress
  \/ DisasmRange
  \/ RangeKilled
  \/ RangeEnds
  \/ DisasmForward
  \/ ForwardReturns
  \/ DisasmOverflows

Spec == Init /\ [][Next]_vars

\* The program is sequential: it goes on while it can.
FairSpec == Spec /\ WF_vars(Next)

Finished == phase = "acting" /\ current = NoRequest /\ requests = << >>

---------------------------------------------------------------------------------
(***************************************************************************)
(* Properties                                                              *)
(***************************************************************************)
Ends(p) == p.offset + p.insn.size
Of(r) == {k \in DOMAIN printed : printed[k].request = r}

\* TypeOK: the shape of the state; the calls of x86_disasm_forward never go
\* deeper than one for the entry and one for each jump of the image.
TypeOK ==
  /\ phase \in {"options", "acting", "killed", "undefined"}
  /\ requests \in Seq(Requests) /\ Len(requests) <= MaxRequests
  /\ current \in Requests \cup {NoRequest}
  /\ served \in 0..MaxRequests
  /\ bytes \in 0..Len(image)
  /\ seen \subseteq {0} \cup Base..(Base + Len(image))
  /\ Len(frames) <= 1 + Cardinality(seen)
  /\ \A k \in DOMAIN frames : frames[k].bytes \in 0..Len(image)

\* InOrder: the requests are served by increasing offset, whatever order the
\* options came in (x86dis.c:208-225); when the service begins, the first of those
\* for one offset is of the type that comes first (x86dis.c:213-220).  The others
\* may be out of order, although requests for one offset are said to "follow
\* precedence of request types" (x86dis.c:214): each is compared with the first only.
InOrder ==
  /\ \A i, j \in DOMAIN requests : i < j => requests[i].offset <= requests[j].offset
  /\ current # NoRequest =>
       \A i \in DOMAIN requests : current.offset <= requests[i].offset
  /\ phase = "options" =>
       \A i, j \in DOMAIN requests :
         i < j /\ requests[j].offset = requests[i].offset
           /\ (\A h \in 1..(i - 1) : requests[h].offset < requests[i].offset)
         => Rank(requests[i].type) <= Rank(requests[j].type)

\* RangeTiles: the instructions printed for a range follow each other without
\* overlap and stay inside it, wherever it lies, and a byte between two of them
\* starts no instruction: "Sequential disassembly of a range of bytes" (libdis.h:569).
RangeTiles ==
  current.type = "range" =>
    /\ bytes <= RangeLen
    /\ \A k \in Of(served) : /\ printed[k].offset >= current.offset
                             /\ Ends(printed[k]) <= current.offset + bytes
    /\ \A j, k \in Of(served) : j < k => Ends(printed[j]) <= printed[k].offset
    /\ \A b \in current.offset..(current.offset + bytes - 1) :
         \/ \E k \in Of(served) : b \in printed[k].offset..(Ends(printed[k]) - 1)
         \/ Decode(RangeStop, b).size = 0

\* StaysInside: no instruction is printed for an address or an entry that ends
\* after the image, whatever jumps lead to: the check of x86_disasm.c:61 is the
\* only guard, since x86_disasm_forward counts the bytes from its start and not
\* from the start of the buffer.
StaysInside ==
  \A k \in DOMAIN printed : printed[k].type # "range" => Ends(printed[k]) <= Len(image)

\* InsideImage: the copy that x86_disasm decodes "helps prevent buffer overruns at
\* the end of a file" (x86_disasm.c:44-45), so that nothing after the image is
\* printed, for a range neither.  But do_request clamps the length of a range
\* and not its end (x86dis.c:263), and x86_disasm_range takes offset + len for the
\* length of the buffer (x86_disasm.c:80).
InsideImage == \A k \in DOMAIN printed : Ends(printed[k]) <= Len(image)

\* JumpsFollowed: at the end, the direct target of every jump that an entry
\* request printed has been disassembled, if it is in the image and holds an
\* instruction (a jump at address 0 is lost: see IsNew).
JumpsFollowed ==
  Finished => \A k \in DOMAIN printed :
    LET p == printed[k]
        t == NextOffset(p.insn, p.offset)
    IN  (Follows(p.insn) /\ p.type = "entry" /\ Base + p.offset # 0
           /\ Target(p.insn, p.offset) # -1 /\ InBuffer(t)
           /\ Decode(Len(image), t).size > 0)
        => \E j \in DOMAIN printed : printed[j].offset = t /\ printed[j].type = "entry"

\* Finishes: with the resolver of x86dis no image is disassembled for ever,
\* loops included: it "allows the caller to prevent endless loops" (libdis.h:544).
Finishes == phase = "acting" ~> Finished \/ phase \in {"killed", "undefined"}
=================================================================================
