------------------------------ MODULE LineReader -------------------------------
(***************************************************************************)
(* get_next_line: reads a file in pieces and hands it out in lines; what   *)
(* was read beyond a line waits in a table with an entry per descriptor.   *)
(* Texts hold no NUL.  A step is what happens between two tests of the     *)
(* loop that reads; reads may be short or fail, allocations may fail.      *)
(***************************************************************************)
EXTENDS Objects

CONSTANTS
  BUFFER_SIZE, OPEN_MAX,
  FDs,    \* the descriptors lines are asked of
  Texts   \* what a file may hold: sequences of characters and NL

NL == "\n"

ASSUME LineReaderAssumption ==
  /\ BUFFER_SIZE \in Nat \ {0} /\ OPEN_MAX \in Nat \ {0}
  /\ FDs \subseteq Int
  /\ Texts \subseteq Seq(STRING)

VARIABLES
  file,     \* what is in the file behind a descriptor
  taken,    \* how much of it was read
  heap,     \* the live buffers
  temp,     \* the table: what is kept for each descriptor
  held,     \* the lines the caller has and did not free
  given,    \* all that was handed out of each file, in lines
  troubled, \* the descriptors a call for which met a failure
  pc, fd, str, res  \* the call that is being made and its locals

vars == <<file, taken, heap, temp, held, given, troubled, pc, fd, str, res>>

Files == FDs \cap 0 .. OPEN_MAX - 1

NewLineAt(text) == SelectInSeq(text, LAMBDA c : c = NL)

(* Seeded fault: the newline is taken along. *)
order_nl_Newline(h, p) ==
  LET at == NewLineAt(h[p])
  IN IF at = 0
     THEN {Outcome(free(h, p), NULL)}
     ELSE {Outcome(free(r.heap, p), r.ptr)
             : r \in malloc(h, SubSeq(h[p], at, Len(h[p])))}

(* What follows the first line, in a buffer of its own.  When that cannot  *)
(* be had it is lost, like when there is nothing.                          *)
order_nl(h, p) ==
  LET at == NewLineAt(h[p])
  IN IF at = 0
     THEN {Outcome(free(h, p), NULL)}
     ELSE {Outcome(free(r.heap, p), r.ptr)
             : r \in malloc(h, SubSeq(h[p], at + 1, Len(h[p])))}

(* Seeded fault: the line goes on to the last newline there is. *)
substr_nl_Last(h, p) ==
  LET at == SelectLastInSeq(h[p], LAMBDA c : c = NL)
  IN IF h[p] = <<>>
     THEN {Outcome(h, NULL)}
     ELSE malloc(h, IF at = 0 THEN h[p] ELSE SubSeq(h[p], 1, at))

(* The first line.                                                         *)
substr_nl(h, p) ==
  LET at == NewLineAt(h[p])
  IN IF h[p] = <<>>
     THEN {Outcome(h, NULL)}
     ELSE malloc(h, IF at = 0 THEN h[p] ELSE SubSeq(h[p], 1, at))

strjoin_nl(h, s1, s2) ==
  UNION {IF s.ptr = NULL
         THEN {s}
         ELSE {Outcome(free(r.heap, s.ptr), r.ptr)
                 : r \in malloc(s.heap, s.heap[s.ptr] \o s2)}
           : s \in IF s1 = NULL THEN malloc(h, <<>>) ELSE {Outcome(h, s1)}}

(* The call returns, with nothing kept for the descriptor but kept.        *)
Return(h, kept) ==
  /\ heap' = h
  /\ temp' = [temp EXCEPT ![fd] = kept]
  /\ pc' = "idle"
  /\ str' = NULL /\ res' = NULL

(* A call that returns NULL; failed is whether something went wrong.       *)
ReturnNull(h, failed) ==
  /\ Return(h, NULL)
  /\ troubled' = troubled \cup (IF failed THEN {fd} ELSE {})
  /\ UNCHANGED <<held, given>>

------------------------------------------------------------------------------
Init ==
  /\ file \in [Files -> Texts]
  /\ taken = [d \in Files |-> 0]
  /\ heap = <<>>
  /\ temp = [d \in 0 .. OPEN_MAX - 1 |-> NULL]
  /\ held = {} /\ troubled = {}
  /\ given = [d \in Files |-> <<>>]
  /\ pc = "idle" /\ fd = 0 /\ str = NULL /\ res = NULL

(* The table has no entry for OPEN_MAX, which passes the test as well.     *)
Call(d) ==
  /\ pc = "idle" /\ d >= 0 /\ d <= OPEN_MAX
  /\ pc' = "entered" /\ fd' = d
  /\ UNCHANGED <<file, taken, heap, temp, held, given, troubled, str, res>>

(* read_nl takes a buffer to read into.                                    *)
Enter ==
  /\ pc = "entered"
  /\ \E r \in malloc(heap, <<>>) :
       IF r.ptr = NULL
       THEN ReturnNull(free(heap, temp[fd]), TRUE)
       ELSE /\ heap' = r.heap /\ res' = r.ptr /\ str' = temp[fd]
            /\ pc' = "reading"
            /\ UNCHANGED <<temp, held, given, troubled>>
  /\ UNCHANGED <<file, taken, fd>>

HasLine == str # NULL /\ NewLineAt(heap[str]) # 0

ReadFails ==
  /\ pc = "reading" /\ ~HasLine
  /\ ReturnNull(free(free(heap, res), str), TRUE)
  /\ UNCHANGED <<file, taken, fd>>

(* Seeded fault: the buffer lives on when the text cannot be joined. *)
ReadSome_KeepBuffer ==
  /\ pc = "reading" /\ ~HasLine
  /\ \E n \in 1 .. Min({BUFFER_SIZE, Len(file[fd]) - taken[fd]}) :
       /\ taken' = [taken EXCEPT ![fd] = @ + n]
       /\ \E r \in strjoin_nl(heap, str,
                              SubSeq(file[fd], taken[fd] + 1, taken[fd] + n)) :
            IF r.ptr = NULL
            THEN ReturnNull(r.heap, TRUE)
            ELSE /\ heap' = r.heap /\ str' = r.ptr
                 /\ UNCHANGED <<temp, held, given, troubled, pc, res>>
  /\ UNCHANGED <<file, fd>>

(* Seeded fault: the end of the file is read like any piece of it. *)
ReadSome_Nothing ==
  /\ pc = "reading" /\ ~HasLine
  /\ \E n \in 0 .. Min({BUFFER_SIZE, Len(file[fd]) - taken[fd]}) :
       /\ taken' = [taken EXCEPT ![fd] = @ + n]
       /\ \E r \in strjoin_nl(heap, str,
                              SubSeq(file[fd], taken[fd] + 1, taken[fd] + n)) :
            IF r.ptr = NULL
            THEN ReturnNull(free(r.heap, res), TRUE)
            ELSE /\ heap' = r.heap /\ str' = r.ptr
                 /\ UNCHANGED <<temp, held, given, troubled, pc, res>>
  /\ UNCHANGED <<file, fd>>

ReadSome ==
  /\ pc = "reading" /\ ~HasLine
  /\ \E n \in 1 .. Min({BUFFER_SIZE, Len(file[fd]) - taken[fd]}) :
       /\ taken' = [taken EXCEPT ![fd] = @ + n]
       /\ \E r \in strjoin_nl(heap, str,
                              SubSeq(file[fd], taken[fd] + 1, taken[fd] + n)) :
            IF r.ptr = NULL
            THEN ReturnNull(free(r.heap, res), TRUE)
            ELSE /\ heap' = r.heap /\ str' = r.ptr
                 /\ UNCHANGED <<temp, held, given, troubled, pc, res>>
  /\ UNCHANGED <<file, fd>>

(* There is a line, or read finds the end of the file.                     *)
StopReading ==
  /\ pc = "reading"
  /\ HasLine \/ taken[fd] = Len(file[fd])
  /\ heap' = free(heap, res)
  /\ pc' = "line"
  /\ UNCHANGED <<file, taken, temp, held, given, troubled, fd, str, res>>

(* The line goes to the caller, the rest of the text back to the table.    *)
GiveLine ==
  /\ pc = "line"
  /\ IF str = NULL
     THEN ReturnNull(heap, FALSE)
     ELSE \E line \in substr_nl(heap, str) :
       IF line.ptr = NULL
       THEN ReturnNull(free(heap, str), heap[str] # <<>>)
       ELSE \E rest \in order_nl(line.heap, str) :
              /\ Return(rest.heap, rest.ptr)
              /\ held' = held \cup {line.ptr}
              /\ given' = [given EXCEPT ![fd] = @ \o line.heap[line.ptr]]
              /\ troubled' = troubled \cup
                   (IF rest.ptr = NULL /\ NewLineAt(heap[str]) # 0 THEN {fd} ELSE {})
  /\ UNCHANGED <<file, taken, fd>>

(* The caller is done with a line.                                         *)
FreeLine(line) ==
  /\ pc = "idle"
  /\ held' = held \ {line}
  /\ heap' = free(heap, line)
  /\ UNCHANGED <<file, taken, temp, given, troubled, pc, fd, str, res>>

Inside == Enter \/ ReadFails \/ ReadSome \/ StopReading \/ GiveLine

Next ==
  \/ \E d \in FDs : Call(d)
  \/ Inside
  \/ \E line \in held : FreeLine(line)

Spec == Init /\ [][Next]_vars /\ WF_vars(Inside)

------------------------------------------------------------------------------
(* Properties.                                                             *)

(* Between calls a buffer is either a line the caller has or kept in the   *)
(* table, for one descriptor; nothing is freed twice.  Whatever failed.    *)
BuffersHaveOwners ==
  pc = "idle" =>
    LET kept == {d \in DOMAIN temp : temp[d] # NULL} IN
    /\ DOMAIN heap = held \cup {temp[d] : d \in kept}
    /\ \A d \in kept : temp[d] \notin held
    /\ \A d, e \in kept : temp[d] = temp[e] => d = e

(* Unless a call for it met a failure, a file's text is all there: the     *)
(* lines handed out, followed by what is kept for its descriptor, are what *)
(* was read of it, whatever happens with other descriptors.                *)
NothingLost ==
  \A d \in Files : pc = "idle" /\ d \notin troubled =>
    given[d] \o (IF temp[d] = NULL THEN <<>> ELSE heap[temp[d]])
      = SubSeq(file[d], 1, taken[d])

(* A line ends with the first newline in it, or with the file.             *)
LinesAreLines ==
  [][\A line \in held' \ held :
       LET text == heap'[line] IN
       \/ NewLineAt(text) = Len(text) /\ text # <<>>
       \/ NewLineAt(text) = 0 /\ text # <<>> /\ taken[fd] = Len(file[fd])]_vars

(* Each call returns: reading ends with a newline, the file or a failure.  *)
CallsReturn == pc # "idle" ~> pc = "idle"
=============================================================================
