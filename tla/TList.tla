--------------------------------- MODULE TList ---------------------------------
(***************************************************************************)
(* The linked lists of libft (t_list).  A node on the heap is a record     *)
(* [content, next]; what content points at is an object of its own, here a *)
(* number.  The caller has some variables that hold lists; del, which      *)
(* disposes of a content, and f, which makes a new one or changes one, are *)
(* the caller's functions.  ft_lstmap is taken step by step: in each turn  *)
(* there may be no memory for the node.                                    *)
(***************************************************************************)
EXTENDS Caller

CONSTANTS
  Heads,   \* the caller's list variables
  Numbers  \* what contents are

ASSUME TListAssumption == Numbers \subseteq Int /\ IsFiniteSet(Heads)

VARIABLES
  head,    \* the caller's variables: the first node of each list
  numbers  \* the numbers that should be in them

(* Nodes in the order in which next leads through them from lst.           *)
Nodes(h, lst) ==
  LET at[k \in Nat] == IF k = 0 THEN lst ELSE h[at[k - 1]].next
      size == CHOOSE n \in 0 .. Cardinality(DOMAIN h) :
                at[n] = NULL /\ \A k \in 0 .. n - 1 : at[k] # NULL
  IN [k \in 1 .. size |-> at[k - 1]]

ft_lstsize(h, lst) == Len(Nodes(h, lst))
ft_lstlast(h, lst) == IF lst = NULL THEN NULL ELSE Last(Nodes(h, lst))

ft_lstnew(h, content) == malloc(h, [content |-> content, next |-> NULL])

del(h, content) == free(h, content)

(* A list operation gives the heap and the new value of the variable.      *)
ft_lstadd_front(h, lst, node) ==
  Outcome([h EXCEPT ![node].next = lst], node)

ft_lstadd_back(h, lst, node) ==
  IF lst = NULL
  THEN Outcome(h, node)
  ELSE Outcome([h EXCEPT ![ft_lstlast(h, lst)].next = node], lst)

ft_lstdelone(h, node) == free(del(h, h[node].content), node)

(* Each node is read on before it is freed.                                *)
ft_lstclear(h, lst) == FoldLeft(ft_lstdelone, h, Nodes(h, lst))

(* The caller's f for ft_lstiter and, on a copy, for ft_lstmap.            *)
f(number) == 1 - number

ft_lstiter(h, lst) ==
  LET contents == {h[n].content : n \in ToSet(Nodes(h, lst))}
  IN [x \in DOMAIN h |-> IF x \in contents THEN f(h[x]) ELSE h[x]]

------------------------------------------------------------------------------
NoLists == head = [l \in Heads |-> NULL] /\ numbers = [l \in Heads |-> <<>>]

Assign(l, r, expected) ==
  /\ heap' = r.heap
  /\ head' = [head EXCEPT ![l] = r.ptr]
  /\ numbers' = [numbers EXCEPT ![l] = expected]
  /\ UNCHANGED call

(* The caller makes a content and a node for it, and adds it.              *)
AddFront(l, number) ==
  /\ Room
  /\ \E c \in malloc(heap, number) : \E n \in ft_lstnew(c.heap, c.ptr) :
       /\ c.ptr # NULL /\ n.ptr # NULL
       /\ Assign(l, ft_lstadd_front(n.heap, head[l], n.ptr),
                 <<number>> \o numbers[l])

AddBack(l, number) ==
  /\ Room
  /\ \E c \in malloc(heap, number) : \E n \in ft_lstnew(c.heap, c.ptr) :
       /\ c.ptr # NULL /\ n.ptr # NULL
       /\ Assign(l, ft_lstadd_back(n.heap, head[l], n.ptr),
                 Append(numbers[l], number))

(* The first node is taken out and disposed of.                            *)
DeleteFirst(l) ==
  /\ call = Idle /\ head[l] # NULL
  /\ Assign(l, Outcome(ft_lstdelone(heap, head[l]), heap[head[l]].next),
            Tail(numbers[l]))

Clear(l) ==
  /\ call = Idle /\ head[l] # NULL
  /\ Assign(l, Outcome(ft_lstclear(heap, head[l]), NULL), <<>>)

Iterate(l) ==
  /\ call = Idle /\ head[l] # NULL
  /\ Assign(l, Outcome(ft_lstiter(heap, head[l]), head[l]),
            [k \in DOMAIN numbers[l] |-> f(numbers[l][k])])

(* ft_lstmap from one variable to another that holds no list.              *)
CallMap(from, to) ==
  /\ Room /\ head[from] # NULL /\ head[to] = NULL
  /\ call' = [op |-> "map", from |-> from, to |-> to,
              lst |-> head[from], list |-> NULL]
  /\ UNCHANGED <<heap, head, numbers>>

(* Seeded fault: the content of the node that could not be had is left. *)
MapNode_Leak ==
  /\ call.op = "map" /\ call.lst # NULL
  /\ \E tmp \in malloc(heap, f(heap[heap[call.lst].content])) :
     tmp.ptr # NULL /\ \E node \in ft_lstnew(tmp.heap, tmp.ptr) :
       IF node.ptr = NULL
       THEN /\ heap' = ft_lstclear(tmp.heap, call.list)
            /\ call' = Idle
       ELSE LET added == ft_lstadd_back(node.heap, call.list, node.ptr)
            IN /\ heap' = added.heap
               /\ call' = [call EXCEPT !.list = added.ptr,
                                       !.lst  = heap[@].next]
  /\ UNCHANGED <<head, numbers>>

(* A turn of the loop.  f has a content to give; what it made last is      *)
(* freed when there is no node for it, the nodes so far are cleared.       *)
MapNode ==
  /\ call.op = "map" /\ call.lst # NULL
  /\ \E tmp \in malloc(heap, f(heap[heap[call.lst].content])) :
     tmp.ptr # NULL /\ \E node \in ft_lstnew(tmp.heap, tmp.ptr) :
       IF node.ptr = NULL
       THEN /\ heap' = ft_lstclear(free(tmp.heap, tmp.ptr), call.list)
            /\ call' = Idle
       ELSE LET added == ft_lstadd_back(node.heap, call.list, node.ptr)
            IN /\ heap' = added.heap
               /\ call' = [call EXCEPT !.list = added.ptr,
                                       !.lst  = heap[@].next]
  /\ UNCHANGED <<head, numbers>>

MapDone ==
  /\ call.op = "map" /\ call.lst = NULL
  /\ head' = [head EXCEPT ![call.to] = call.list]
  /\ numbers' = [numbers EXCEPT ![call.to] =
       [k \in DOMAIN numbers[call.from] |-> f(numbers[call.from][k])]]
  /\ call' = Idle
  /\ UNCHANGED heap

ListStep ==
  \/ \E l \in Heads, n \in Numbers : AddFront(l, n) \/ AddBack(l, n)
  \/ \E l \in Heads : DeleteFirst(l) \/ Clear(l) \/ Iterate(l)
  \/ \E l, m \in Heads : CallMap(l, m)
  \/ MapNode \/ MapDone

------------------------------------------------------------------------------
(* Properties.                                                             *)

(* The nodes of a list and their contents.                                 *)
ListParts(l) ==
  LET nodes == Nodes(heap, head[l])
  IN nodes \o [k \in DOMAIN nodes |-> heap[nodes[k]].content]

(* The lists hold the numbers they should, in the order they should: what  *)
(* is done to one of them, to a copy by ft_lstmap or to the copied list    *)
(* while it is being copied, does not show in another.                     *)
ListsHold ==
  \A l \in Heads :
    LET nodes == Nodes(heap, head[l])
    IN [k \in DOMAIN nodes |-> heap[heap[nodes[k]].content]] = numbers[l]
=============================================================================
