--------------------------------- MODULE Any ---------------------------------
(***************************************************************************)
(* realtinet::any, the context of a UdpConnection: a value of any type, kept  *)
(* in place or behind a pointer, with hand-written tables of operations.      *)
(* Memory is explicit: an object is constructed in a place and destroyed in   *)
(* it, and constructing over a live object, destroying or reading a place      *)
(* that holds none is recorded as an error.                                    *)
(***************************************************************************)
EXTENDS Integers, FiniteSets

CONSTANTS
    Anys,            \* the `any` objects of the program
    StackTypes, DynamicTypes,  \* by requires_allocation<T>
    AnyValues,       \* the values an object of any of these types can have
    Cells            \* bound: heap cells

Types == StackTypes \union DynamicTypes
Null == "null"
Raw == -1            \* a place that holds no object
MovedFrom == 0       \* the value a move leaves

(* The temporaries of operator= and of swap, and vtable_stack::swap's storage. *)
Temp == "temporary"
Tmp == "tmp"
TmpStorage == "tmp_storage"
Unions == Anys \union {Temp, Tmp, TmpStorage}

VARIABLES
    mem,             \* [vtable, dynamic, stack: by union; cell: by heap cell; error]
    expected         \* what the comments say each any holds, <<type, value>>

anyVars == <<mem, expected>>

-----------------------------------------------------------------------------
(* Objects.  A place is <<"stack", union>> or <<"cell", id>>. *)

At(m, p) == IF p[1] = "stack" THEN m.stack[p[2]] ELSE m.cell[p[2]]

PutAt(m, p, v) ==
    IF p[1] = "stack" THEN [m EXCEPT !.stack[p[2]] = v] ELSE [m EXCEPT !.cell[p[2]] = v]

Flag(m, bad) == [m EXCEPT !.error = @ \/ bad]

Construct(m, p, v) == PutAt(Flag(m, At(m, p) # Raw \/ v = Raw), p, v)
DestroyAt(m, p) == PutAt(Flag(m, At(m, p) = Raw), p, Raw)

New(m) == <<"cell", CHOOSE c \in Cells : m.cell[c] = Raw>>
Dynamic(m, u) == <<"cell", m.dynamic[u]>>
Stack(u) == <<"stack", u>>

(* vtable_stack and vtable_dynamic. *)
Destroy(m, T, u) ==
    IF T \in StackTypes THEN DestroyAt(m, Stack(u))
    ELSE IF m.dynamic[u] = Null THEN m ELSE DestroyAt(m, Dynamic(m, u))

Copy(m, T, src, dest) ==
    IF T \in StackTypes THEN Construct(m, Stack(dest), At(m, Stack(src)))
    ELSE [Construct(m, New(m), At(m, Dynamic(m, src))) EXCEPT !.dynamic[dest] = New(m)[2]]

\* Broken variant: does not destroy what it moved from.
moveStackOnly(m, src, dest) ==
    LET made == Construct(m, Stack(dest), At(m, Stack(src)))
    IN  PutAt(made, Stack(src), MovedFrom)

moveStack(m, src, dest) ==
    LET made == Construct(m, Stack(dest), At(m, Stack(src)))
    IN  DestroyAt(PutAt(made, Stack(src), MovedFrom), Stack(src))

moveDynamic(m, src, dest) ==
    [m EXCEPT !.dynamic[dest] = m.dynamic[src], !.dynamic[src] = Null]

Move(m, T, src, dest) ==
    IF T \in StackTypes THEN moveStack(m, src, dest) ELSE moveDynamic(m, src, dest)

swapStack(m, l, r) ==
    moveStack(moveStack(moveStack(m, r, TmpStorage), l, r), TmpStorage, l)

SwapSame(m, T, l, r) ==
    IF T \in StackTypes THEN swapStack(m, l, r)
    ELSE [m EXCEPT !.dynamic[l] = m.dynamic[r], !.dynamic[r] = m.dynamic[l]]

-----------------------------------------------------------------------------
(* The members of any.  A constructor gives the union a vtable first. *)

SetVtable(m, u, T) == [m EXCEPT !.vtable[u] = T]

CopyConstruct(m, u, rhs) ==
    LET T == m.vtable[rhs]
    IN  IF T = Null THEN SetVtable(m, u, Null) ELSE Copy(SetVtable(m, u, T), T, rhs, u)

MoveConstruct(m, u, rhs) ==
    LET T == m.vtable[rhs]
    IN  IF T = Null THEN SetVtable(m, u, Null)
        ELSE SetVtable(Move(SetVtable(m, u, T), T, rhs, u), rhs, Null)

construct(m, u, T, v) ==
    LET s == SetVtable(m, u, T)
    IN  IF T \in StackTypes THEN Construct(s, Stack(u), v)
        ELSE [Construct(s, New(s), v) EXCEPT !.dynamic[u] = New(s)[2]]

clear(m, u) ==
    IF m.vtable[u] = Null THEN m ELSE SetVtable(Destroy(m, m.vtable[u], u), u, Null)

\* Broken variant: leaves the vtable of v as it was.
MoveToSameVtable(m, u, v) ==
    IF m.vtable[u] = Null THEN m ELSE Move(m, m.vtable[u], u, v)

(* Move u's object to v, if it has one; v takes its vtable. *)
MoveTo(m, u, v) ==
    LET T == m.vtable[u]
        s == SetVtable(m, v, T)
    IN  IF T = Null THEN s ELSE Move(s, T, u, v)

(* swap: through tmp when the types differ, else by the type's own swap. *)
swap(m, u, v) ==
    IF m.vtable[u] = m.vtable[v]
    THEN IF m.vtable[u] = Null THEN m ELSE SwapSame(m, m.vtable[u], u, v)
    ELSE LET toTmp == MoveConstruct(m, Tmp, v)
             toV   == MoveTo(toTmp, u, v)
             toU   == SetVtable(MoveTo(toV, Tmp, u), Tmp, Null)
         IN  clear(toU, Tmp)

(* any(rhs).swap(this); the temporary is destroyed at the end of the statement. *)
AssignFromTemp(m, u) == clear(swap(m, Temp, u), Temp)

(* any_cast<T>(&operand): the object's value, or nothing. *)
any_cast(m, u, T) ==
    IF m.vtable[u] # T THEN Raw
    ELSE IF T \in StackTypes THEN At(m, Stack(u)) ELSE At(m, Dynamic(m, u))

-----------------------------------------------------------------------------
AnyInit ==
    /\ mem = [vtable |-> [u \in Unions |-> Null], dynamic |-> [u \in Unions |-> Null],
              stack |-> [u \in Unions |-> Raw], cell |-> [c \in Cells |-> Raw],
              error |-> FALSE]
    /\ expected = [a \in Anys |-> <<Null, Raw>>]

Nothing == <<Null, Raw>>
SelfSwapped == <<"self-swapped", Raw>>
Holds(m, a) ==
    IF m.vtable[a] = Null THEN Nothing ELSE <<m.vtable[a], any_cast(m, a, m.vtable[a])>>

(* a = value, which may replace what a holds. *)
AssignValue(a) ==
    \E T \in Types, v \in AnyValues :
        /\ mem' = AssignFromTemp(construct(mem, Temp, T, v), a)
        /\ expected' = [expected EXCEPT ![a] = <<T, v>>]

(* a = b, a = a included: both hold b's state. *)
AssignCopy(a, b) ==
    /\ mem' = AssignFromTemp(CopyConstruct(mem, Temp, b), a)
    /\ expected' = [expected EXCEPT ![a] = expected[b]]

(* a = std::move(b): b is left valid but otherwise unspecified. *)
AssignMove(a, b) ==
    /\ mem' = AssignFromTemp(MoveConstruct(mem, Temp, b), a)
    /\ expected' = [expected EXCEPT ![b] = Holds(mem', b), ![a] = expected[b]]

(* a.swap(b), a.swap(a) included: vtable_stack's swap does not expect that one. *)
Swap(a, b) ==
    /\ mem' = swap(mem, a, b)
    /\ expected' = IF a = b /\ mem.vtable[a] \in StackTypes
                   THEN [expected EXCEPT ![a] = SelfSwapped]
                   ELSE [expected EXCEPT ![a] = expected[b], ![b] = expected[a]]

Clear(a) ==
    /\ mem' = clear(mem, a)
    /\ expected' = [expected EXCEPT ![a] = Nothing]

(* A use of memory that holds no object ends the behaviour. *)
AnyNext ==
    /\ ~mem.error
    /\ \E a \in Anys :
          \/ AssignValue(a) \/ Clear(a)
          \/ \E b \in Anys : AssignCopy(a, b) \/ AssignMove(a, b) \/ Swap(a, b)

-----------------------------------------------------------------------------
(* Every object is constructed in free memory, read and destroyed once, and no     *)
(* object is leaked: what lives is what the named anys hold, each its own.          *)
EveryObjectIsOwned ==
    /\ {c \in Cells : mem.cell[c] # Raw}
           = {mem.dynamic[a] : a \in {b \in Anys : mem.vtable[b] \in DynamicTypes}}
    /\ \A a, b \in Anys : a # b /\ {mem.vtable[a], mem.vtable[b]} \subseteq DynamicTypes
           => mem.dynamic[a] # mem.dynamic[b]
    /\ {u \in Unions : mem.stack[u] # Raw} = {a \in Anys : mem.vtable[a] \in StackTypes}

(* An any holds the value its comments promise after every sequence of              *)
(* assignments, moves, swaps and clears, and any_cast gives it for its type only.    *)
AnyIsValue ==
    \A a \in Anys :
        /\ Holds(mem, a) = expected[a]
        /\ \A T \in Types : any_cast(mem, a, T) # Raw <=> mem.vtable[a] = T

(* any is a value: it holds what was assigned, and owns each of its objects once.   *)
(* The one call that breaks it is a.swap(a) of a value kept in place, which moves    *)
(* from the object it has just destroyed (any.h:288-294).                            *)
AnyIsSound ==
    IF mem.error THEN \E a \in Anys : expected[a] = SelfSwapped
    ELSE EveryObjectIsOwned /\ AnyIsValue
=============================================================================
