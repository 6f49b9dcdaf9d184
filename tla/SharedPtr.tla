----------------------------- MODULE SharedPtr -----------------------------
(***************************************************************************)
(* my_std::shared_ptr and weak_ptr (smart_pointers/): a control block with *)
(* a count of the shared_ptrs to an object and a count of the weak_ptrs,   *)
(* plus one for all the shared_ptrs together.                              *)
(*                                                                         *)
(* A thread's pointers are told apart only by the block they point to, so  *)
(* shared and weak count them.  Every atomic operation on a count is a     *)
(* step.  What a call still has to do is the thread's agenda, a stack of   *)
(* jobs: destroying an object pushes the release of the shared_ptr it may  *)
(* hold, which is how destructors nest.                                    *)
(*                                                                         *)
(* Memory orders: an access is a triple of a location (the object or the   *)
(* control block of b) and a thread, and stands for that thread's last     *)
(* access there.  known[t] holds the accesses of others that happen before *)
(* thread t's next step; carried[c] those that the release sequence of     *)
(* counter c hands to a thread that acquires it.                           *)
(***************************************************************************)
EXTENDS Naturals, Sequences, FiniteSets, Functions

CONSTANTS
  Thread,
  Block,        \* control blocks, each with its object; also a bound: none is reused
  Null,         \* a pointer to nothing
  MaxShared,    \* bound: the shared_ptrs that the threads have
  MaxWeak,      \* bound: the weak_ptrs that the threads have
  Aliased,      \* a program may assign to a pointer from a member of its own object
                \* even when no other pointer of the thread's keeps that object
  TrackOrder    \* bound: whether the run keeps track of memory orders

ASSUME SharedPtrAssumption ==
  /\ IsFiniteSet(Thread) /\ IsFiniteSet(Block)
  /\ Null \notin Block
  /\ MaxShared \in Nat \ {0} /\ MaxWeak \in Nat
  /\ Aliased \in BOOLEAN /\ TrackOrder \in BOOLEAN

VARIABLES
  object,        \* for each block: "none", "live" or "dead"
  block,         \* the control block itself: "none", "live" or "dead"
  strong_count, weak_count,
  member,        \* the block that a shared_ptr inside the object points to, or Null
  shared, weak,  \* how many pointers each thread has to each block
  agenda,        \* the jobs of the call each thread is in, first the next one
  accesses,      \* the last accesses made to objects and blocks
  known, carried

counts == <<strong_count, weak_count>>
memory == <<object, block, member>>
pointers == <<shared, weak>>
order == <<accesses, known, carried>>
vars == <<counts, memory, pointers, agenda, order>>

Counter == {"strong", "weak"} \X Block
Location == {"object", "block"} \X Block

Init ==
  /\ object = [b \in Block |-> "none"]
  /\ block = [b \in Block |-> "none"]
  /\ strong_count = [b \in Block |-> 0]
  /\ weak_count = [b \in Block |-> 0]
  /\ member = [b \in Block |-> Null]
  /\ shared = [t \in Thread |-> [b \in Block |-> 0]]
  /\ weak = [t \in Thread |-> [b \in Block |-> 0]]
  /\ agenda = [t \in Thread |-> <<>>]
  /\ accesses = {}
  /\ known = [t \in Thread |-> {}]
  /\ carried = [c \in Counter |-> {}]

-----------------------------------------------------------------------------
(* The memory model *)

Of(t) == {a \in accesses : a[2] = t}

(* t accesses the locations: what others knew of its accesses there is old *)
Access(t, locations) ==
  LET new == IF TrackOrder THEN locations \X {t} ELSE {}
  IN /\ accesses' = accesses \cup new
     /\ known' = [u \in Thread |-> known[u] \ new]
     /\ carried' = [c \in Counter |-> carried[c] \ new]

(* fetch_sub(1, memory_order_acq_rel) on counter c by t *)
AcquireRelease(t, c) ==
  LET new == IF TrackOrder THEN {<<"block", c[2]>>} \X {t} ELSE {}
      all == (carried[c] \cup known[t] \cup Of(t) \cup new)
  IN /\ accesses' = accesses \cup new
     /\ known' = [u \in Thread |-> IF u = t THEN {a \in all : a[2] # t} ELSE known[u] \ new]
     /\ carried' = [d \in Counter |-> IF d = c THEN all ELSE carried[d] \ new]

(* an object or a block is gone: its accesses are of no more interest *)
Gone(location) ==
  LET left(S) == {a \in S : a[1] # location}
  IN /\ accesses' = left(accesses)
     /\ known' = [u \in Thread |-> left(known[u])]
     /\ carried' = [c \in Counter |-> left(carried[c])]

(* t hands something to u by a means that synchronizes, as std::thread does *)
Synchronize(t, u) ==
  /\ known' = [known EXCEPT ![u] = @ \cup {a \in known[t] \cup Of(t) : a[2] # u}]
  /\ UNCHANGED <<accesses, carried>>

-----------------------------------------------------------------------------
(* Slips a maintainer could make *)

(* the release of a shared_ptr is not ordered with the others *)
DecStrongOrder_Relaxed(t, b) == Access(t, {<<"block", b>>})

(* the block goes with the object, whatever weak_ptrs are left *)
LastWeak_Ignored(b) == TRUE

(* a fetch_sub that forgets it returns the count before the subtraction *)
LastStrong_OffByOne(b) == strong_count[b] = 0

(* lock increments whatever it finds *)
CasSucceeds_Blind(b, count) == TRUE

(* lock compares the count it loaded before, but not with zero *)
GivesUp_Never(count) == FALSE

-----------------------------------------------------------------------------
Idle(t) == agenda[t] = <<>>
Job(do, b) == [do |-> do, block |-> b]

(* release what a pointer points to; a null pointer has nothing to release *)
Release(do, b) == IF b = Null THEN <<>> ELSE <<Job(do, b)>>

(* the pointers there are, counting those that calls are about to make *)
PointersOf(pointer, jobs) ==
  SumFunction([t \in Thread |-> SumFunction(pointer[t])
                + Cardinality({i \in DOMAIN agenda[t] : agenda[t][i].do \in jobs})])
SharedRoom == PointersOf(shared, {"IncStrong", "Cas", "ReadMember"}) < MaxShared
WeakRoom == PointersOf(weak, {"IncWeak"}) < MaxWeak
Gains(pointer, t, b) == [pointer EXCEPT ![t][b] = @ + 1]
Loses(pointer, t, b) == IF b = Null THEN pointer ELSE [pointer EXCEPT ![t][b] = @ - 1]
Has(pointer, t, b) == IF b = Null THEN TRUE ELSE pointer[t][b] > 0

(* A new object, which may take over a shared_ptr of the thread's as its   *)
(* member, with its control block: shared_ptr(T* ) and make_shared.        *)
Create(t, b, inside) ==
  /\ Idle(t) /\ object[b] = "none"
  /\ Has(shared, t, inside) /\ inside # b
  /\ inside = Null => SharedRoom
  /\ object' = [object EXCEPT ![b] = "live"]
  /\ block' = [block EXCEPT ![b] = "live"]
  /\ member' = [member EXCEPT ![b] = inside]
  /\ strong_count' = [strong_count EXCEPT ![b] = 1]
  /\ weak_count' = [weak_count EXCEPT ![b] = 1]
  /\ shared' = Gains(Loses(shared, t, inside), t, b)
  /\ Access(t, {<<"object", b>>, <<"block", b>>})
  /\ UNCHANGED <<weak, agenda>>

(* The control block cannot be allocated, or the constructor throws: what  *)
(* had been made is deleted, and with it the member's shared_ptr.          *)
CreateThrows(t, b, inside) ==
  /\ Idle(t) /\ object[b] = "none"
  /\ Has(shared, t, inside) /\ inside # b
  /\ object' = [object EXCEPT ![b] = "dead"]
  /\ block' = [block EXCEPT ![b] = "dead"]
  /\ shared' = Loses(shared, t, inside)
  /\ agenda' = [agenda EXCEPT ![t] = Release("DecStrong", inside)]
  /\ UNCHANGED <<member, counts, weak, order>>

(* shared_ptr(const shared_ptr&): from a pointer of the thread's, or from  *)
(* the member of an object that such a pointer keeps alive                 *)
CopyCtor(t, b) ==
  /\ Idle(t) /\ SharedRoom
  /\ \/ shared[t][b] > 0
     \/ \E c \in Block : shared[t][c] > 0 /\ member[c] = b
  /\ strong_count' = [strong_count EXCEPT ![b] = @ + 1]
  /\ shared' = Gains(shared, t, b)
  /\ Access(t, {<<"block", b>>})
  /\ UNCHANGED <<weak_count, memory, weak, agenda>>

(* shared_ptr(shared_ptr&&), the new pointer being another thread's *)
MoveCtor(t, u, b) ==
  /\ Idle(t) /\ Idle(u) /\ t # u
  /\ shared[t][b] > 0
  /\ shared' = Gains(Loses(shared, t, b), u, b)
  /\ Synchronize(t, u)
  /\ UNCHANGED <<counts, memory, weak, agenda>>

(* operator=(const shared_ptr&): release this, then read and copy other *)
CopyAssign(t, this, other) ==
  /\ Idle(t) /\ Has(shared, t, this)
  /\ this = Null => SharedRoom
  /\ shared' = Loses(shared, t, this)
  /\ Has(shared', t, other)
  /\ agenda' = [agenda EXCEPT ![t] = Release("DecStrong", this) \o Release("IncStrong", other)]
  /\ UNCHANGED <<counts, memory, weak, order>>

(* the same, other being the member of this's own object: p = p->next      *)
AssignFromMember(t, this) ==
  /\ Idle(t)
  /\ shared[t][this] > (IF Aliased THEN 0 ELSE 1)
  /\ shared' = Loses(shared, t, this)
  /\ agenda' = [agenda EXCEPT ![t] = <<Job("DecStrong", this), Job("ReadMember", this)>>]
  /\ UNCHANGED <<counts, memory, weak, order>>

(* ~shared_ptr, and operator=(shared_ptr&&): what other pointed to stays   *)
(* with the thread, only this is released                                  *)
Drop(t, b) ==
  /\ Idle(t) /\ shared[t][b] > 0
  /\ shared' = Loses(shared, t, b)
  /\ agenda' = [agenda EXCEPT ![t] = <<Job("DecStrong", b)>>]
  /\ UNCHANGED <<counts, memory, weak, order>>

(* a dereference *)
Use(t, b) ==
  /\ Idle(t) /\ shared[t][b] > 0
  /\ Access(t, {<<"object", b>>})
  /\ UNCHANGED <<counts, memory, pointers, agenda>>

(* use_count and expired: a relaxed load *)
Observe(t, b) ==
  /\ Idle(t) /\ (shared[t][b] > 0 \/ weak[t][b] > 0)
  /\ Access(t, {<<"block", b>>})
  /\ UNCHANGED <<counts, memory, pointers, agenda>>

-----------------------------------------------------------------------------
(* weak_ptr *)

CountWeak(b) == weak_count' = [weak_count EXCEPT ![b] = @ + 1]

(* weak_ptr(const weak_ptr&) and weak_ptr(const shared_ptr&) *)
WeakCtor(t, b) ==
  /\ Idle(t) /\ WeakRoom
  /\ shared[t][b] > 0 \/ weak[t][b] > 0
  /\ CountWeak(b)
  /\ weak' = Gains(weak, t, b)
  /\ Access(t, {<<"block", b>>})
  /\ UNCHANGED <<strong_count, memory, shared, agenda>>

(* weak_ptr(weak_ptr&&), the new pointer being another thread's *)
WeakMoveCtor(t, u, b) ==
  /\ Idle(t) /\ Idle(u) /\ t # u
  /\ weak[t][b] > 0
  /\ weak' = Gains(Loses(weak, t, b), u, b)
  /\ Synchronize(t, u)
  /\ UNCHANGED <<counts, memory, shared, agenda>>

(* operator=(const weak_ptr&) and operator=(const shared_ptr&) *)
WeakAssign(t, this, other) ==
  /\ Idle(t) /\ Has(weak, t, this)
  /\ this = Null => WeakRoom
  /\ weak' = Loses(weak, t, this)
  /\ Has(weak', t, other) \/ Has(shared, t, other)
  /\ agenda' = [agenda EXCEPT ![t] = Release("DecWeak", this) \o Release("IncWeak", other)]
  /\ UNCHANGED <<counts, memory, shared, order>>

(* ~weak_ptr, and operator=(weak_ptr&&) *)
WeakDrop(t, b) ==
  /\ Idle(t) /\ weak[t][b] > 0
  /\ weak' = Loses(weak, t, b)
  /\ agenda' = [agenda EXCEPT ![t] = <<Job("DecWeak", b)>>]
  /\ UNCHANGED <<counts, memory, shared, order>>

(* lock, that is shared_ptr(const weak_ptr&): load the count *)
Lock(t, b) ==
  /\ Idle(t) /\ weak[t][b] > 0 /\ SharedRoom
  /\ agenda' = [agenda EXCEPT ![t] = <<[do |-> "Cas", block |-> b, count |-> strong_count[b]]>>]
  /\ Access(t, {<<"block", b>>})
  /\ UNCHANGED <<counts, memory, pointers>>

-----------------------------------------------------------------------------
(* The jobs on a thread's agenda *)

Next_(t, do) == ~ Idle(t) /\ Head(agenda[t]).do = do
Replace(t, jobs) == agenda' = [agenda EXCEPT ![t] = jobs \o Tail(@)]

LastStrong(b) == strong_count[b] = 1
DecStrongOrder(t, b) == AcquireRelease(t, <<"strong", b>>)

(* strong_count.fetch_sub; whoever takes it to zero disposes of the object *)
(* and then gives up the weak_count of the shared_ptrs together            *)
DecStrong(t) ==
  /\ Next_(t, "DecStrong")
  /\ LET b == Head(agenda[t]).block
     IN /\ strong_count' = [strong_count EXCEPT ![b] = @ - 1]
        /\ Replace(t, IF LastStrong(b) THEN <<Job("Dispose", b), Job("DecWeak", b)>> ELSE <<>>)
        /\ DecStrongOrder(t, b)
  /\ UNCHANGED <<weak_count, memory, pointers>>

(* dispose: the object's destructor, which releases the object's member *)
Dispose(t) ==
  /\ Next_(t, "Dispose")
  /\ LET b == Head(agenda[t]).block
     IN /\ object' = [object EXCEPT ![b] = "dead"]
        /\ Replace(t, Release("DecStrong", member[b]))
        /\ Gone(<<"object", b>>)
  /\ UNCHANGED <<block, member, counts, pointers>>

LastWeak(b) == weak_count[b] = 1

(* weak_count.fetch_sub; whoever takes it to zero deletes the block *)
DecWeak(t) ==
  /\ Next_(t, "DecWeak")
  /\ LET b == Head(agenda[t]).block
     IN /\ weak_count' = [weak_count EXCEPT ![b] = @ - 1]
        /\ Replace(t, IF LastWeak(b) THEN <<Job("Destroy", b)>> ELSE <<>>)
        /\ AcquireRelease(t, <<"weak", b>>)
  /\ UNCHANGED <<strong_count, memory, pointers>>

(* destroy: delete this *)
Destroy(t) ==
  /\ Next_(t, "Destroy")
  /\ LET b == Head(agenda[t]).block
     IN /\ block' = [block EXCEPT ![b] = "dead"]
        /\ Gone(<<"block", b>>)
  /\ Replace(t, <<>>)
  /\ UNCHANGED <<object, member, counts, pointers>>

(* the end of operator=: other.ctrl_blk_ptr_->strong_count.fetch_add *)
IncStrong(t) ==
  /\ Next_(t, "IncStrong")
  /\ LET b == Head(agenda[t]).block
     IN /\ strong_count' = [strong_count EXCEPT ![b] = @ + 1]
        /\ shared' = Gains(shared, t, b)
        /\ Access(t, {<<"block", b>>})
  /\ Replace(t, <<>>)
  /\ UNCHANGED <<weak_count, memory, weak>>

(* ptr_ = other.ptr_, other being inside an object *)
ReadMember(t) ==
  /\ Next_(t, "ReadMember")
  /\ LET b == Head(agenda[t]).block
     IN /\ Replace(t, Release("IncStrong", member[b]))
        /\ Access(t, {<<"object", b>>})
  /\ UNCHANGED <<counts, memory, pointers>>

IncWeak(t) ==
  /\ Next_(t, "IncWeak")
  /\ LET b == Head(agenda[t]).block
     IN /\ CountWeak(b)
        /\ weak' = Gains(weak, t, b)
        /\ Access(t, {<<"block", b>>})
  /\ Replace(t, <<>>)
  /\ UNCHANGED <<strong_count, memory, shared>>

GivesUp(count) == count = 0
CasSucceeds(b, count) == strong_count[b] = count

(* compare_exchange_strong: it replaces the count it loaded, or reloads it *)
Cas(t) ==
  /\ Next_(t, "Cas")
  /\ LET job == Head(agenda[t])
         b == job.block
     IN \/ /\ GivesUp(job.count)
           /\ Replace(t, <<>>)
           /\ UNCHANGED <<strong_count, shared, order>>
        \/ /\ ~ GivesUp(job.count) /\ CasSucceeds(b, job.count)
           /\ strong_count' = [strong_count EXCEPT ![b] = job.count + 1]
           /\ shared' = Gains(shared, t, b)
           /\ Replace(t, <<>>)
           /\ Access(t, {<<"block", b>>})
        \/ /\ ~ GivesUp(job.count) /\ ~ CasSucceeds(b, job.count)
           /\ Replace(t, <<[job EXCEPT !.count = strong_count[b]]>>)
           /\ Access(t, {<<"block", b>>})
           /\ UNCHANGED <<strong_count, shared>>
  /\ UNCHANGED <<weak_count, memory, weak>>

-----------------------------------------------------------------------------
Call(t) ==
  \/ \E b \in Block, inside \in Block \cup {Null} :
       Create(t, b, inside) \/ CreateThrows(t, b, inside)
  \/ \E b \in Block :
       \/ CopyCtor(t, b) \/ Drop(t, b) \/ AssignFromMember(t, b) \/ Use(t, b) \/ Observe(t, b)
       \/ WeakCtor(t, b) \/ WeakDrop(t, b) \/ Lock(t, b)
  \/ \E u \in Thread, b \in Block : MoveCtor(t, u, b) \/ WeakMoveCtor(t, u, b)
  \/ \E this, other \in Block \cup {Null} : CopyAssign(t, this, other) \/ WeakAssign(t, this, other)

Work(t) ==
  \/ DecStrong(t) \/ Dispose(t) \/ DecWeak(t) \/ Destroy(t)
  \/ IncStrong(t) \/ ReadMember(t) \/ IncWeak(t) \/ Cas(t)

Next == \E t \in Thread : Call(t) \/ Work(t)

Spec == Init /\ [][Next]_vars

-----------------------------------------------------------------------------
(* the jobs a thread is about to do *)
Doing(do, b) == {t \in Thread : Next_(t, do) /\ Head(agenda[t]).block = b}

(* What the counts count, each thread's numbered from 1 and tagged with    *)
(* the thread: its pointers to b, and the jobs of a kind on its agenda, by *)
(* their height from the bottom of the stack.                              *)
Tagged(numbers) == UNION {{t} \X numbers[t] : t \in Thread}
Heights(jobs, do, b) ==
  {n \in 1 .. Len(jobs) : LET job == jobs[Len(jobs) + 1 - n] IN job.do = do /\ job.block = b}

Held(pointer, b) == Tagged([t \in Thread |-> 1 .. pointer[t][b]])
Inside(b) == {c \in Block : object[c] = "live" /\ member[c] = b}
Pending(agendas, do, b) == Tagged([t \in Thread |-> Heights(agendas[t], do, b)])

(* What shared_ptr promises its user: an object that a shared_ptr points   *)
(* to is alive, and so is a control block that any pointer points to.      *)
HeldObjectsAlive ==
  \A b \in Block :
    /\ \A t \in Thread :
         /\ shared[t][b] > 0 => object[b] = "live" /\ block[b] = "live"
         /\ weak[t][b] > 0 => block[b] = "live"
    /\ \A c \in Block : object[c] = "live" /\ member[c] = b => object[b] = "live"

(* No step of a call, however the calls of the threads interleave, reaches *)
(* into an object or a control block that is gone; in particular an object *)
(* is destroyed, and a block deleted, at most once.                        *)
NoUseAfterFree ==
  \A b \in Block :
    /\ \A do \in {"DecStrong", "DecWeak", "Destroy", "IncStrong", "IncWeak", "Cas"} :
         Doing(do, b) # {} => block[b] = "live"
    /\ Doing("Dispose", b) \cup Doing("ReadMember", b) # {} => object[b] = "live"

(* tests.cpp:69, "so tests can catch leaks": once no pointer is left and   *)
(* no call is under way, every object and every control block is gone.     *)
NoLeak ==
  \A b \in Block :
    (/\ \A t \in Thread : Idle(t) /\ shared[t][b] = 0
     /\ \A c \in Block : object[c] = "live" => member[c] # b)
    => /\ object[b] # "live"
       /\ (\A t \in Thread : weak[t][b] = 0) => block[b] # "live"

(* The memory orders of the counts: destroying an object, and deleting a   *)
(* block, happens after every access that other threads have made to it.   *)
NoDataRace ==
  \A t \in Thread, b \in Block :
    /\ t \in Doing("Dispose", b) =>
         \A u \in Thread \ {t} : <<<<"object", b>>, u>> \in accesses => <<<<"object", b>>, u>> \in known[t]
    /\ t \in Doing("Destroy", b) =>
         \A u \in Thread \ {t} : <<<<"block", b>>, u>> \in accesses => <<<<"block", b>>, u>> \in known[t]

(* Both counts are exact at every step: strong_count counts the pointers   *)
(* and the releases under way, weak_count the weak_ptrs, the releases      *)
(* under way and one more until the last shared_ptr has given it up.       *)
CountsExact ==
  \A b \in Block : block[b] = "live" =>
    /\ strong_count[b] = Cardinality(Held(shared, b)) + Cardinality(Inside(b))
                         + Cardinality(Pending(agenda, "DecStrong", b))
    /\ weak_count[b] = Cardinality(Held(weak, b)) + Cardinality(Pending(agenda, "DecWeak", b))
                       + (IF strong_count[b] > 0 THEN 1 ELSE 0)

(* weak_ptr::lock never brings an object back: a count of shared_ptrs that *)
(* has fallen to zero stays there.                                         *)
NoResurrection ==
  [][\A b \in Block : object[b] # "none" /\ strong_count[b] = 0 => strong_count'[b] = 0]_vars
=============================================================================
