-------------------------- MODULE ThreadSafeQueue --------------------------
(***************************************************************************)
(* ThreadSafeQueue<T> of common/threadsafe_queue.hpp: a std::queue behind   *)
(* one mutex.  Each method holds the mutex for its whole body, so each is   *)
(* one atomic step of whatever thread calls it; two calls are two steps,    *)
(* and another thread may come in between them.                             *)
(*                                                                         *)
(* try_pop is split into its two answers: it fails when IsEmpty(q) holds,   *)
(* and otherwise hands out Front(q) and leaves Rest(q).                     *)
(***************************************************************************)
EXTENDS Sequences

EmptyQueue == <<>>

IsEmpty(q) == q = <<>>

Push(q, value) == Append(q, value)

Front(q) == Head(q)

Rest(q) == Tail(q)

Cleared(q) == EmptyQueue
=============================================================================
