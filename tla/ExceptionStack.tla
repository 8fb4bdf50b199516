--------------------------- MODULE ExceptionStack --------------------------
(***************************************************************************)
(* src/ivl/exception/default.hpp: base_exception keeps a stack of the      *)
(* exceptions that exist in a thread, and EXCEPTION_CONTEXT, when its      *)
(* scope is left by one, adds a line to the one on top.  C++ has no way to *)
(* ask which exception is being thrown: the top of the stack is taken for  *)
(* it when the count of uncaught exceptions fits.  Exceptions of other     *)
(* types count there too, and have no entry.  The model is one thread with *)
(* its nested scopes: contexts, try blocks, running handlers and           *)
(* destructors that run while an exception passes.                         *)
(***************************************************************************)
EXTENDS Integers, Sequences, FiniteSets, SequencesExt

CONSTANTS Exception,  \* exceptions that are thrown, each once
          Foreign,    \* those that are no base_exception
          MaxDepth    \* bound on the nesting of scopes

ASSUME ForeignAreExceptions == Foreign \subseteq Exception

VARIABLES inflight_exceptions,  \* handles, oldest first: [ptr, idx]
          flying,     \* thrown and not caught, innermost last
          scopes,     \* [kind, count, e], innermost last
          kept,       \* held by an exception_ptr
          thrown,     \* constructed so far
          everEscaped, \* a base_exception left the handler of another
          everKept,   \* an exception_ptr was made
          dangling    \* a line was written to an exception that is gone

exceptionVars ==
    <<inflight_exceptions, flying, scopes, kept, thrown, everEscaped, everKept, dangling>>

history == <<everEscaped, everKept, dangling>>

uncaught_exceptions == Len(flying)

\* An exception passes, and no destructor that it runs is being executed.
Unwinding == Cardinality({i \in DOMAIN scopes : scopes[i].kind = "destructor"}) < Len(flying)

Scope(kind, e) == [kind |-> kind, count |-> uncaught_exceptions, e |-> e]

Inside(kind) == scopes # <<>> /\ Last(scopes).kind = kind

Held(fl, sc, k) == ToSet(fl) \cup k \cup {sc[i].e : i \in {j \in DOMAIN sc : sc[j].kind = "handler"}}

\* Faulty: counts the exceptions without the one being constructed for.
is_in_flightLate ==
    /\ inflight_exceptions # <<>>
    /\ Last(inflight_exceptions).idx = uncaught_exceptions

is_in_flight ==
    /\ inflight_exceptions # <<>>
    /\ Last(inflight_exceptions).idx + 1 = uncaught_exceptions

\* The exception whose added_context gets the line of a context that is passed.
Receiver ==
    IF uncaught_exceptions = Last(scopes).count + 1 /\ is_in_flight
    THEN {Last(inflight_exceptions).ptr} ELSE {}

\* The last reference to e goes: its destructor pops the stack, whoever is there.
Destroys(e, fl, sc, k) ==
    inflight_exceptions' = IF e \in Held(fl, sc, k) \cup Foreign
                           THEN inflight_exceptions ELSE Front(inflight_exceptions)

Running == ~Unwinding /\ ~dangling

Enter(kind) ==
    /\ Len(scopes) < MaxDepth
    /\ IF kind = "destructor" THEN Unwinding /\ ~dangling ELSE Running
    /\ scopes' = Append(scopes, Scope(kind, CHOOSE e \in Exception : TRUE))
    /\ UNCHANGED <<inflight_exceptions, flying, kept, thrown, history>>

\* The constructor of a base_exception runs before that counts as uncaught.
Throw(e) ==
    /\ Running /\ e \notin thrown
    /\ inflight_exceptions' =
           IF e \in Foreign THEN inflight_exceptions
           ELSE Append(inflight_exceptions, [ptr |-> e, idx |-> uncaught_exceptions])
    /\ flying' = Append(flying, e)
    /\ thrown' = thrown \cup {e}
    /\ UNCHANGED <<scopes, kept, history>>

\* throw; in a handler (not from a destructor that runs inside it), or
\* rethrow_exception of one that was kept.
Rethrow(e) ==
    /\ Running /\ e \notin ToSet(flying)
    /\ \/ e \in kept
       \/ \E i \in DOMAIN scopes :
             /\ scopes[i].kind = "handler" /\ scopes[i].e = e
             /\ \A j \in DOMAIN scopes : j > i => scopes[j].kind \in {"context", "try"}
    /\ flying' = Append(flying, e)
    /\ UNCHANGED <<inflight_exceptions, scopes, kept, thrown, history>>

Catch ==
    /\ Unwinding /\ Inside("try")
    /\ scopes' = Append(Front(scopes), Scope("handler", Last(flying)))
    /\ flying' = Front(flying)
    /\ UNCHANGED <<inflight_exceptions, kept, thrown, history>>

PassTry ==
    /\ Unwinding /\ Inside("try")
    /\ scopes' = Front(scopes)
    /\ UNCHANGED <<inflight_exceptions, flying, kept, thrown, history>>

\* The scope_exit of EXCEPTION_CONTEXT.
PassContext ==
    /\ Unwinding /\ ~dangling /\ Inside("context")
    /\ dangling' = ~(Receiver \subseteq Held(flying, scopes, kept))
    /\ scopes' = Front(scopes)
    /\ UNCHANGED <<inflight_exceptions, flying, kept, thrown, everEscaped, everKept>>

\* A handler is left by an exception: the one it caught may go for good.
PassHandler ==
    LET e == Last(scopes).e
    IN  /\ Unwinding /\ ~dangling /\ Inside("handler")
        /\ scopes' = Front(scopes)
        /\ Destroys(e, flying, Front(scopes), kept)
        /\ everEscaped' = (everEscaped \/ (e # Last(flying) /\ Foreign \cap {e, Last(flying)} = {}))
        /\ UNCHANGED <<flying, kept, thrown, everKept, dangling>>

\* A scope ends without an exception of its own; one at the end of a handler dies.
Leave ==
    /\ Running /\ scopes # <<>>
    /\ scopes' = Front(scopes)
    /\ IF Inside("handler") THEN Destroys(Last(scopes).e, flying, Front(scopes), kept)
                            ELSE UNCHANGED inflight_exceptions
    /\ UNCHANGED <<flying, kept, thrown, history>>

\* current_exception, and the end of what it returned.
Keep(e) ==
    /\ Running /\ Inside("handler") /\ Last(scopes).e = e
    /\ kept' = kept \cup {e}
    /\ everKept' = TRUE
    /\ UNCHANGED <<inflight_exceptions, flying, scopes, thrown, everEscaped, dangling>>

Drop(e) ==
    /\ Running /\ e \in kept
    /\ kept' = kept \ {e}
    /\ Destroys(e, flying, scopes, kept \ {e})
    /\ UNCHANGED <<flying, scopes, thrown, history>>

ExceptionInit ==
    /\ inflight_exceptions = <<>> /\ flying = <<>> /\ scopes = <<>>
    /\ kept = {} /\ thrown = {}
    /\ everEscaped = FALSE /\ everKept = FALSE /\ dangling = FALSE

\* An exception that no scope takes, or that would leave a destructor, ends the
\* program; so may a line written to an exception that is gone.
ExceptionNext ==
    \/ \E kind \in {"context", "try", "destructor"} : Enter(kind)
    \/ \E e \in Exception : Throw(e) \/ Rethrow(e) \/ Keep(e) \/ Drop(e)
    \/ Catch \/ PassTry \/ PassContext \/ PassHandler \/ Leave

ExceptionSpec == ExceptionInit /\ [][ExceptionNext]_exceptionVars

-----------------------------------------------------------------------------
\* The handlers of base_exceptions that run in the innermost of the destructors
\* being executed, or outside of all.
Handling == {i \in DOMAIN scopes :
    /\ scopes[i].kind = "handler" /\ scopes[i].e \notin Foreign
    /\ \A j \in DOMAIN scopes : j > i => scopes[j].kind # "destructor"}

\* What the last of them handles.
HandledHere == {scopes[i].e : i \in {k \in Handling : \A l \in Handling : l <= k}}

\* Each context that a base_exception passes adds its line to that one, also when
\* destructors throw and catch others on the way.  That an exception of another
\* type passes is noticed, and nothing added, except inside the handler of a
\* base_exception: the count fits there, and the line goes to the one that is
\* being handled.  All of this unless some base_exception left the handler of
\* another, whose destructor then pops the handle of the one that passes, or an
\* exception_ptr was made, which the comment at src/ivl/exception/default.hpp:11
\* knows; it names neither of the other two.
ContextsReachTheirException ==
    (~everEscaped /\ ~everKept /\ Unwinding /\ Inside("context")) =>
        Receiver = IF Last(flying) \in Foreign THEN HandledHere ELSE {Last(flying)}
=============================================================================
