---------------------------- MODULE PartialUpdate ---------------------------
(***************************************************************************)
(* Zero values in updates.  Administrators change the options of a monitor *)
(* with monitors.Update, from copies they have read and edited.  As a copy *)
(* may be arbitrarily old, an update may carry any values.  A Go zero value*)
(* is left out of the request, and the server leaves members that are      *)
(* missing as they are.                                                    *)
(***************************************************************************)
EXTENDS Integers

CONSTANT Delays          \* the values of requestDelay

ASSUME DelaysAssumption == Delays \subseteq Nat /\ 0 \in Delays

VARIABLE monitor         \* the monitor on the server

Options == [followRedirects: BOOLEAN, strictSsl: BOOLEAN, requestDelay: Delays]

Monitor == [active: BOOLEAN, options: Options]

UpdateInit == monitor \in Monitor

-----------------------------------------------------------------------------
(* The requests: an optional member is a set of at most one value.         *)

intToRaw(v) == {v} \ {0}
onlyTrue(b) == {b} \ {FALSE}

\* A mutant of optionsToAPI: both flags are always set.
optionsToAPIWithFlags(o) ==
    [followRedirects |-> {o.followRedirects}, strictSsl |-> {o.strictSsl},
     requestDelay |-> intToRaw(o.requestDelay)]

optionsToAPI(o) ==
    [followRedirects |-> onlyTrue(o.followRedirects),
     strictSsl |-> onlyTrue(o.strictSsl),
     requestDelay |-> intToRaw(o.requestDelay)]

\* What the server makes of an optional member.
Or(member, old) == IF member = {} THEN old ELSE CHOOSE x \in member : TRUE

-----------------------------------------------------------------------------

\* monitors.Update, with options or a nil pointer; Active is a pointer too,
\* nil or to either value.
UpdateMonitor(options, active) ==
    monitor' =
        [active |-> Or(active, monitor.active),
         options |->
            IF options = {} THEN monitor.options
            ELSE LET api == optionsToAPI(CHOOSE o \in options : TRUE)
                     old == monitor.options
                 IN  [m \in DOMAIN old |-> Or(api[m], old[m])]]

UpdateNext ==
    \E options \in {{}} \cup {{o} : o \in Options},
       active \in {{}, {TRUE}, {FALSE}} : UpdateMonitor(options, active)

UpdateSpec == UpdateInit /\ [][UpdateNext]_monitor

-----------------------------------------------------------------------------
(* The property.                                                           *)

\* No sequence of updates, with however old copies, switches an option of a
\* monitor off or resets its delay: the zero values of Options cannot be told
\* from unset ones.
OptionsAreNeverReset ==
    [][LET new == monitor'.options
           old == monitor.options
       IN  /\ old.followRedirects => new.followRedirects
           /\ old.strictSsl => new.strictSsl
           /\ old.requestDelay > 0 => new.requestDelay > 0]_monitor

=============================================================================
