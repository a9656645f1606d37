------------------------------- MODULE HDFTrace -------------------------------
(***************************************************************************)
(* The Pablo I/O tracing wrappers of HDF (src/unnamed/part_000).           *)
(*                                                                         *)
(* HDFinitTrace selects an output (SDDF file, real-time summary, or none)  *)
(* and turns IOtracingEnabled on; HDFendTrace closes the selected output.  *)
(* Every HDFtraceXXX wrapper emits a begin event, performs the stdio/POSIX *)
(* call, and emits an end event, each only while IOtracingEnabled is set;  *)
(* traceIOEvent routes an event to the SDDF or the real-time backend by    *)
(* OUTPUT_SWITCH.  The HDF library's own trace macros (not in the sources) *)
(* call startHDFtraceEvent / endHDFtraceEvent when a procTrace bit is set. *)
(*                                                                         *)
(* The library is single-threaded: each wrapper is one step.  Event        *)
(* payloads (file ids, byte counts, offsets) are data and are left out; a  *)
(* wrapper's events are its event family and begin/end.                    *)
(*                                                                         *)
(* Ghost state records what the properties talk about: the backend states *)
(* events were delivered in and the backends used since the last init.     *)
(***************************************************************************)
EXTENDS Integers, Sequences, FiniteSets

CONSTANTS
    Masks,      \* procTraceMask values a caller passes (0: trace nothing)
    OutSws      \* out_sw values a caller passes

VARIABLES
    IOtracingEnabled, OUTPUT_SWITCH, procTrace, backend, exited,
    ioDelivered, apiDelivered, routes

vars == <<IOtracingEnabled, OUTPUT_SWITCH, procTrace, backend, exited,
          ioDelivered, apiDelivered, routes>>

NO_OUTPUT   == 0
SDDF_OUTPUT == 1
RT_OUTPUT   == 2
Backends    == {"SDDF", "RT"}
\* The state of a backend: never started, started by HDFinitTrace_*, closed by HDFendTrace_*.
BackendStates == {"idle", "on", "ended"}

(***************************************************************************)
(* Routing of events to a backend.                                        *)
(***************************************************************************)

(* Mutation: traceIOEvent testing for the real-time switch instead.        *)
traceIOEvent_swapped(sw) == IF sw = RT_OUTPUT THEN "SDDF" ELSE "RT"

\* traceIOEvent: SDDF when OUTPUT_SWITCH is 1, the real-time backend otherwise.
traceIOEvent(sw) == IF sw = 1 THEN "SDDF" ELSE "RT"

\* startHDFtraceEvent and endHDFtraceEvent route the same way.
startHDFtraceRoute(sw) == IF sw = SDDF_OUTPUT THEN "SDDF" ELSE "RT"
endHDFtraceRoute(sw)   == IF sw = SDDF_OUTPUT THEN "SDDF" ELSE "RT"

(* One wrapper call of event family fam: the begin event when hasBegin,    *)
(* the call itself, and the end event when hasEnd, each while tracing is   *)
(* enabled (the flag cannot change between the two checks).                *)
TraceIO(fam, hasBegin, hasEnd) ==
    LET b == traceIOEvent(OUTPUT_SWITCH)
        on == IOtracingEnabled = 1 /\ (hasBegin \/ hasEnd)
    IN  /\ ~exited
        /\ ioDelivered' = IF on THEN ioDelivered \cup {[to |-> b, state |-> backend[b]]}
                          ELSE ioDelivered
        /\ routes' = IF on THEN routes \cup {b} ELSE routes
        /\ UNCHANGED <<IOtracingEnabled, OUTPUT_SWITCH, procTrace, backend, exited, apiDelivered>>

(***************************************************************************)
(* The wrappers.  Each emits its family's begin and end; HDFtraceFFLUSH    *)
(* emits no begin for a NULL stream, HDFtraceFPUTC emits the end only when *)
(* fputc returned EOF.  HDFtraceFSETPOS is compiled only under             *)
(* "#ifdef fpos_t", which no platform defines as a macro.                  *)
(***************************************************************************)
HDFtraceFOPEN  == TraceIO("fopen", TRUE, TRUE)
HDFtrace3OPEN  == TraceIO("open", TRUE, TRUE)
HDFtraceCREAT  == TraceIO("open", TRUE, TRUE)
HDFtraceFFLUSH(streamIsNull) == TraceIO("fflush", ~streamIsNull, TRUE)
HDFtraceFCLOSE == TraceIO("fclose", TRUE, TRUE)
HDFtraceCLOSE  == TraceIO("close", TRUE, TRUE)
HDFtraceREAD   == TraceIO("read", TRUE, TRUE)
HDFtraceFREAD  == TraceIO("fread", TRUE, TRUE)
HDFtraceLSEEK  == TraceIO("lseek", TRUE, TRUE)
HDFtraceFSEEK  == TraceIO("fseek", TRUE, TRUE)
HDFtraceREWIND == TraceIO("rewind", TRUE, TRUE)
HDFtraceWRITE  == TraceIO("write", TRUE, TRUE)
HDFtraceFWRITE == TraceIO("fwrite", TRUE, TRUE)
HDFtracePUTS   == TraceIO("fwrite", TRUE, TRUE)
HDFtraceFPUTC(retIsEOF) == TraceIO("fwrite", TRUE, retIsEOF)
HDFtraceFPUTS  == TraceIO("fwrite", TRUE, TRUE)

(* startHDFtraceEvent / endHDFtraceEvent, called by the HDF library's      *)
(* trace macros while a bit of procTrace is set.                           *)
HDFapiEvent(isStart) ==
    LET b == IF isStart THEN startHDFtraceRoute(OUTPUT_SWITCH)
             ELSE endHDFtraceRoute(OUTPUT_SWITCH)
    IN  /\ ~exited /\ procTrace # 0
        /\ apiDelivered' = apiDelivered \cup {[to |-> b, state |-> backend[b]]}
        /\ routes' = routes \cup {b}
        /\ UNCHANGED <<IOtracingEnabled, OUTPUT_SWITCH, procTrace, backend, exited,
                       ioDelivered>>

(* Mutation: HDFinitTrace without the exit(-1) for an invalid out_sw.     *)
HDFinitTrace_noExit(sw, mask) ==
    /\ ~exited
    /\ \/ /\ sw \in {SDDF_OUTPUT, RT_OUTPUT}
          /\ backend' = [backend EXCEPT ![IF sw = SDDF_OUTPUT THEN "SDDF" ELSE "RT"] = "on"]
          /\ procTrace' = mask
       \/ /\ sw \notin {SDDF_OUTPUT, RT_OUTPUT}
          /\ procTrace' = 0
          /\ UNCHANGED backend
    /\ IOtracingEnabled' = 1 /\ OUTPUT_SWITCH' = sw /\ routes' = {}
    /\ UNCHANGED <<exited, ioDelivered, apiDelivered>>

(* HDFinitTrace: start the selected backend (HDFinitTrace_SDDF/_RT, which  *)
(* take the procedure mask), or for NO_OUTPUT clear procTrace; any other   *)
(* out_sw prints an error and exits the program.  Then tracing is enabled  *)
(* and OUTPUT_SWITCH records out_sw.                                       *)
HDFinitTrace(sw, mask) ==
    /\ ~exited
    /\ \/ /\ sw \in {SDDF_OUTPUT, RT_OUTPUT}
          /\ backend' = [backend EXCEPT ![IF sw = SDDF_OUTPUT THEN "SDDF" ELSE "RT"] = "on"]
          /\ procTrace' = mask
          /\ IOtracingEnabled' = 1 /\ OUTPUT_SWITCH' = sw /\ routes' = {}
          /\ UNCHANGED exited
       \/ /\ sw = NO_OUTPUT
          /\ procTrace' = 0
          /\ IOtracingEnabled' = 1 /\ OUTPUT_SWITCH' = sw /\ routes' = {}
          /\ UNCHANGED <<backend, exited>>
       \/ /\ sw \notin {NO_OUTPUT, SDDF_OUTPUT, RT_OUTPUT}       \* exit(-1)
          /\ exited' = TRUE
          /\ UNCHANGED <<backend, procTrace, IOtracingEnabled, OUTPUT_SWITCH, routes>>
    /\ UNCHANGED <<ioDelivered, apiDelivered>>

\* hinittracex_: the Fortran entry copies the file name and calls HDFinitTrace.
hinittracex_(sw, mask) == HDFinitTrace(sw, mask)

(* Mutation: HDFendTrace leaving procTrace set.                            *)
HDFendTrace_keepsMask(clears) ==
    /\ ~exited
    /\ backend' = CASE OUTPUT_SWITCH = SDDF_OUTPUT -> [backend EXCEPT !["SDDF"] = "ended"]
                    [] OUTPUT_SWITCH = RT_OUTPUT   -> [backend EXCEPT !["RT"] = "ended"]
                    [] OTHER -> backend
    /\ IOtracingEnabled' = IF clears THEN 0 ELSE IOtracingEnabled
    /\ UNCHANGED <<OUTPUT_SWITCH, procTrace, exited, ioDelivered, apiDelivered, routes>>

(* HDFendTrace: close the backend OUTPUT_SWITCH selects and clear          *)
(* procTrace.  IOtracingEnabled and OUTPUT_SWITCH are left as they are;    *)
(* whether HDFendTrace_SDDF / _RT (not in the sources) clear               *)
(* IOtracingEnabled is left open (clears).                                 *)
HDFendTrace(clears) ==
    /\ ~exited
    /\ backend' = CASE OUTPUT_SWITCH = SDDF_OUTPUT -> [backend EXCEPT !["SDDF"] = "ended"]
                    [] OUTPUT_SWITCH = RT_OUTPUT   -> [backend EXCEPT !["RT"] = "ended"]
                    [] OTHER -> backend
    /\ procTrace' = 0
    /\ IOtracingEnabled' = IF clears THEN 0 ELSE IOtracingEnabled
    /\ UNCHANGED <<OUTPUT_SWITCH, exited, ioDelivered, apiDelivered, routes>>

\* hdfendtrace_: the Fortran entry.
hdfendtrace_(clears) == HDFendTrace(clears)

Init ==
    /\ IOtracingEnabled = 0
    /\ OUTPUT_SWITCH = NO_OUTPUT
    /\ procTrace = 0
    /\ backend = [b \in Backends |-> "idle"]
    /\ exited = FALSE
    /\ ioDelivered = {} /\ apiDelivered = {} /\ routes = {}

Next ==
    \/ \E sw \in OutSws, mask \in Masks : HDFinitTrace(sw, mask) \/ hinittracex_(sw, mask)
    \/ \E clears \in BOOLEAN : HDFendTrace(clears) \/ hdfendtrace_(clears)
    \/ \E isStart \in BOOLEAN : HDFapiEvent(isStart)
    \/ HDFtraceFOPEN \/ HDFtrace3OPEN \/ HDFtraceCREAT \/ HDFtraceFCLOSE \/ HDFtraceCLOSE
    \/ HDFtraceREAD \/ HDFtraceFREAD \/ HDFtraceLSEEK \/ HDFtraceFSEEK \/ HDFtraceREWIND
    \/ HDFtraceWRITE \/ HDFtraceFWRITE \/ HDFtracePUTS \/ HDFtraceFPUTS
    \/ \E isNull \in BOOLEAN : HDFtraceFFLUSH(isNull)
    \/ \E isEOF \in BOOLEAN : HDFtraceFPUTC(isEOF)

Spec == Init /\ [][Next]_vars

-----------------------------------------------------------------------------
(***************************************************************************)
(* Properties.                                                             *)
(***************************************************************************)

Delivery == [to : Backends, state : BackendStates]

TypeOK ==
    /\ IOtracingEnabled \in {0, 1}
    /\ OUTPUT_SWITCH \in {NO_OUTPUT, SDDF_OUTPUT, RT_OUTPUT}
    /\ procTrace \in Masks \cup {0}
    /\ backend \in [Backends -> BackendStates]
    /\ exited \in BOOLEAN
    /\ ioDelivered \subseteq Delivery /\ apiDelivered \subseteq Delivery
    /\ routes \subseteq Backends

(* One backend per trace session: between two HDFinitTrace calls, the     *)
(* events of the I/O wrappers (traceIOEvent) and of the HDF procedures     *)
(* (startHDFtraceEvent / endHDFtraceEvent) all go to the same backend, so  *)
(* an I/O record is never separated from the procedure that caused it.     *)
RoutingConsistent == Cardinality(routes) <= 1

(* Procedure events only while tracing: startHDFtraceEvent and            *)
(* endHDFtraceEvent reach a backend only after HDFinitTrace started it and *)
(* before HDFendTrace closed it (both through procTrace).                   *)
ApiEventsOnlyWhileTracing == \A d \in apiDelivered : d.state = "on"

(* I/O events only while tracing: every event an HDFtraceXXX wrapper       *)
(* emits reaches a backend HDFinitTrace started and HDFendTrace has not    *)
(* closed.                                                                 *)
IOEventsOnlyWhileTracing == \A d \in ioDelivered : d.state = "on"

=============================================================================
