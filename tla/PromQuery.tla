----------------------------- MODULE PromQuery ------------------------------
(***************************************************************************)
(* main of prom-network-query.py (lines 301-391) with parse_window_args   *)
(* (125-181), get_increase (270-283), get_time_series (286-298),          *)
(* get_single_series (258-267) and prom_query (184-223).  One action per  *)
(* step of main; each Prometheus query is answered by a response chosen   *)
(* from a small set, covering every error path of prom_query and of the   *)
(* shape checks.                                                           *)
(*                                                                         *)
(* Time is counted in hours, so an epoch argument is a whole hour and the *)
(* code's "hours * 3600" is "hours".  A raw sample is its counter value   *)
(* after int(float(val)) (line 358); its timestamp is its position.       *)
(* The --prometheus URL is a record of what urlparse finds in it; host   *)
(* names resolve through a resolver whose answer may change at any time  *)
(* to one of RebindAnswers.  The printing is not modelled.               *)
(***************************************************************************)
EXTENDS Integers, Sequences, SequencesExt, FiniteSets

CONSTANTS
    Now,            \* datetime.now() at lines 168 and 172
    MinTs, MaxTs,   \* the timestamps datetime.fromtimestamp accepts
    HourArgs,       \* integer values given for <hours>
    EpochArgs,      \* integer values given for <start_epoch> <end_epoch>
    NotInt,         \* an argument int() rejects
    None,           \* no value
    IncreaseValues, \* values an increase() query may return
    SampleValues,   \* raw counter values a range query may return
    MaxSamples,     \* longest raw series considered
    Urls,           \* --prometheus values, as parsed by urlparse
    Addrs,          \* IP addresses
    PrivateAddrs,   \* the loopback, link-local and private ones
    DnsAnswers,     \* what the resolver may answer for a host name at start
    RebindAnswers   \* what it may answer later ({}: resolution fails)

(* The positional arguments main may be given. *)
ArgLists ==
    {<<>>} \cup {<<h>> : h \in HourArgs \cup {NotInt}}
    \cup {<<s, e>> : s, e \in EpochArgs \cup {NotInt}}
    \cup {<<h, h, h>> : h \in HourArgs}

(* What a query can end in: PromQueryError from prom_query (connection,   *)
(* HTTP status, JSON or API error: "failed"), an empty result, more than *)
(* one series, one series of an unexpected shape, or one usable series.   *)
Errors == {"failed", "ambiguous", "malformed"}
IncreaseResponses ==
    [kind : Errors \cup {"none"}] \cup [kind : {"ok"}, value : IncreaseValues]
SeriesResponses ==
    [kind : Errors \cup {"none"}]
    \cup [kind : {"ok"}, values : BoundedSeq(SampleValues, MaxSamples)]

VARIABLES
    argv,       \* the positional arguments
    url,        \* the --prometheus argument
    dns,        \* the resolver's current answer for url's host name
    connections,\* the addresses a request has been sent to
    pc,         \* the step of main
    start, end, \* the measurement window
    rx, tx,     \* rx_increase, tx_increase
    values,     \* the raw samples
    k,          \* position of the reset scan in values
    prevVal,    \* prev_val
    resets,     \* resets: <<position, before, after>> per reset
    exitCode,   \* main's return value, or the exit status of parser.error
    summary     \* the JSON summary printed at line 390, or None

vars == <<argv, url, dns, connections, pc, start, end, rx, tx, values, k, prevVal, resets,
          exitCode, summary>>

TypeOK ==
    /\ argv \in ArgLists
    /\ url \in Urls /\ dns \subseteq Addrs /\ connections \subseteq Addrs
    /\ pc \in {"args", "parse", "header", "rx", "tx", "series", "scan", "usage", "exit",
               "crashed"}
    /\ start \in Int /\ end \in Int
    /\ rx \in IncreaseValues \cup {None} /\ tx \in IncreaseValues \cup {None}
    /\ values \in BoundedSeq(SampleValues, MaxSamples)
    /\ k \in 1..MaxSamples + 1
    /\ prevVal \in SampleValues \cup {None}
    /\ resets \in Seq((1..MaxSamples) \X SampleValues \X SampleValues)
    /\ exitCode \in {None, 0, 1, 2}
    /\ summary = None
       \/ summary \in [rx_bytes : IncreaseValues \cup {0},
                       tx_bytes : IncreaseValues \cup {0},
                       duration_seconds : Int,
                       counter_resets : Nat, samples : Nat]

(* Lines 157-176: the window the arguments ask for, or <<>> when         *)
(* parser.error exits.                                                    *)
Requested(a) ==
    CASE Len(a) = 2 -> IF NotInt \in ToSet(a) THEN <<>> ELSE a
      [] Len(a) = 1 -> IF a[1] = NotInt THEN <<>> ELSE <<Now - a[1], Now>>
      [] Len(a) = 0 -> <<Now - 4, Now>>
      [] OTHER -> <<>>

(* Lines 157-181: parse_window_args, with the check of line 178. *)
ParseWindowArgs(a) ==
    LET w == Requested(a) IN IF w = <<>> \/ w[2] <= w[1] THEN <<>> ELSE w

(* fmt_ts (line 237): datetime.fromtimestamp raises outside its range. *)
Formattable(t) == MinTs <= t /\ t <= MaxTs

(* Lines 98-110: the checks of _validate_prometheus_url on the parts of  *)
(* the URL.                                                               *)
WellFormed(u) ==
    /\ u.scheme \in {"http", "https"}
    /\ ~u.credentials /\ ~u.extras
    /\ u.host # None /\ u.portOk

(* A slip: a host name is accepted without looking at its addresses. *)
HostAllowedLiteralOnly(h, answer) == h \in Addrs => h \in PrivateAddrs

(* Lines 58-93: _validate_prometheus_host.  An IP literal must be        *)
(* private; a name must resolve, and to private addresses only.           *)
HostAllowed(h, answer) ==
    IF h \in Addrs THEN h \in PrivateAddrs
    ELSE answer # {} /\ answer \subseteq PrivateAddrs

(* Line 190: HTTPConnection connects to the host by name, so a name is   *)
(* resolved again, to the resolver's answer at that moment.              *)
Reachable(h) == IF h \in Addrs THEN {h} ELSE dns

Init ==
    /\ argv \in ArgLists
    /\ url \in Urls /\ dns \in DnsAnswers /\ connections = {}
    /\ pc = "args"
    /\ start = 0 /\ end = 0 /\ rx = None /\ tx = None
    /\ values = <<>> /\ k = 1 /\ prevVal = None /\ resets = <<>>
    /\ exitCode = None /\ summary = None

(* An error printed by main, which returns 1 (lines 321-323, 343-345). *)
Fail == pc' = "exit" /\ exitCode' = 1

(* Lines 134-139 and 155: argparse converts --prometheus (its default   *)
(* too) with _validate_prometheus_url; a rejection is a usage error,    *)
(* status 2, before the window is looked at.                             *)
ValidateUrl ==
    /\ pc = "args"
    /\ IF WellFormed(url) /\ HostAllowed(url.host, dns)
       THEN pc' = "parse" /\ UNCHANGED exitCode
       ELSE pc' = "usage" /\ exitCode' = 2
    /\ UNCHANGED <<argv, url, dns, connections, start, end, rx, tx, values, k,
                   prevVal, resets, summary>>

(* Line 302: parse the window; parser.error exits with status 2. *)
ParseWindow ==
    /\ pc = "parse"
    /\ LET w == ParseWindowArgs(argv) IN
        IF w = <<>>
        THEN pc' = "exit" /\ exitCode' = 2 /\ UNCHANGED <<start, end>>
        ELSE pc' = "header" /\ start' = w[1] /\ end' = w[2]
                /\ UNCHANGED exitCode
    /\ UNCHANGED <<argv, url, dns, connections, rx, tx, values, k, prevVal, resets, summary>>

(* Lines 304-309: the header formats both ends of the window; an error *)
(* of fromtimestamp is not caught and ends the process.                 *)
PrintHeader ==
    /\ pc = "header"
    /\ pc' = IF Formattable(start) /\ Formattable(end) THEN "rx" ELSE "crashed"
    /\ UNCHANGED <<argv, url, dns, connections, start, end, rx, tx, values, k, prevVal, resets,
                   exitCode, summary>>

(* get_increase: None for an empty result, the value of a usable one. *)
Increase(r) == IF r.kind = "none" THEN None ELSE r.value

(* Lines 189-199: prom_query sends its request to one of the addresses  *)
(* the host reaches now; when there is none the connection fails.        *)
Connect ==
    IF Reachable(url.host) = {} THEN UNCHANGED connections
    ELSE \E a \in Reachable(url.host) : connections' = connections \cup {a}

Answers(rs) ==
    IF Reachable(url.host) = {} THEN {r \in rs : r.kind = "failed"} ELSE rs

(* Lines 313-320: the increase() queries for received and sent bytes. *)
QueryRx ==
    /\ pc = "rx" /\ Connect
    /\ \E r \in Answers(IncreaseResponses) :
        IF r.kind \in Errors THEN Fail /\ UNCHANGED rx
        ELSE pc' = "tx" /\ rx' = Increase(r) /\ UNCHANGED exitCode
    /\ UNCHANGED <<argv, url, dns, start, end, tx, values, k, prevVal, resets, summary>>

QueryTx ==
    /\ pc = "tx" /\ Connect
    /\ \E r \in Answers(IncreaseResponses) :
        IF r.kind \in Errors THEN Fail /\ UNCHANGED tx
        ELSE pc' = "series" /\ tx' = Increase(r) /\ UNCHANGED exitCode
    /\ UNCHANGED <<argv, url, dns, start, end, rx, values, k, prevVal, resets, summary>>

(* Lines 340-349: the raw receive series; with no samples main returns 0 *)
(* at once.                                                               *)
QuerySeries ==
    /\ pc = "series" /\ Connect
    /\ \E r \in Answers(SeriesResponses) :
        IF r.kind \in Errors THEN Fail /\ UNCHANGED values
        ELSE LET vs == IF r.kind = "none" THEN <<>> ELSE r.values IN
             /\ values' = vs
             /\ IF vs = <<>> THEN pc' = "exit" /\ exitCode' = 0
                ELSE pc' = "scan" /\ UNCHANGED exitCode
    /\ UNCHANGED <<argv, url, dns, start, end, rx, tx, k, prevVal, resets, summary>>

IsReset(val) == prevVal # None /\ val < prevVal

(* A slip: prev_val keeps the highest value seen instead of the last. *)
ScanSampleHighWater ==
    /\ pc = "scan" /\ k <= Len(values)
    /\ LET val == values[k] IN
        /\ resets' = IF IsReset(val) THEN Append(resets, <<k, prevVal, val>>)
                     ELSE resets
        /\ prevVal' = IF IsReset(val) THEN prevVal ELSE val
    /\ k' = k + 1
    /\ UNCHANGED <<argv, url, dns, connections, pc, start, end, rx, tx, values, exitCode, summary>>

(* Lines 355-369: one iteration of the scan; a drop from the previous   *)
(* sample is a reset.                                                     *)
ScanSample ==
    /\ pc = "scan" /\ k <= Len(values)
    /\ LET val == values[k] IN
        /\ resets' = IF IsReset(val) THEN Append(resets, <<k, prevVal, val>>)
                     ELSE resets
        /\ prevVal' = val
    /\ k' = k + 1
    /\ UNCHANGED <<argv, url, dns, connections, pc, start, end, rx, tx, values, exitCode, summary>>

(* A slip: the summary takes the increases without the None test. *)
SummarizeUnchecked ==
    /\ pc = "scan" /\ k > Len(values)
    /\ summary' = [rx_bytes |-> rx, tx_bytes |-> tx,
                   duration_seconds |-> end - start,
                   counter_resets |-> Len(resets), samples |-> Len(values)]
    /\ pc' = "exit" /\ exitCode' = 0
    /\ UNCHANGED <<argv, url, dns, connections, start, end, rx, tx, values, k, prevVal, resets>>

(* Lines 371-391: the JSON summary; a missing increase reads as 0. *)
Summarize ==
    /\ pc = "scan" /\ k > Len(values)
    /\ summary' = [rx_bytes |-> IF rx = None THEN 0 ELSE rx,
                   tx_bytes |-> IF tx = None THEN 0 ELSE tx,
                   duration_seconds |-> end - start,
                   counter_resets |-> Len(resets),
                   samples |-> Len(values)]
    /\ pc' = "exit" /\ exitCode' = 0
    /\ UNCHANGED <<argv, url, dns, connections, start, end, rx, tx, values, k, prevVal, resets>>

(* The resolver's answer for the host name changes while the tool runs. *)
DnsChange ==
    /\ pc \notin {"usage", "exit", "crashed"}
    /\ dns' \in RebindAnswers \ {dns}
    /\ UNCHANGED <<argv, url, connections, pc, start, end, rx, tx, values, k,
                   prevVal, resets, exitCode, summary>>

(* The process has ended. *)
Exited ==
    /\ pc \in {"usage", "exit", "crashed"}
    /\ UNCHANGED vars

Next ==
    \/ ValidateUrl \/ ParseWindow \/ PrintHeader \/ QueryRx \/ QueryTx \/ QuerySeries
    \/ ScanSample \/ Summarize \/ DnsChange \/ Exited

Spec == Init /\ [][Next]_vars

-----------------------------------------------------------------------------
(* The reference: positions whose sample is below the one before it. *)
Drops(vs) == {i \in 2..Len(vs) : vs[i] < vs[i - 1]}

(* The summary counts exactly the drops between consecutive samples, and *)
(* the reset list records each one with the values on either side        *)
(* (the scan of lines 355-369).                                           *)
ResetsMatchDrops ==
    summary # None =>
        /\ summary.counter_resets = Cardinality(Drops(values))
        /\ ToSet(resets) = {<<i, values[i - 1], values[i]>> : i \in Drops(values)}

(* Every argument list ends in a status of main or parser.error, never   *)
(* in a traceback (the header's fmt_ts, line 305).                        *)
NoTraceback == pc # "crashed"

(* Every request the tool sends goes to a loopback, link-local or private *)
(* address: the guard of lines 58-122 protects the connections prom_query *)
(* opens (line 190), however the host name resolves meanwhile.            *)
ConnectionsPrivate == connections \subseteq PrivateAddrs

=============================================================================
