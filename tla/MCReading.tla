------------------------------- MODULE MCReading -------------------------------
(* Instances of Reading.                                                     *)
EXTENDS Reading

Joined(first, and, second) == [first |-> first, rest |-> <<[and |-> and, term |-> second]>>]

one == Term(<<"cpu", "irq">>, ">", Number("20"))
two == Term(<<"irq">>, "==", Boolean(TRUE))
swallowed == TermPath(<<"irq">>, "<=", <<"infra", "cpu">>)
infinite == TermPath(<<"irq">>, "<", <<"inf">>)

MCWhens ==
    {Only(t) : t \in {one, two, swallowed, infinite,
                      Term(<<"infra">>, "!=", Text("'x'")), Term(<<"cpu">>, ">=", Number("inf")),
                      TermPath(<<"cpu">>, "<", <<"cpu", "irq">>)}}
    \cup {Joined(one, TRUE, two), Joined(two, FALSE, swallowed),
          [first |-> two, rest |-> <<[and |-> FALSE, term |-> one], [and |-> TRUE, term |-> two]>>]}

good == <<"cpu", " ", ">", " ", "1">>
bad == <<"cpu", "-", "irq", ">", "1">>
MCTables == {[id |-> id, when |-> w, severity |-> s] :
                id \in {"a", "b"}, w \in {good, bad}, s \in {"Warn", "fatal"}}
MCFiles == {Malformed} \cup BoundedSeq(MCTables, 2)

MCLines == {[load |-> NoMatch, err |-> NoMatch], [load |-> 4, err |-> NoMatch],
            [load |-> 2, err |-> NoMatch], [load |-> 9, err |-> NoNumber],
            [load |-> NoNumber, err |-> NoNumber]}
MCExtracts == {<<Extract("n", "err", "count"), Extract("e", "err", "last"), Extract("l", "load", a)>> :
                  a \in Aggregates}
Command(status, lines, extracts) == [status |-> status, lines |-> lines, extracts |-> extracts]
MCResults ==
    {<<>>}
    \cup {<< <<Command("success", ls, es)>> >> : ls \in BoundedSeq(MCLines, 3), es \in MCExtracts}
    \cup {<< <<Command(s, <<l>>, es), Command("success", <<l>>, es)>>, <<Command("success", <<l>>, es)>> >> :
             s \in {"success", "failed"}, l \in MCLines, es \in MCExtracts}

MCRows == [nic : BOOLEAN, fields : {<<>>, <<0, 3, Junk>>, <<2, Junk, 7>>, <<4, 1, 5>>}]
MCInterrupts == [cpus : 0..3, rows : BoundedSeq(MCRows, 2)]

v2 == [f \in {"memory.current"} |-> 10]
v2full == [oom_kill |-> 3]
MCGroups == {
    v2, <<>>,
    ("memory.current" :> 10) @@ ("memory.max" :> Unlimited) @@ ("memory.events" :> v2full),
    ("memory.current" :> Junk) @@ ("memory.max" :> 2 * NoLimit) @@ ("cpu.stat" :> <<>>),
    ("cgroup.controllers" :> Junk) @@ ("memory.max" :> Junk) @@ ("pids.current" :> 2)
        @@ ("cpu.stat" :> [throttled_usec |-> 4]),
    ("memory/memory.usage_in_bytes" :> 10) @@ ("memory/memory.limit_in_bytes" :> 2 * NoLimit)
        @@ ("memory.events" :> v2full),
    ("memory/memory.limit_in_bytes" :> 30) @@ ("cpuacct/cpuacct.usage" :> 5000)}
MCCgroups ==
    [named : {Missing, "/a", "/gone"},
     lines : {<<>>, <<[version |-> 1, path |-> "/a"], [version |-> 2, path |-> "/"]>>,
              <<[version |-> 2, path |-> "/gone"], [version |-> 2, path |-> "/a"]>>},
     groups : {("/" :> v2) @@ ("/a" :> g) : g \in MCGroups}]

Bucket(lo, hi, count) == [lo |-> lo, hi |-> hi, count |-> count]
MCHistograms ==
    {Missing, <<Junk>>, <<Junk, Bucket(0, 1, Junk), Bucket(2, 3, 1)>>}
    \cup {<<Junk, Bucket(0, 1, c[1]), Bucket(2, 3, c[2]), Bucket(4, 7, c[3])>> :
             c \in (0..3) \X (0..2) \X (0..2)}
MCBpfHosts ==
    {[path |-> p, output |-> [b \in ToSet(Tools) \X {"", "-bpfcc"} |->
                                 IF b = <<"runqlat", "">> THEN h
                                 ELSE IF b[1] = "execsnoop" THEN <<Bucket(2, 3, 1)>> ELSE <<Junk>>]] :
        p \in {{}, {<<"runqlat", "">>, <<"runqlat", "-bpfcc">>, <<"execsnoop", "">>},
               {<<"runqlat", "-bpfcc">>, <<"cachestat", "">>}},
        h \in MCHistograms}

MCCpuHosts ==
    [cpus : BoundedSeq([cur : {Missing, 1, 3}, max : {Missing, 3, 4}], 2),
     zones : {<<>>, <<Junk>>, <<-5, Junk, 40>>}]

MCLogs ==
    [dmesg : {Missing, <<>>, <<{"oom"}, {"oom", "segfault"}, {}>>}, cpus : {2},
     memTotal : {Missing, 8}, loadavg : {Missing, 1}]

cpuNow == [user |-> 11, nice |-> 12, system |-> 13, idle |-> 14, iowait |-> 15, irq |-> 16,
           softirq |-> 17, steal |-> 18, guest |-> 19]
tcpNow == [InSegs |-> 21, OutSegs |-> 22, RetransSegs |-> 23, AttemptFails |-> 24, EstabResets |-> 25]
memNow == [total |-> 131, used |-> 32, free |-> 33, shared |-> 34, buff |-> 35, available |-> 36, cached |-> 40,
           swap_total |-> 37, swap_used |-> 38, swap_free |-> 39]
Drop(name, n) == [name |-> name, drops |-> n]
Row(name, coll, drop) ==
    [name |-> name, shows |-> [Ibytes |-> 50, Idrop |-> 51, Opkts |-> 52, Coll |-> coll, Drop |-> drop]]
Disk(name, n) == [name |-> name, read_ios |-> n, write_ios |-> n + 1, read_time |-> n + 2,
                  write_time |-> n + 3, io_time |-> n + 4]
MCMachines ==
    [cpuColumns : {SubSeq(Append(CpuColumns, "guest"), 1, n) : n \in {4, 5, 7, 8, 9}}, cpu : {cpuNow},
     tcpColumns : {<<>>, <<"OutSegs", "RetransSegs">>,
                   <<"AttemptFails", "EstabResets", "InSegs", "OutSegs", "RetransSegs">>},
     tcp : {tcpNow},
     memColumns : {<<"total", "used", "free">>,
                   <<"total", "used", "free", "shared", "buff", "cached">>,
                   <<"total", "used", "free", "shared", "buff", "available">>},
     swapColumns : {<<>>, SwapColumns}, mem : {memNow},
     pages : {<<>>, [n \in {"free", "active", "speculative", "Swapins"} |-> 4]},
     drops : {<<>>, <<Drop("eth0", 1), Drop("eth1", 2)>>},
     netColumns : {<<"Ibytes", "Idrop">>, <<"Ibytes", "Idrop", "Opkts", "Coll">>,
                   <<"Ibytes", "Idrop", "Opkts", "Coll", "Drop">>},
     net : {<<>>, <<Row("lo0", 1, 1), Row("en0", 3, Junk), Row("en0", Junk, 4), Row("en1", Junk, Junk)>>},
     disks : {<<>>, <<Disk("sda", 10), Disk("sdb", 20)>>}]

MCHistories == UNION {[1..n -> {-3, 0, 1, 7}] : n \in 1..4}

(* 10.0.0.12, of which a cut leaves 10.0.0.1 or 10.0.0. ; fe80::1 is no pattern's. *)
MCAddresses == {"10.0.0.12", "10.0.0.1"}
MCHashOf == ("10.0.0.12" :> "6b1f") @@ ("10.0.0.1" :> "c04e") @@ ("host" :> "66b1")
MCRemains == ("10.0.0.12" :> "10.0.0.1") @@ ("10.0.0.1" :> "10.0.0.") @@ ("host" :> "hos")
Measured(id, type, v, samples) == [id |-> id, value |-> Value(type, v), samples |-> samples]
MCSignals ==
    {Measured("cpu_count", "int", 4, Unsampled), Measured("cpu_count", "bool", TRUE, Unsampled),
     Measured("usr", "float", 4, <<3, 4>>), Measured("usr", "float", 4, <<Infinite, 4>>),
     Measured("usr", "float", Infinite, Unsampled),
     Measured("cpu_count", "text", <<"10.0.0.12", " ", "host", " ", "fe80::1">>, Unsampled)}
Ran(status, stdout) == [command |-> "c", status |-> status, stdout |-> stdout]
MCRepetitions ==
    {<<>>, << <<Ran("failed", <<"a">>), Ran("success", <<" ", "host", " ", " ", "10.0.0.12", " ">>)>>,
              <<Ran("success", <<"b">>)>> >>}
    \cup {<< <<Ran("success", <<x, " ", y, " ", "a">>)>> >> :
             x \in {"host", "fe80::1"}, y \in {"10.0.0.12", "10.0.0.1", "host", "a"}}
MCObserved == {Value("int", 4), Value("float", Infinite), Value("text", <<"10.0.0.1">>)}
MCConversions ==
    [report : [host : {[name |-> "host", uname |-> <<"Linux", " ", "host">>]},
               signals : BoundedSeq(MCSignals, 2),
               findings : {<<[summary |-> <<"a", " ", "10.0.0.12">>, observed |-> v]>> : v \in MCObserved},
               results : MCRepetitions],
     output : {"json", "llm", "template"}, template : {"unnamed", "missing", "there"}, redact : BOOLEAN]

MCPlace == <<>>
===============================================================================
