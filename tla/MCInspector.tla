---------------------------- MODULE MCInspector ----------------------------
(***************************************************************************)
(* The servers, tables and ALTER statements of the run: a plain table on   *)
(* many servers, and many tables on a plain server.                        *)
(***************************************************************************)
EXTENDS Inspector

Col(name, type) == Column(name, type, FALSE)
Primary(columns) == << Key("PRIMARY", columns) >>
Table(columns, itsKeys) == [columns |-> columns, keys |-> itsKeys]

PlainTable == Table(<<Col("a", "int"), Col("b", "int")>>, Primary(<<"a">>))

PlainServer ==
    [grants |-> {"ALL"}, logBin |-> TRUE, format |-> "ROW", image |-> "FULL",
     hasReplicas |-> FALSE, mariaDB |-> FALSE, gtid |-> TRUE,
     thread |-> [running |-> TRUE, format |-> "ROW", image |-> "FULL"],
     master |-> "none", upstream |-> [s \in {"m1", "m2"} |-> "none"],
     assumedMaster |-> "m2", logReplicaUpdates |-> TRUE]

PlainState == [kind |-> "table", foreignKeys |-> {}, triggers |-> FALSE,
               ghostTriggers |-> FALSE, sameOnApplier |-> TRUE]

Scenario(s, flags, state, alter, table, rows, changes, size) ==
    [server |-> s, options |-> flags, table |-> state, alter |-> alter,
     original |-> table, maxRows |-> rows,
     maxEvents |-> changes, chunkSize |-> size]

-----------------------------------------------------------------------------
(* Servers.                                                                *)

OnServer(s, flags) == Scenario(s, flags, PlainState, << >>, PlainTable, 0, 0, 1)
OnState(state, flags) ==
    Scenario(PlainServer, flags \cup {"allow-on-master"}, state, << >>, PlainTable, 0, 0, 1)

\* A master, a replica, a replica of a replica, and two masters of each other; one
\* whose master's replication does not run, or names no host.
Topologies ==
    {[master |-> "none", m1 |-> "none"], [master |-> "m1", m1 |-> "none"],
     [master |-> "m1", m1 |-> "m2"], [master |-> "m1", m1 |-> "inspected"],
     [master |-> "m1", m1 |-> "broken"], [master |-> "m1", m1 |-> "invalid"]}

Threads == [running : BOOLEAN, format : {"ROW", "STATEMENT"}, image : {"FULL", "MINIMAL"}]

Servers ==
    {[PlainServer EXCEPT !.format = f, !.image = i, !.thread = t,
                         !.master = topology.master, !.upstream["m1"] = topology.m1,
                         !.logReplicaUpdates = logUpdates] :
        f \in {"ROW", "STATEMENT"}, i \in {"FULL", "MINIMAL"}, t \in Threads,
        topology \in Topologies, logUpdates \in BOOLEAN}

ServerOptions ==
    SUBSET {"allow-on-master", "allow-master-master", "assume-rbr"} \cup
    {{"allow-on-master", "switch-to-rbr"}, {"test-on-replica"}, {"tungsten"},
     {"test-on-replica", "switch-to-rbr"}, {"assume-master-host"}}

Grants == SUBSET {"ALL", "SUPER", "REPLICATION CLIENT", "REPLICATION SLAVE",
                  "ALL on database"}

ServerScenarios ==
    {OnServer(s, o) : s \in Servers, o \in ServerOptions} \cup
    {OnServer([PlainServer EXCEPT !.grants = g], {"allow-on-master"}) : g \in Grants} \cup
    {OnServer([PlainServer EXCEPT !.logBin = FALSE], {"allow-on-master"})} \cup
    {OnServer([PlainServer EXCEPT !.format = "STATEMENT", !.hasReplicas = TRUE],
              {"allow-on-master", "switch-to-rbr"})} \cup
    {OnServer([PlainServer EXCEPT !.gtid = g, !.mariaDB = d], {"allow-on-master", "gtid"}) :
        g \in BOOLEAN, d \in BOOLEAN} \cup
    {OnState([PlainState EXCEPT !.kind = "view"], {})} \cup
    {OnState([PlainState EXCEPT !.sameOnApplier = FALSE], {})} \cup
    {OnState([PlainState EXCEPT !.foreignKeys = fks], o) :
        fks \in SUBSET {"parent", "child"},
        o \in SUBSET {"skip-foreign-key-checks", "discard-foreign-keys"}} \cup
    {OnState([PlainState EXCEPT !.triggers = TRUE, !.ghostTriggers = g], o) :
        g \in BOOLEAN, o \in SUBSET {"include-triggers"}}

-----------------------------------------------------------------------------
(* Tables.                                                                 *)

OnTable(alter, table, flags, rows, changes, size) ==
    Scenario(PlainServer, {"allow-on-master"} \cup flags, PlainState, alter, table,
             rows, changes, size)

\* Columns a, of the key, and b that changes its type.
Retyped(from, to) ==
    OnTable(<<Change("b", "b", to)>>, Table(<<Col("a", "int"), Col("b", from)>>, Primary(<<"a">>)),
            {}, 1, 2, 1)

\* The key's only column, of any type.
KeyOfType(type, to) ==
    OnTable(<<Change("b", "b", to)>>, Table(<<Col("a", "int"), Col("b", type)>>,
            <<Key("uk", <<"b">>)>>), {"allow-nullable-unique-key"}, 2, 2, 2)

TwoColumnKey(first, second, size) ==
    OnTable(<< >>, Table(<<Col("a", first), Col("b", second)>>, Primary(<<"a", "b">>)),
            {}, 5, 0, size)

ThreeColumnKey ==
    OnTable(<< >>, Table(<<Col("a", "int"), Col("b", "int"), Col("c", "int")>>,
                         Primary(<<"a", "b", "c">>)), {}, 3, 0, 2)

Abc == Table(<<Col("a", "int"), Col("b", "int"), Col("c", "unsigned")>>, Primary(<<"a">>))
NullableKey == Table(<<Column("a", "int", TRUE), Col("b", "int")>>, <<Key("uk", <<"a">>)>>)
TwoKeys(first) == Table(<<Col("a", first), Col("b", "int")>>,
                        <<Key("u1", <<"a">>), Key("u2", <<"b">>)>>)
VirtualKey == Table(<<Col("a", "int"), Col("b", "virtual")>>, <<Key("uk", <<"b">>)>>)

TableScenarios ==
    {Retyped(t, t) : t \in {"int", "unsigned", "datetime", "timestamp", "enum", "text",
                            "latin1", "binary", "varbinary", "json"}} \cup
    {Retyped("datetime", "timestamp"), Retyped("timestamp", "datetime"),
     Retyped("int", "unsigned"), Retyped("enum", "text"),
     Retyped("enum", "enum reordered"),
     Retyped("latin1", "text"), Retyped("text", "latin1"), Retyped("long text", "latin1"),
     Retyped("long text", "text"), Retyped("binary", "varbinary"),
     Retyped("varbinary", "binary"), Retyped("latin1", "json"), Retyped("text", "json"),
     Retyped("long text", "json")} \cup
    {KeyOfType(t, t) : t \in {"unsigned", "datetime", "enum", "text", "text ci", "float",
                              "latin1", "binary", "varbinary"}} \cup
    {KeyOfType("datetime", "timestamp"), KeyOfType("enum", "text"),
     KeyOfType("enum", "enum reordered"), KeyOfType("latin1", "text"),
     KeyOfType("binary", "varbinary"), KeyOfType("varbinary", "binary")} \cup
    {TwoColumnKey(f, "int", n) : f \in {"int", "enum"}, n \in 1..3} \cup
    {TwoColumnKey("int", "enum", 2), TwoColumnKey("int", "text ci", 2), ThreeColumnKey} \cup
    {OnTable(<<RenameTable>>, Abc, {}, 1, 2, 1)} \cup
    {OnTable(<<Change("b", "d", "int")>>, Abc, o, 1, 2, 1) :
        o \in SUBSET {"approve-renamed-columns", "skip-renamed-columns"}} \cup
    {OnTable(<<Change("b", "d", "timestamp")>>,
             Table(<<Col("a", "int"), Col("b", "datetime")>>, Primary(<<"a">>)),
             {"approve-renamed-columns"}, 1, 2, 1),
     OnTable(<<Change("a", "b", "int"), Change("b", "a", "int")>>, TwoKeys("int"),
             {"approve-renamed-columns"}, 1, 2, 1),
     OnTable(<<Change("b", "c", "int"), Change("c", "b", "unsigned")>>, Abc,
             {"approve-renamed-columns"}, 1, 2, 1),
     OnTable(<<Change("a", "d", "int")>>, Abc, {"approve-renamed-columns"}, 1, 2, 1),
     OnTable(<<Drop("b"), Add("d", "int")>>, Abc, {}, 1, 2, 1),
     OnTable(<<Drop("b"), Add("b", "int")>>, Abc, {}, 1, 2, 1),
     OnTable(<<Drop("a"), Add("a", "int"), AddKey("PRIMARY", <<"a">>)>>, Abc, {}, 1, 2, 1),
     OnTable(<<DropKey("PRIMARY")>>, Abc, {}, 1, 2, 1),
     OnTable(<< >>, Table(Abc.columns, << >>), {}, 1, 2, 1),
     OnTable(<<DropKey("PRIMARY"), AddKey("uk", <<"b">>)>>, Abc, {}, 1, 2, 1),
     OnTable(<<DropKey("PRIMARY"), AddKey("PRIMARY", <<"a", "b">>)>>, Abc, {}, 1, 2, 1),
     OnTable(<<AddKey("uk", <<"b">>)>>, Abc, {}, 1, 2, 1)} \cup
    {OnTable(<< >>, NullableKey, o, 1, 2, 1) : o \in SUBSET {"allow-nullable-unique-key"}} \cup
    {OnTable(<<DropKey("u1")>>, TwoKeys("int"), {}, 1, 2, 1),
     OnTable(<< >>, TwoKeys("int"), {}, 1, 2, 1), OnTable(<< >>, TwoKeys("float"), {}, 1, 2, 1),
     OnTable(<< >>, VirtualKey, {}, 1, 2, 1)}

MCScenarios == ServerScenarios \cup TableScenarios

=============================================================================
