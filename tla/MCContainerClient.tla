-------------------------- MODULE MCContainerClient --------------------------
(* Small instances of ContainerClient for TLC.                             *)
EXTENDS ContainerCalls

Ref(name, tag) == [parts |-> <<name>>, port |-> 0, tag |-> tag]

\* The postgres service as ensurePostgres asks for it ...
PgOld == [ image |-> Ref("postgres", "16"), cmd |-> <<"postgres">>,
           env |-> {"POSTGRES_DB=pulse"},
           mounts |-> <<[bind |-> "/mnt:/var/lib/postgresql/data", mode |-> <<>>]>>,
           ports |-> <<>>, hostNetwork |-> FALSE, memory |-> 1, nanoCPUs |-> 1 ]

\* ... after an upgrade, and after a change of max_ram alone.
PgNew      == [PgOld EXCEPT !.image = Ref("postgres", "17")]
PgMoreRAM  == [PgOld EXCEPT !.memory = 2]
\* Predecessors without its data on the host, and with one more bind.
PgNoData   == [PgOld EXCEPT !.mounts = <<>>]
PgMoreData == [PgOld EXCEPT !.mounts = @ \o <<[bind |-> "/srv:/srv", mode |-> <<"ro">>]>>]
\* A hand-made predecessor with the same image and other settings.
PgOtherEnv == [PgOld EXCEPT !.env = {"POSTGRES_DB=postgres"}]

AllOptions == {PgOld, PgNew, PgMoreRAM, PgOtherEnv, PgNoData, PgMoreData}
Resize     == {PgOld, PgMoreRAM}

TheImageID  == [parts |-> <<"sha256">>, port |-> 1, tag |-> "digest"]
Dots        == {"docker.io", "ghcr.io"}
PodmanFlags == <<"rprivate", "rbind">>
EngineEnv   == {"PATH=/usr/bin"}
EngineCmd   == <<"docker-entrypoint.sh">>
==============================================================================
