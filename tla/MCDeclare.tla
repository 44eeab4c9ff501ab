----------------------------- MODULE MCDeclare -----------------------------
(***************************************************************************)
(* What is written in a Compose file and what a host has, for TLC: of each *)
(* key a value of every case of the loader, with the numbers around every  *)
(* bound it compares with.                                                 *)
(***************************************************************************)
EXTENDS Declare, TLC

Plain ==
  [ image |-> "i", entrypoint |-> None, user |-> None, environment |-> None, env_file |-> None,
    ports |-> <<>>, volume |-> None, device |-> None, cap |-> None, restart |-> None,
    depends_on |-> None, health |-> None, mem_limit |-> None, cpus |-> None, pids_limit |-> None,
    deploy |-> None, networks |-> None, network_mode |-> None, container_name |-> None, extra |-> None ]

Port(h, t) == [host |-> h, target |-> t, udp |-> FALSE, form |-> "plain"]
Udp(h, t) == [Port(h, t) EXCEPT !.udp = TRUE]

Short(path) ==
  [ type |-> "bind", short |-> TRUE, absolute |-> FALSE, path |-> path, ro |-> FALSE,
    option |-> None, tilde |-> FALSE ]

EnvFile(required) == [absolute |-> FALSE, path |-> <<"e">>, required |-> required, tilde |-> FALSE]
Dev(path) == [absolute |-> TRUE, path |-> path, permissions |-> None]
Restarts(policy, max) == [policy |-> policy, max |-> max]
On(s) == [on |-> s, condition |-> None, required |-> TRUE, restart |-> FALSE]

Checked ==
  [ test |-> "CMD", disable |-> FALSE, interval |-> None, timeout |-> None, start_period |-> None,
    retries |-> None, start_interval |-> FALSE ]

NoDeploy == [replicas |-> None, memory |-> None, cpus |-> None, pids |-> None, other |-> None]

Writing ==
  [ image        |-> {"", "-i"},
    entrypoint   |-> {"e", "empty"},
    user         |-> {"u", "a b"},
    environment  |-> {"A=1", "bare"},
    env_file     |-> {EnvFile(TRUE), EnvFile(FALSE), [EnvFile(FALSE) EXCEPT !.tilde = TRUE]},
    ports        |-> { <<Port(8080, 80)>>, <<Port(65535, 65535)>>, <<Port(65536, 80)>>, <<Port(80, 65536)>>,
                       <<Port(0, 80)>>, <<Port(None, 80)>>, <<Port(53, 53), Udp(53, 53)>>,
                       <<Port(80, 80), Port(80, 81)>>, <<[Port(80, 80) EXCEPT !.form = "host_ip"]>> },
    volume       |-> { Short(<<"x">>), Short(<<"x", "z">>), [Short(<<"x">>) EXCEPT !.short = FALSE],
                       [Short(<<"q", "y", "z">>) EXCEPT !.absolute = TRUE, !.ro = TRUE],
                       [Short(<<"x">>) EXCEPT !.option = "rshared"],
                       [Short(<<"x">>) EXCEPT !.option = "nocopy"],
                       [Short(<<"home">>) EXCEPT !.tilde = TRUE],
                       [Short(<<"data">>) EXCEPT !.type = "volume"],
                       [Short(<<"data">>) EXCEPT !.type = "volume", !.option = "nocopy"],
                       [Short(<<>>) EXCEPT !.type = "volume"], [Short(<<"t">>) EXCEPT !.type = "tmpfs"] },
    device       |-> { Dev(<<"d">>), Dev(<<"l">>), [Dev(<<"d">>) EXCEPT !.permissions = "r"],
                       [Dev(<<"d">>) EXCEPT !.permissions = "x"], [Dev(<<"d">>) EXCEPT !.absolute = FALSE] },
    cap          |-> {"net_admin", "CAP_NET_ADMIN", "all", "WIZARD"},
    restart      |-> { Restarts("no", None), Restarts("always", None), Restarts("unless-stopped", None),
                       Restarts("on-failure", None), Restarts("on-failure", 0), Restarts("on-failure", 1),
                       Restarts("sometimes", None) },
    depends_on   |-> { On("a"), On("b"), [On("a") EXCEPT !.condition = "healthy"],
                       [On("a") EXCEPT !.condition = "completed"], [On("a") EXCEPT !.required = FALSE],
                       [On("a") EXCEPT !.restart = TRUE] },
    health       |-> { Checked, [Checked EXCEPT !.test = "NONE"], [Checked EXCEPT !.test = "CMD alone"],
                       [Checked EXCEPT !.test = "other"], [Checked EXCEPT !.test = None, !.interval = 10],
                       [Checked EXCEPT !.disable = TRUE], [Checked EXCEPT !.start_interval = TRUE],
                       [Checked EXCEPT !.interval = 3], [Checked EXCEPT !.interval = 0],
                       [Checked EXCEPT !.interval = 10], [Checked EXCEPT !.interval = 20],
                       [Checked EXCEPT !.timeout = 60], [Checked EXCEPT !.timeout = 62],
                       [Checked EXCEPT !.start_period = 4], [Checked EXCEPT !.retries = 0],
                       [Checked EXCEPT !.retries = 1000], [Checked EXCEPT !.retries = 1001] },
    mem_limit    |-> {0, 1000, KiB, MiB + KiB, MiB, GiB},
    cpus         |-> {-10, 4, 10, 5000, 5004},
    pids_limit   |-> {-1, 0, 1, 65536, 65537},
    deploy       |-> { [NoDeploy EXCEPT !.replicas = 1], [NoDeploy EXCEPT !.replicas = 2],
                       [NoDeploy EXCEPT !.memory = MiB + KiB], [NoDeploy EXCEPT !.memory = GiB],
                       [NoDeploy EXCEPT !.cpus = 5000], [NoDeploy EXCEPT !.pids = 1],
                       [NoDeploy EXCEPT !.pids = -1], [NoDeploy EXCEPT !.other = "reservations"] },
    networks     |-> {"default", "other"},
    network_mode |-> {"host", "none", "bridge"},
    container_name |-> {<<"own">>, <<"Bad">>, <<"p", "b">>},
    extra        |-> {"x-", "privileged"} ]

Home == (<<"p">> :> Here("dir")) @@ (<<"q">> :> Here("dir")) @@ (<<"v">> :> Here("dir"))
        @@ (<<"!">> :> Here("dir")) @@ (<<"p", "x">> :> Here("nothing"))
        @@ (<<"p", "e">> :> Here("file")) @@ (<<"q", "y">> :> Here("nothing"))
        @@ (<<"d">> :> Here("device")) @@ (<<"l">> :> LinkTo(<<"d">>))

Changing ==
  (<<"p", "x">> :> {Here("dir"), Here("file"), Here("locked"), LinkTo(<<"q">>),
                    LinkTo(<<"q", "y">>), LinkTo(<<"p", "x">>)})
  @@ (<<"q", "y">> :> {Here("dir"), Here("file"), LinkTo(<<"p", "x">>)})
  @@ (<<"q">> :> {Here("locked")})
  @@ (<<"p", "e">> :> {Here("nothing"), Here("dir")})
  @@ (<<"d">> :> {Here("nothing"), Here("file")})

Names == {"a", "b"}
WorkingDir == <<"p">>
VolumesDir == <<"v">>

Request == [file |-> "found", dir |-> <<>>, project |-> None]

Asking ==
  { Request, [Request EXCEPT !.file = "other"], [Request EXCEPT !.file = "-"],
    [Request EXCEPT !.file = "-", !.project = "p"], [Request EXCEPT !.dir = <<"p", "x">>],
    [Request EXCEPT !.dir = <<"!">>], [Request EXCEPT !.project = "Bad"] }
=============================================================================
