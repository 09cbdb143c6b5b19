--------------------------- MODULE MCGuestLaunch ---------------------------
(* Launches from fourteen directories, with a sandbox and with explicit      *)
(* volumes, and launches with up to two environment flags, also of names    *)
(* that the launcher, the service or the login shell has a value for.       *)
EXTENDS GuestLaunch

MCHomes == {<<"home", "u">>, <<"data", "u">>}

MCHostEnv == [n \in {"A"} |-> <<"h">>]

MCServiceEnv == [n \in {"container", "PATH"} |-> <<"service">>]

\* A login shell may find all set, or set the path and unset a variable.
MCLogins ==
    {[set |-> <<>>, unset |-> {}],
     [set |-> [n \in {"PATH"} |-> <<"profile">>], unset |-> {"LANG"}]}

Projects ==
    {h \o p : h \in MCHomes,
              p \in {<<>>, <<"src">>, <<"src", "p">>, <<"src", "a:b">>, <<"projects", "p">>, <<"projects", "a:b">>}}
    \union {<<>>, <<"srv", "p">>}

Extra(host, relative, guest) == [host |-> host, relative |-> relative, guest |-> guest]

ExtraSpecs ==
    {Extra(<<"srv">>, FALSE, NoDir),
     Extra(<<"data">>, TRUE, NoDir),
     Extra(<<"srv", "q">>, FALSE, <<"projects", "p">>),
     Extra(<<"srv", "q">>, FALSE, <<"home", "u", "projects", "q">>),
     Extra(<<"srv", "q">>, FALSE, <<"home", "u", "src", "p">>),
     Extra(<<"home", "u", "state", "home">>, FALSE, <<"home">>)}

Plain == [cwd |-> <<"srv", "p">>, sandbox |-> NoDir, extra |-> {}, env |-> <<>>,
          gpu |-> FALSE, verbose |-> FALSE, usb |-> FALSE, timezone |-> NoDir,
          mode |-> "claude", command |-> <<>>]

Flag(name, value) == [name |-> name, value |-> value]

Flagged ==
    {Flag("A", Inherit), Flag("A", <<>>), Flag("A", <<"x", "'", "\\">>), Flag("B", Inherit),
     Flag("LD_LIBRARY_PATH", <<"=", "\n">>), Flag("PROJECT", <<"tmp">>), Flag("MODE", <<"x">>),
     Flag("COMMAND", <<"x">>), Flag("CLAUDEPOD_PROJECT_PATH", <<"tmp">>),
     Flag("PATH", <<"x">>), Flag("LANG", <<"x">>), Flag("container", <<"x">>), Flag("UID", <<"x">>),
     Flag("CLAUDEPOD_AGENT_ENV_NAMES", <<>>), Flag("BAD-NAME", <<"x">>)}

\* Two flags are of one name, or of two and in one order.
Pairs == {<<f, g>> : f \in Flagged, g \in {h \in Flagged : h.name = "A"}}

\* Variables that the launcher sets for the entry, some of them not always.
OwnNames == {VERBOSE_ENV, USB_ENV, TIMEZONE_ENV, STORE_LAYERS_ENV, USERNAME_ENV, TOPLEVEL_ENV}

MCNames ==
    {"home", "data", "srv", "u", "src", "state", "projects", "temp", "box", "p", "q", "a:b",
     "no directory", "no", "value", "driver", "shell", "claude", "codex", "run",
     "h", "x", "tmp", Quote, Backslash, Newline, "=",
     "1", "layers", "toplevel", "zone",
     "A", "B", "LD_LIBRARY_PATH", "PROJECT", "MODE", "COMMAND", "BAD-NAME",
     "PATH", "LANG", "container", "UID", PROJECT_ENV, MODE_ENV, NAMES_ENV}
    \union OwnNames

MCInvocations ==
    {[Plain EXCEPT !.cwd = p, !.sandbox = s] : p \in Projects, s \in {NoDir, <<"box">>}}
    \union {[Plain EXCEPT !.cwd = p, !.extra = {e}] : p \in Projects, e \in ExtraSpecs}
    \union
    {[Plain EXCEPT !.env = e, !.gpu = g, !.mode = c[1], !.command = c[2]] :
        e \in {<<>>} \union {<<f>> : f \in Flagged} \union Pairs,
        g \in BOOLEAN, c \in {<<"shell", <<>>>>, <<"claude", <<>>>>, <<"claude", <<"run">>>>}}
    \union
    {[Plain EXCEPT !.env = <<Flag(n, v)>>, !.verbose = b, !.usb = b, !.timezone = z] :
        n \in OwnNames, v \in {<<>>, <<"x">>, Inherit}, b \in BOOLEAN, z \in {NoDir, <<"zone">>}}
=============================================================================
