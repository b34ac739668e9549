----------------------------- MODULE MCListener -----------------------------
(***************************************************************************)
(* The listener configurations that TLC considers.                         *)
(***************************************************************************)
EXTENDS Listener

CONSTANTS r1, r2

Limits(number, duration) == [maxRetries |-> number, maxElapsed |-> duration]
Command(fs, keys) == [files |-> fs, stores |-> keys]
Configuration(main, onError, retries, trigger, outputPlugin, hooks) ==
    [main |-> main, onError |-> onError, retries |-> retries, trigger |-> trigger,
     outputPlugin |-> outputPlugin, fallibleHooks |-> hooks]

File(name, clean, absolute) == [name |-> name, clean |-> clean, absolute |-> absolute]
Temporary == File("dump", "dump", FALSE)
Persistent == File("/opt/log", "_opt_log", TRUE)
Dashed == File("my-dump", "my_dump", FALSE)
Scored == File("my_dump", "my_dump", FALSE)

\* Everything at once; a limit by time before one by number; the default limit
\* of a plugin without one; names that collide once they are cleaned.
Full == Configuration(Command({Temporary, Persistent}, {"args", "output"}),
                      Command({Temporary}, {"args"}),
                      <<Limits(2, None)>>, TRUE, TRUE, TRUE)
TwoPlugins == Configuration(Command({Temporary}, {"command"}), None,
                            <<Limits(None, 1), Limits(1, None)>>, FALSE, FALSE, FALSE)
DefaultLimit == Configuration(Command({}, {}), Command({}, {"command"}),
                              <<Limits(None, None), Limits(0, None)>>, FALSE, FALSE, FALSE)
Colliding == Configuration(Command({Dashed, Scored}, {"output"}), None, <<>>, FALSE, FALSE, FALSE)

\* For requests that meet: files, one retry and an error handler with a file.
Shared == Configuration(Command({Temporary}, {}), Command({Temporary}, {}),
                        <<Limits(1, None)>>, FALSE, FALSE, FALSE)

AllListeners == {Full, TwoPlugins, DefaultLimit, Colliding, Shared}

\* The requests that meet do so at the shared listener, where time plays no part.
Met ==
    /\ conf # Shared => pc[r2] = "new"
    /\ conf = Shared => elapsed = [r \in Requests |-> 0]

\* Only a limit by time.
ElapsedListeners == {Configuration(Command({}, {}), None, <<Limits(None, 1)>>, FALSE, FALSE, FALSE)}

\* Two files, whose names collide once they are cleaned.
CollidingListeners == {Colliding}
=============================================================================
