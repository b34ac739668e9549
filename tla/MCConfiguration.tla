-------------------------- MODULE MCConfiguration --------------------------
(***************************************************************************)
(* Two configurations, one with two listeners. Everyone names what it gives *)
(* after itself, so that it can be told whose value a listener ended with. *)
(***************************************************************************)
EXTENDS Configuration

CONSTANTS c1, c2, l1, l2, l3, Handler

MCConfigOf == [l \in {l1, l2, l3} |-> IF l = l3 THEN c2 ELSE c1]

NoStruct == [k \in Kinds |-> None]
Full(o) == [k \in Kinds |-> [f \in Fields |-> o]]
AddressOnly(o) == [k \in Kinds |-> [f \in Fields |-> IF f = "address" THEN o ELSE None]]

Gives(command, auth, plugins, log, services) ==
    [plain |-> [p \in Plain |-> CASE p = "command" -> command [] p = "auth" -> auth
                                  [] p = "plugins" -> plugins [] p = "log" -> log],
     services |-> services]

Scheduled == <<{"schedule", "preview"}>>
Twice == <<{"httpResponse"}, {"retry", "httpResponse"}>>

\* The plugin that needs a database is asked for by a listener's own configuration,
\* by the defaults or by an error handler.
MCWorlds ==
    {[debug |-> {c1},
      given |-> [x \in Owners \X BOOLEAN |->
        CASE x = <<File, FALSE>> -> IF file = NoStruct THEN None ELSE Gives(None, File, None, File, file)
          [] x = <<c1, FALSE>> -> Gives(c1, c1, IF db = c1 THEN Scheduled ELSE None,
                                   IF db = c1 THEN c1 ELSE None, conf)
          [] x = <<c2, FALSE>> -> Gives(None, None, None, None, conf2)
          [] x = <<l1, FALSE>> -> Gives(l1, None, IF db = l1 THEN Scheduled ELSE None, None, own)
          [] x = <<l2, FALSE>> -> Gives(None, l2, <<{"retry"}, {"retry", "httpResponse"}>>, l2, second)
          [] x = <<l3, FALSE>> -> Gives(l3, None, Scheduled, None, third)
          [] x = <<File, TRUE>> -> fileHandler
          [] x = <<c1, TRUE>> -> defaultHandler
          [] x = <<l1, TRUE>> -> handler
          [] OTHER -> None]] :
        file \in {NoStruct, Full(File)}, conf \in {NoStruct, Full(c1), AddressOnly(c1)},
        conf2 \in {NoStruct, Full(c2)},
        own \in {NoStruct, AddressOnly(l1)}, second \in {NoStruct, Full(l2)},
        third \in {NoStruct, AddressOnly(l3)},
        defaultHandler \in {None, Gives(c1, None, None, None, NoStruct)},
        fileHandler \in {None, Gives(File, None, None, None, Full(File))},
        handler \in {None} \cup {Gives(l1, l1, p, None, s) :
                                p \in {None, Scheduled, Twice}, s \in {NoStruct, Full(Handler)}},
        db \in {c1, l1}}
=============================================================================
