------------------------------ MODULE MCManifest ------------------------------
(* Instances of Manifest. *)
EXTENDS Manifest

App(expo, runtime, baked, main) ==
    [v |-> 0, parses |-> TRUE, expo |-> expo, runtime |-> runtime, aligned |-> expo,
     baked |-> baked, main |-> main]

\* The template's package.json, one that an author extended, a legacy one, a broken one.
MCApps ==
    {App(TRUE, TRUE, TRUE, "default"), App(TRUE, TRUE, FALSE, "custom"),
     App(FALSE, FALSE, FALSE, "default"), [App(TRUE, TRUE, TRUE, "default") EXCEPT !.parses = FALSE]}

Server(client, cli) == [v |-> 0, parses |-> TRUE, client |-> client, cli |-> cli]

Prisma7 == [number |-> 7, major |-> 7]
Latest == [number |-> 0, major |-> 7]
From5 == [number |-> 5, major |-> 7]

\* Without Prisma, with 7 of both packages, with the client alone, with versions that do
\* not tell what npm installs, broken.
MCServers ==
    {Server(None, None), Server(Prisma7, Prisma7), Server(Prisma7, None),
     Server(Prisma7, Latest), Server(Prisma7, From5),
     [Server(Prisma7, Prisma7) EXCEPT !.parses = FALSE]}

Schema(urls) == [v |-> 0, urls |-> urls, postgres |-> TRUE]

MCSchemas == {Schema({}), Schema({"env"})}

MCPlains == {[v |-> 0]}
=============================================================================
