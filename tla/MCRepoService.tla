---------------------------- MODULE MCRepoService ----------------------------
(***************************************************************************)
(* Values for the constants of RepoService: two repositories of the same   *)
(* name, whose forks are one, and the ways users type them.                *)
(***************************************************************************)
EXTENDS RepoService, TLC

MCRepos == {<<"ann", "lib">>, <<"bob", "lib">>}
MCOneRepo == {<<"ann", "lib">>}
MCUpstream == {<<"ann", "lib">>}

\* https://github.com/ann/lib, /bob/lib/tree, and lib, which is no repository
MCTyped == {<<"github.com", "ann", "lib">>, <<"", "bob", "lib", "tree">>, <<"lib", "">>}
MCTypedOne == {<<"github.com", "ann", "lib">>}

MCCreateOps == {"create", "remove", "lock"}

HandlerSymmetry == Permutations(Handlers)

-----------------------------------------------------------------------------

\* "forked repository {r.repoUrl()} as {forked.url()}" (repo.service.ts:112):
\* the clone that a creation leaves is of a fork of that repository.
CloneIsOfRepo == \A r \in Repos : disk[r].clone = "ready" => disk[r].of = r
=============================================================================
