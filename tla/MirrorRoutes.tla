---------------------------- MODULE MirrorRoutes ----------------------------
(***************************************************************************)
(* What the pull-through mirrors keep and what they only pass on: the      *)
(* classification of upstream URLs in internal/urlcanon and                *)
(* internal/server/{webmirror,gomod,hfmirror}.                             *)
(*                                                                         *)
(* A host is the sequence of its labels.  A path is the set of the         *)
(* directories in it and a file name split at its dots, so that an         *)
(* extension is a last part and ".docker.io" a last pair of labels.        *)
(***************************************************************************)
EXTENDS Integers, Sequences, SequencesExt

\* The files the mirrors are asked for: rev is the revision a file of the Hub or
\* of a Go module is asked at - "sha" for a commit, "version" for a release, any
\* other name for a branch - and "" anywhere else.
Url == [host : Seq(STRING), dirs : SUBSET STRING, name : Seq(STRING),
        rev : STRING]

LastPart(name) == name[Len(name)]

-----------------------------------------------------------------------------
(* urlcanon.ClassifyFamily *)

\* ".AppImage" is in the code's list, but the path it is compared with has
\* been put in lower case.
StaticExts ==
  {"zip", "tar", "tgz", "gz", "xz", "bz2", "7z", "zst", "br", "whl", "jar",
   "war", "deb", "rpm", "apk", "iso", "img", "dmg", "pkg", "exe", "msi", "bin",
   "ova", "vhd", "sqsh", "gem", "nupkg", "snap"}

Under(host, domain) == IsSuffix(domain, host) /\ host # domain
GitHub == <<"github", "com">>
Releases == <<"releases", "githubusercontent", "com">>
Npm == <<"npmjs", "org">>
Docker == <<"docker", "io">>

\* "" stands for a URL that is not a static artifact.
ClassifyFamily(u) ==
  CASE u.host = GitHub /\ u.dirs \cap {"releases/download", "archive"} # {}
         -> "github-release"
    [] \/ u.host \in {<<"objects", "githubusercontent", "com">>,
                      <<"codeload", "github", "com">>}
       \/ Under(u.host, Releases)
         -> "github-release"
    [] u.host \in {<<"files", "pythonhosted", "org">>, <<"pypi", "org">>}
         -> "pypi-file"
    [] Under(u.host, Npm) -> "npm-tarball"
    [] \/ Under(u.host, Docker)
       \/ u.host = <<"production", "cloudflare", "docker", "com">>
         -> "docker-blob"
    [] OTHER -> IF Len(u.name) > 1 /\ LastPart(u.name) \in StaticExts
                  THEN "generic-static" ELSE ""

-----------------------------------------------------------------------------
(* webmirror *)

Cut(base, ext) ==
  IF Len(base) > 1 /\ LastPart(base) = ext THEN Front(base) ELSE base

\* Each of the extensions is cut off once, in this order.
Stripped(name) ==
  LET compressed == Cut(Cut(Cut(Cut(name, "gz"), "xz"), "bz2"), "zst")
  IN Cut(Cut(compressed, "gpg"), "sig")

\* Names that may go on behind the dot, and names that may not.
isRepoMetadata(u) ==
  \/ "repodata" \in u.dirs
  \/ u.name[1] \in {"Packages", "Sources", "Contents", "repomd", "MD5SUMS",
                    "SHA256SUMS"}
  \/ Stripped(u.name) \in {<<"Release">>, <<"InRelease">>}

classify(u) ==
  CASE "by-hash" \in u.dirs -> "generic-static"
    [] "by-hash" \notin u.dirs /\ isRepoMetadata(u) -> ""
    [] OTHER -> ClassifyFamily(u)

\* Hosts the handler refuses by name; an empty list of allowed hosts allows all.
WebRefuses(u, allowed) ==
  \/ u.host \in {<<"localhost">>, <<"127", "0", "0", "1">>}
  \/ /\ allowed # {}
     /\ ~ \E d \in allowed : u.host = d \/ Under(u.host, d)

-----------------------------------------------------------------------------
(* gomod and hfmirror *)

\* <module>/@v/<version>.{zip,mod,info}
isImmutable(u) ==
  "@v" \in u.dirs /\ Len(u.name) > 1 /\ LastPart(u.name) \in {"zip", "mod", "info"}

\* Forty lower-case hexadecimal digits; "main" and "SHA" are not.
isCommitSHA(rev) == rev = "sha"

-----------------------------------------------------------------------------

Mirror == {"web", "gomod", "hf"}

Family ==
  {"", "github-release", "pypi-file", "npm-tarball", "docker-blob",
   "generic-static", "go-module", "huggingface-file"}

\* The family under which a mirror keeps u; "" when it passes u on.
KeptAs(mirror, u) ==
  CASE mirror = "web" -> classify(u)
    [] mirror = "gomod" -> IF isImmutable(u) THEN "go-module" ELSE ""
    [] mirror = "hf" -> IF isCommitSHA(u.rev) THEN "huggingface-file" ELSE ""

-----------------------------------------------------------------------------
(* What should not be kept *)

\* apt's Contents files: one for every architecture.  The code knows the first.
ContentsFiles == {"Contents", "Contents-amd64", "Contents-source"}

\* Repository metadata, also compressed or signed: the comment at classify lists
\* Packages*, Sources*, Release*, InRelease, Contents* and yum's repodata; the
\* README has all of it passed on "so indexes never go stale".
RepoMetadata(u) ==
  /\ "by-hash" \notin u.dirs
  /\ \/ {"repodata", "i18n", "dep11"} \cap u.dirs # {}
     \/ u.name[1] \in {"Packages", "Sources", "repomd"} \cup ContentsFiles
     \/ \E r \in {"Release", "InRelease"} :
          \/ u.name = <<r>>
          \/ \E ext \in {"gz", "xz", "bz2", "gpg"} : u.name = <<r, ext>>

\* PyPI's index pages, npm's package documents, Docker's manifests and GitHub's
\* archives of branches.
RegistryPage(u) ==
  \/ u.host = <<"pypi", "org">> /\ "simple" \in u.dirs
  \/ Under(u.host, Npm) /\ "-" \notin u.dirs
  \/ Under(u.host, Docker) /\ "manifests" \in u.dirs
  \/ u.host \in {GitHub, <<"codeload", "github", "com">>} /\ "refs/heads" \in u.dirs

\* What changes at its source under an unchanged URL.
Mutable(mirror, u) ==
  CASE mirror = "web" -> RepoMetadata(u) \/ RegistryPage(u)
    [] mirror = "gomod" ->
         \/ u.name \in {<<"list">>, <<"@latest">>, <<"latest">>}
         \/ "@v" \in u.dirs /\ u.rev \notin {"version", "sha"}
    [] mirror = "hf" -> u.rev # "sha"

\* The mutable files the code takes for artifacts and keeps for good: the metadata
\* of apt it does not know by name, as soon as it is compressed; what the generic
\* mirror is asked for at the hosts of the registries; and what a branch of a Go
\* module is.
Overlooked(mirror, u) ==
  \/ /\ mirror = "web"
     /\ \/ RegistryPage(u)
        \/ {"i18n", "dep11"} \cap u.dirs # {}
        \/ u.name[1] \in ContentsFiles \ {"Contents"}
  \/ mirror = "gomod" /\ isImmutable(u) /\ u.rev \notin {"version", "sha"}
=============================================================================
