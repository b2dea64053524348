--------------------------- MODULE MCVersionList ---------------------------
EXTENDS VersionList

MCVersions == {"4.14.0-ec.1"}
MCLatestNames == {"latest-4.14"}
=============================================================================
