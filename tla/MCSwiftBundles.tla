--------------------------- MODULE MCSwiftBundles ---------------------------
(***************************************************************************)
(* Two variants of the one platform, of which one is linked with           *)
(* Homebrew's OpenSSL, and one of the other.                               *)
(***************************************************************************)
EXTENDS SwiftBundles

MCApple == <<"ios-arm64", "macos-arm64">>
MCAndroid == <<"android-aarch64">>
MCBrew == {"macos-arm64"}
=============================================================================
